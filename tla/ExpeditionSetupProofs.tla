------------------------- MODULE ExpeditionSetupProofs -------------------------
(***************************************************************************)
(* Proofs, for every team size, set of people and number of invocations,   *)
(* of the properties of ExpeditionSetup.                                   *)
(*                                                                         *)
(* A transaction computes what it writes from a context that was loaded    *)
(* earlier.  Base says that a context at the position of the stream is the *)
(* present one (Informed), so that every write can be restated as a step   *)
(* of the present state alone: StoreStep, with Invites, Accepts, Revokes,  *)
(* Rotates and Starts.  The rest of the inductive invariant IInv speaks of *)
(* that state, each part resting on those before it: OneTimeEvents,        *)
(* RowsFollowLog, ViewFollowsRows, Seating, Capacity, Planned.             *)
(***************************************************************************)
EXTENDS ExpeditionSetup, FiniteSetTheorems, SequenceTheorems,
        WellFoundedInduction, TLAPS

-----------------------------------------------------------------------------
(***************************************************************************)
(* Types of what the module leaves implicit                                *)
(***************************************************************************)

Outcomes == {"pending", "accepted", "revoked"}

Rows == [person: People, lapsed: BOOLEAN, status: Outcomes]
Seats == [order: Orders, status: {"active", "banned"}]
Entries == [id: InvitationIds, status: Outcomes]

Happenings ==
    [type: {"expedition.created", "expedition.ready", "expedition.started"}]
       \union [type: {"invitation.created", "invitation.revoked"},
               invitation: InvitationIds]
       \union [type: {"invitation.accepted"}, invitation: InvitationIds, person: People]
       \union [type: {"participant.added"}, person: People, order: Orders]
       \union [type: {"rotation.generated"}, plan: SUBSET Assignments]
       \union [type: {"stage.opened"}, stage: {"onboarding"}]

Stages == {"draft", "ready", "active"}

KnownViews == {v \in Views : Len(v.invitations) <= TeamMax}

Contexts ==
    [status: Stages, position: Nat, version: Nat, view: KnownViews \union {NoView}]

Flights ==
    {Idle} \union [phase: {"loaded", "matched"}, command: Commands, context: Contexts,
                   order: Orders \union {0}]

Types ==
    /\ status \in Stages
    /\ invitations \in Seq(Rows)
    /\ participants \in [People -> Seats \union {NoRow}]
    /\ events \in Seq(Happenings)
    /\ version \in Nat
    /\ view \in KnownViews \union {NoView}
    /\ flight \in [Workers -> Flights]

\* What an invocation under way knows: the invitation it is about exists, and its
\* context is the current one unless something has been appended since.
Informed(f) ==
    f.phase # "idle" =>
        /\ f.phase = "matched" => f.command.kind = "accept"
        /\ f.command.kind \in {"accept", "revoke"}
              => f.command.invitation \in DOMAIN invitations
        /\ f.context.position <= Len(events)
        /\ f.context.position = Len(events) => f.context = CurrentContext

Base ==
    /\ Types
    /\ \A w \in Workers : Informed(flight[w])
    /\ SetupViewCurrent

-----------------------------------------------------------------------------
(***************************************************************************)
(* The writes, said of the current state: process_command lets a context   *)
(* through only while it is current.                                       *)
(***************************************************************************)

Invites(p) ==
    LET id == Len(invitations) + 1
    IN  /\ InviteAllowed(CurrentContext)
        /\ MayInvite(p)
        /\ id \in InvitationIds
        /\ events' = events \o <<[type |-> "invitation.created", invitation |-> id]>>
        /\ view' = Invited(CurrentContext, id)
        /\ invitations' = Append(invitations, [person |-> p, lapsed |-> FALSE,
                                               status |-> "pending"])
        /\ version' = version + 1
        /\ UNCHANGED <<status, participants>>

Accepts(id, person, order) ==
    /\ person = invitations[id].person
    /\ AcceptAllowed(CurrentContext, id, person, order)
    /\ MayAccept(id, order)
    /\ events' = events
          \o <<[type |-> "invitation.accepted", invitation |-> id, person |-> person],
               [type |-> "participant.added", person |-> person, order |-> order]>>
    /\ view' = Accepted(CurrentContext, id, person, order)
    /\ participants' = [participants EXCEPT ![person] =
                           [order |-> order, status |-> "active"]]
    /\ Resolve(id, "accepted")
    /\ version' = version + 1
    /\ UNCHANGED status

Revokes(id) ==
    /\ RevokeAllowed(CurrentContext, id)
    /\ MayRevoke(id)
    /\ events' = events \o <<[type |-> "invitation.revoked", invitation |-> id]>>
    /\ view' = Revoked(CurrentContext, id)
    /\ Resolve(id, "revoked")
    /\ version' = version + 1
    /\ UNCHANGED <<status, participants>>

Rotates(plan) ==
    /\ plan = RotationPlan(view)
    /\ GenerateAllowed(CurrentContext)
    /\ MayRotate(plan)
    /\ events' = events \o <<[type |-> "rotation.generated", plan |-> plan],
                             [type |-> "expedition.ready"]>>
    /\ view' = Ready(CurrentContext)
    /\ status' = "ready"
    /\ version' = version + 1
    /\ UNCHANGED <<invitations, participants>>

Starts ==
    /\ StartAllowed(CurrentContext)
    /\ MayStart(view.rotation)
    /\ events' = events \o <<[type |-> "expedition.started"],
                             [type |-> "stage.opened", stage |-> "onboarding"]>>
    /\ view' = Started(CurrentContext)
    /\ status' = "active"
    /\ version' = version + 1
    /\ UNCHANGED <<invitations, participants>>

\* Everything that changes the rows, the log or the view.
Writes ==
    \/ \E p \in People : Invites(p)
    \/ \E id \in DOMAIN invitations, person \in People, order \in Orders :
          Accepts(id, person, order)
    \/ \E id \in DOMAIN invitations : Revokes(id)
    \/ \E plan \in SUBSET Assignments : Rotates(plan)
    \/ Starts

StoreStep ==
    \/ UNCHANGED store
    \/ Writes
    \/ \E i \in DOMAIN invitations : Lapse(i)
    \/ \E p \in People : Ban(p)

-----------------------------------------------------------------------------
(***************************************************************************)
(* The inductive invariant                                                 *)
(***************************************************************************)

\* The one-time events, in the log once they are due and only then.
OneTimeEvents ==
    /\ \A type \in {"rotation.generated", "expedition.ready"} :
          IF status = "draft" THEN Occurrences(type) = {}
                              ELSE \E n : Occurrences(type) = {n}
    /\ \A type \in {"expedition.started", "stage.opened"} :
          IF status = "active" THEN \E n : Occurrences(type) = {n}
                               ELSE Occurrences(type) = {}

\* The invitations that events of a type name.
Named(type) == {events[n].invitation : n \in Occurrences(type)}

WithStatus(outcome) == {i \in DOMAIN invitations : invitations[i].status = outcome}

SeatsOfRows ==
    {[person |-> p, order |-> participants[p].order]
        : p \in {q \in People : participants[q] # NoRow}}

\* Each row is what the log made of it.
RowsFollowLog ==
    /\ Named("invitation.created") = DOMAIN invitations
    /\ Named("invitation.accepted") = WithStatus("accepted")
    /\ Named("invitation.revoked") = WithStatus("revoked")
    /\ SeatsInLog = SeatsOfRows

ViewNow == IF view = NoView THEN InitialView ELSE view

\* Of each invitation a list has at most one entry, as its row is; only revoked ones
\* may be missing.
Faithful(entries) ==
    /\ \A n \in DOMAIN entries :
          /\ entries[n].id \in DOMAIN invitations
          /\ entries[n].status = invitations[entries[n].id].status
    /\ \A m, n \in DOMAIN entries : entries[m].id = entries[n].id => m = n
    /\ \A i \in DOMAIN invitations :
          invitations[i].status # "revoked" => \E n \in DOMAIN entries : entries[n].id = i

ViewFollowsRows ==
    /\ ViewNow.participants = SeatsInLog
    /\ Faithful(ViewNow.invitations)

\* A person accepts one invitation, for one seat, and has one open invitation at most.
Seating ==
    /\ \A p \in People :
          participants[p] # NoRow
             <=> \E i \in DOMAIN invitations :
                    invitations[i].person = p /\ invitations[i].status = "accepted"
    /\ \A i, j \in DOMAIN invitations :
          /\ invitations[i].person = invitations[j].person
          /\ invitations[i].status = invitations[j].status
          /\ invitations[i].status # "revoked"
          => i = j
    /\ \A p, q \in People :
          /\ participants[p] # NoRow /\ participants[q] # NoRow
          /\ participants[p].order = participants[q].order
          => p = q
    /\ \A p \in People, o \in Orders :
          participants[p] # NoRow /\ o < participants[p].order => o \notin FreeOrders

Capacity ==
    /\ IsFiniteSet(ActivePeople)
    /\ Cardinality(ActivePeople) + Cardinality(PendingIds) <= TeamMax

\* A plan that gives each person one role of its own and one of them the lead.
GoodPlan(plan) ==
    /\ plan \in SUBSET Assignments
    /\ \A a, b \in plan :
          a # b => a.person # b.person /\ a.onboard_role # b.onboard_role
    /\ \E a \in plan :
          /\ a.product_role = "product_captain" /\ a.onboard_role # Cook
          /\ \A b \in plan \ {a} : b.product_role # "product_captain"

\* From the rotation on, the view holds the plan of the log, made for its seats.
Planned ==
    IF status = "draft" THEN ViewNow.rotation = NoRotation
    ELSE /\ view # NoView
         /\ PendingIds = {}
         /\ GoodPlan(view.rotation)
         /\ Cardinality(view.participants) \in TeamMin..TeamMax
         /\ PlanFits(view.rotation, {seat.person : seat \in view.participants})
         /\ \A n \in Occurrences("rotation.generated") : events[n].plan = view.rotation

IInv ==
    /\ Base
    /\ OneTimeEvents
    /\ RowsFollowLog
    /\ ViewFollowsRows
    /\ Seating
    /\ Capacity
    /\ Planned

-----------------------------------------------------------------------------
(***************************************************************************)
(* Minima and positions                                                    *)
(***************************************************************************)

\* A nonempty set of naturals has a least element, the one CHOOSE takes.
LEMMA LeastElement ==
    ASSUME NEW S \in SUBSET Nat, S # {}
    PROVE  \E x \in S : \A y \in S : x <= y
  <1> DEFINE R == OpToRel(<, Nat)
  <1>1. PICK x \in S : \A y \in S : <<y, x>> \notin R
    BY NatLessThanWellFounded, WFMin
  <1>2. \A y \in S : ~(y < x)
    BY <1>1 DEF OpToRel
  <1> QED
    BY <1>2

LEMMA MinIsLeast ==
    ASSUME NEW S \in SUBSET Nat, S # {}
    PROVE  Min(S) \in S /\ \A y \in S : Min(S) <= y
  BY LeastElement DEF Min

\* The order that is proposed is free.
LEMMA LowestIsFree ==
    ASSUME FreeOrders # {}
    PROVE  /\ LowestFreeOrder \in FreeOrders
           /\ \A o \in FreeOrders : LowestFreeOrder <= o
  <1>1. FreeOrders \in SUBSET Nat
    BY PolicyAssumption DEF FreeOrders, Orders
  <1> QED
    BY <1>1, LeastElement DEF LowestFreeOrder

\* EntryOf is a position of the id, or 0 when there is none.
LEMMA EntryFound ==
    ASSUME NEW v \in Views, NEW id
    PROVE  \/ /\ EntryOf(v, id) = 0
              /\ \A n \in DOMAIN v.invitations : v.invitations[n].id # id
           \/ /\ EntryOf(v, id) \in DOMAIN v.invitations
              /\ EntryOf(v, id) # 0
              /\ v.invitations[EntryOf(v, id)].id = id
  <1> DEFINE I == {i \in 1..Len(v.invitations) : v.invitations[i].id = id}
  <1>1. EntryOf(v, id) = IF I # {} THEN Min(I) ELSE 0
    BY DEF EntryOf, SelectInSeq
  <1>2. v.invitations \in Seq(Entries)
    BY DEF Views, Entries, Outcomes
  <1>3. I # {} => Min(I) \in I
    <2>1. I \in SUBSET Nat
      OBVIOUS
    <2> HIDE DEF I
    <2> QED
      BY <2>1, MinIsLeast
  <1> QED
    BY <1>1, <1>2, <1>3, SMTT(30)

\* Removing one element shifts those behind it.
LEMMA RemoveAtProperties ==
    ASSUME NEW S, NEW s \in Seq(S), NEW k \in 1..Len(s)
    PROVE  /\ RemoveAt(s, k) \in Seq(S)
           /\ Len(RemoveAt(s, k)) = Len(s) - 1
           /\ \A n \in 1..(Len(s) - 1) :
                 RemoveAt(s, k)[n] = IF n < k THEN s[n] ELSE s[n + 1]
  <1> DEFINE before == SubSeq(s, 1, k - 1)
             after == SubSeq(s, k + 1, Len(s))
  <1>1. RemoveAt(s, k) = before \o after
    BY DEF RemoveAt
  <1>2. /\ before \in Seq(S) /\ Len(before) = k - 1
        /\ \A n \in 1..(k - 1) : before[n] = s[n]
    <2>1. \A n \in 1..(k - 1) : s[n] \in S
      BY ElementOfSeq
    <2> QED
      BY <2>1, SubSeqProperties
  <1>3. /\ after \in Seq(S) /\ Len(after) = Len(s) - k
        /\ \A n \in 1..(Len(s) - k) : after[n] = s[n + k]
    <2>1. \A n \in (k + 1)..Len(s) : s[n] \in S
      BY ElementOfSeq
    <2> QED
      BY <2>1, SubSeqProperties
  <1> HIDE DEF before, after
  <1>4. /\ before \o after \in Seq(S)
        /\ Len(before \o after) = Len(before) + Len(after)
        /\ \A n \in 1..(Len(before) + Len(after)) :
              (before \o after)[n] = IF n <= Len(before) THEN before[n]
                                    ELSE after[n - Len(before)]
    BY <1>2, <1>3, ConcatProperties
  <1>5. ASSUME NEW n \in 1..(Len(s) - 1)
        PROVE  (before \o after)[n] = IF n < k THEN s[n] ELSE s[n + 1]
    <2>1. CASE n < k
      BY <1>2, <1>3, <1>4, <2>1
    <2>2. CASE ~(n < k)
      <3>1. n - (k - 1) \in 1..(Len(s) - k) /\ (n - (k - 1)) + k = n + 1
        BY <2>2
      <3>2. (before \o after)[n] = after[n - (k - 1)]
        BY <1>2, <1>3, <1>4, <2>2
      <3> QED
        BY <1>3, <2>2, <3>1, <3>2
    <2> QED
      BY <2>1, <2>2
  <1> QED
    BY <1>1, <1>2, <1>3, <1>4, <1>5

\* Pruning drops a revoked entry of a full list, and shifts those behind it.
LEMMA PruningDropsOne ==
    ASSUME NEW s \in Seq(Entries)
    PROVE  /\ Pruned(s) \in Seq(Entries)
           /\ \/ /\ Pruned(s) = s
                 /\ \/ Len(s) < TeamMax
                    \/ \A n \in DOMAIN s : s[n].status # "revoked"
              \/ \E k \in DOMAIN s :
                    /\ Len(s) >= TeamMax
                    /\ s[k].status = "revoked"
                    /\ Len(Pruned(s)) = Len(s) - 1
                    /\ \A n \in DOMAIN Pruned(s) :
                          Pruned(s)[n] = IF n < k THEN s[n] ELSE s[n + 1]
  <1> DEFINE I == {i \in 1..Len(s) : s[i].status = "revoked"}
             first == SelectInSeq(s, LAMBDA entry : entry.status = "revoked")
  <1>1. first = IF I # {} THEN Min(I) ELSE 0
    BY DEF SelectInSeq
  <1>2. Pruned(s) = IF Len(s) < TeamMax \/ first = 0 THEN s ELSE RemoveAt(s, first)
    BY DEF Pruned
  <1>3. CASE Len(s) < TeamMax \/ I = {}
    BY <1>1, <1>2, <1>3
  <1>4. CASE ~(Len(s) < TeamMax) /\ I # {}
    <2>1. first \in I
      <3>1. I \in SUBSET Nat /\ first = Min(I)
        BY <1>1, <1>4
      <3> HIDE DEF I, first
      <3> QED
        BY <1>4, <3>1, MinIsLeast
    <2>2. PICK k \in 1..Len(s) : first = k /\ s[k].status = "revoked"
      BY <2>1
    <2>3. Pruned(s) = RemoveAt(s, k)
      <3>1. first # 0 /\ first = k
        BY <2>2
      <3> HIDE DEF I, first
      <3> QED
        BY <1>2, <1>4, <3>1
    <2>6. /\ Pruned(s) \in Seq(Entries)
          /\ Len(Pruned(s)) = Len(s) - 1
          /\ \A n \in 1..(Len(s) - 1) :
                Pruned(s)[n] = IF n < k THEN s[n] ELSE s[n + 1]
      BY <2>3, RemoveAtProperties
    <2>7. DOMAIN Pruned(s) = 1..(Len(s) - 1) /\ k \in DOMAIN s /\ Len(s) >= TeamMax
      BY <1>4, <2>2, <2>6, PolicyAssumption
    <2> HIDE DEF I, first
    <2> QED
      BY <2>2, <2>6, <2>7
  <1> QED
    BY <1>3, <1>4

-----------------------------------------------------------------------------
(***************************************************************************)
(* What each write does to the view                                        *)
(***************************************************************************)

SeatSets == SUBSET [person: People, order: Orders]
Lists == Seq(Entries)
Rotations == (SUBSET Assignments) \union {NoRotation}

LEMMA FieldsOfViews ==
    Views = [expedition_status: Stages, participants: SeatSets, invitations: Lists,
             rotation: Rotations, version: Nat]
  BY DEF Views, Stages, SeatSets, Lists, Rotations, Entries, Outcomes

LEMMA ViewUpdates ==
    ASSUME NEW v \in Views, NEW n \in Nat
    PROVE  /\ \A s \in Stages :
                 [v EXCEPT !.expedition_status = s, !.version = n] \in Views
           /\ \A s \in Stages, R \in Rotations :
                 [v EXCEPT !.expedition_status = s, !.rotation = R,
                           !.version = n] \in Views
           /\ \A L \in Lists : [v EXCEPT !.invitations = L, !.version = n] \in Views
           /\ \A L \in Lists, P \in SeatSets :
                 [v EXCEPT !.invitations = L, !.participants = P,
                           !.version = n] \in Views
  BY FieldsOfViews

LEMMA ViewNowType ==
    ASSUME Types
    PROVE  /\ ViewNow \in KnownViews
           /\ ViewNow.invitations \in Seq(Entries)
           /\ ViewNow.participants \subseteq [person: People, order: Orders]
           /\ ViewNow.rotation \in (SUBSET Assignments) \union {NoRotation}
           /\ view # NoView => ViewNow = view /\ view \in KnownViews
  <1>1. InitialView \in KnownViews
    <2>1. InitialView \in Views
      <3>1. {} \in SeatSets /\ NoRotation \in Rotations /\ "draft" \in Stages
        BY DEF SeatSets, Rotations, Stages
      <3>2. <<>> \in Lists
        BY DEF Lists
      <3> QED
        BY <3>1, <3>2, FieldsOfViews DEF InitialView
    <2>2. Len(InitialView.invitations) = 0
      BY DEF InitialView
    <2> QED
      BY <2>1, <2>2, PolicyAssumption DEF KnownViews
  <1>2. ViewNow \in KnownViews
    BY <1>1 DEF ViewNow, Types
  <1> QED
    BY <1>2 DEF ViewNow, KnownViews, Views, Types, Entries, Outcomes

LEMMA EntryTypes ==
    ASSUME NEW v \in Views, NEW n \in DOMAIN v.invitations
    PROVE  /\ v.invitations[n] \in Entries
           /\ v.invitations[n].id \in InvitationIds
           /\ v.invitations[n].status \in Outcomes
           /\ n \in 1..Len(v.invitations) /\ Len(v.invitations) \in Nat
  <1> DEFINE s == v.invitations
  <1>1. s \in Seq(Entries)
    BY FieldsOfViews DEF Lists
  <1> HIDE DEF s
  <1>2. n \in 1..Len(s) => s[n] \in Entries
    BY <1>1, ElementOfSeq
  <1>3. n \in 1..Len(s) /\ Len(s) \in Nat
    BY <1>1, LenProperties DEF s
  <1>4. s[n] \in Entries
    BY <1>2, <1>3
  <1> QED
    BY <1>3, <1>4 DEF Entries, s

LEMMA InvitesView ==
    ASSUME Types, SetupViewCurrent, NEW p, Invites(p)
    PROVE  /\ view' \in KnownViews
           /\ view'.expedition_status = "draft" /\ view'.version = version + 1
           /\ view'.participants = ViewNow.participants
           /\ view'.rotation = ViewNow.rotation
           /\ view'.invitations = Append(Pruned(ViewNow.invitations),
                                         [id |-> Len(invitations) + 1, status |-> "pending"])
  <1> DEFINE v == ViewNow
             entry == [id |-> Len(invitations) + 1, status |-> "pending"]
  <1>1. view' = [v EXCEPT !.invitations = Append(Pruned(@), entry),
                          !.version = version + 1]
    BY DEF Invites, Invited, CurrentContext, ViewNow
  <1>2. v \in KnownViews /\ v.invitations \in Seq(Entries)
    BY ViewNowType
  <1>3. v.expedition_status = "draft"
    BY DEF Invites, InviteAllowed, SetupContext, CurrentContext, ViewNow, InitialView
  <1>4. Pruned(v.invitations) \in Seq(Entries) /\ Len(Pruned(v.invitations)) < TeamMax
    BY <1>2, PruningDropsOne DEF Invites, InviteAllowed, CurrentContext, ViewNow
  <1>5. entry \in Entries
    BY DEF Invites, Entries, Outcomes
  <1>6. /\ Append(Pruned(v.invitations), entry) \in Seq(Entries)
        /\ Len(Append(Pruned(v.invitations), entry)) <= TeamMax
    BY <1>4, <1>5, PolicyAssumption
  <1>7. version + 1 \in Nat
    BY DEF Types
  <1> DEFINE list == Append(Pruned(v.invitations), entry)
  <1> HIDE DEF v, entry, list
  <1>8. view' = [v EXCEPT !.invitations = list, !.version = version + 1]
    BY <1>1 DEF list
  <1>9. v \in Views /\ list \in Lists /\ Len(list) <= TeamMax
    BY <1>2, <1>6 DEF KnownViews, Lists, list
  <1>10. view' \in Views
    BY <1>7, <1>8, <1>9, ViewUpdates
  <1>11. /\ view'.invitations = list /\ view'.version = version + 1
         /\ view'.participants = v.participants /\ view'.rotation = v.rotation
         /\ view'.expedition_status = "draft"
    BY <1>3, <1>8, <1>9, FieldsOfViews
  <1> QED
    BY <1>9, <1>10, <1>11 DEF KnownViews, v, entry, list

LEMMA AcceptsView ==
    ASSUME Types, NEW id, NEW person \in People, NEW order \in Orders,
           Accepts(id, person, order)
    PROVE  LET k == EntryOf(view, id)
           IN  /\ view # NoView /\ view \in KnownViews
               /\ k \in DOMAIN view.invitations
               /\ view.invitations[k].id = id /\ view.invitations[k].status = "pending"
               /\ view' \in KnownViews
               /\ view'.expedition_status = "draft" /\ view'.version = version + 1
               /\ view'.participants
                     = view.participants \union {[person |-> person, order |-> order]}
               /\ view'.rotation = view.rotation
               /\ view'.invitations
                     = [view.invitations EXCEPT ![k] = [id |-> id, status |-> "accepted"]]
  <1> DEFINE k == EntryOf(view, id)
             seat == [person |-> person, order |-> order]
  <1>1. /\ view # NoView
        /\ view.expedition_status = "draft"
        /\ PendingEntry(view, id)
    BY DEF Accepts, AcceptAllowed, SetupContext, CurrentContext
  <1>2. view \in KnownViews /\ view \in Views /\ view.invitations \in Seq(Entries)
    BY <1>1 DEF Types, KnownViews, Views, Entries, Outcomes
  <1>3. /\ k \in DOMAIN view.invitations
        /\ view.invitations[k].id = id /\ view.invitations[k].status = "pending"
    BY <1>1, <1>2, EntryFound DEF PendingEntry
  <1>4. view' = [view EXCEPT !.invitations[k].status = "accepted",
                             !.participants = @ \union {seat},
                             !.version = version + 1]
    BY DEF Accepts, Accepted, CurrentContext
  <1>5. version \in Nat /\ seat \in [person: People, order: Orders]
    BY DEF Types
  <1>6. view.invitations[k] \in Entries
    BY <1>2, <1>3, ElementOfSeq
  <1> HIDE DEF k, seat
  <1>7. [view.invitations[k] EXCEPT !.status = "accepted"] = [id |-> id, status |-> "accepted"]
    BY <1>3, <1>6 DEF Entries
  <1>8. /\ view'.invitations
              = [view.invitations EXCEPT ![k] = [id |-> id, status |-> "accepted"]]
        /\ view'.participants = view.participants \union {seat}
        /\ view'.version = version + 1
        /\ view'.rotation = view.rotation
        /\ view'.expedition_status = "draft"
    BY <1>1, <1>2, <1>4, <1>7 DEF Views, KnownViews
  <1>9. /\ view'.invitations \in Seq(Entries)
        /\ Len(view'.invitations) = Len(view.invitations)
    <2>1. [id |-> id, status |-> "accepted"] \in Entries
      BY <1>3, <1>6 DEF Entries, Outcomes
    <2> QED
      BY <1>2, <1>3, <1>8, <2>1
  <1>10. view' \in KnownViews
    <2> DEFINE list == [view.invitations EXCEPT ![k] = [id |-> id, status |-> "accepted"]]
               seats == view.participants \union {seat}
    <2>1. view' = [view EXCEPT !.invitations = list, !.participants = seats,
                               !.version = version + 1]
      BY <1>2, <1>4, <1>7, FieldsOfViews
    <2>2. list \in Lists /\ seats \in SeatSets /\ version + 1 \in Nat
      BY <1>2, <1>5, <1>8, <1>9, FieldsOfViews DEF Lists, SeatSets
    <2> HIDE DEF list, seats
    <2>3. view' \in Views
      BY <1>2, <2>1, <2>2, ViewUpdates
    <2> QED
      BY <1>2, <1>9, <2>3 DEF KnownViews
  <1> QED
    BY <1>1, <1>2, <1>3, <1>8, <1>10 DEF k, seat

LEMMA RevokesView ==
    ASSUME Types, NEW id, Revokes(id)
    PROVE  LET k == EntryOf(view, id)
           IN  /\ view # NoView /\ view \in KnownViews
               /\ k \in DOMAIN view.invitations
               /\ view.invitations[k].id = id /\ view.invitations[k].status = "pending"
               /\ view' \in KnownViews
               /\ view'.expedition_status = "draft" /\ view'.version = version + 1
               /\ view'.participants = view.participants
               /\ view'.rotation = view.rotation
               /\ view'.invitations
                     = [view.invitations EXCEPT ![k] = [id |-> id, status |-> "revoked"]]
  <1> DEFINE k == EntryOf(view, id)
  <1>1. /\ view # NoView
        /\ view.expedition_status = "draft"
        /\ PendingEntry(view, id)
    BY DEF Revokes, RevokeAllowed, SetupContext, CurrentContext
  <1>2. view \in KnownViews /\ view \in Views /\ view.invitations \in Seq(Entries)
    BY <1>1 DEF Types, KnownViews, Views, Entries, Outcomes
  <1>3. /\ k \in DOMAIN view.invitations
        /\ view.invitations[k].id = id /\ view.invitations[k].status = "pending"
    BY <1>1, <1>2, EntryFound DEF PendingEntry
  <1>4. view' = [view EXCEPT !.invitations[k].status = "revoked",
                             !.version = version + 1]
    BY DEF Revokes, Revoked, CurrentContext
  <1>5. version \in Nat
    BY DEF Types
  <1>6. view.invitations[k] \in Entries
    BY <1>2, <1>3, ElementOfSeq
  <1> HIDE DEF k
  <1>7. [view.invitations[k] EXCEPT !.status = "revoked"] = [id |-> id, status |-> "revoked"]
    BY <1>3, <1>6 DEF Entries
  <1>8. /\ view'.invitations
              = [view.invitations EXCEPT ![k] = [id |-> id, status |-> "revoked"]]
        /\ view'.participants = view.participants
        /\ view'.version = version + 1
        /\ view'.rotation = view.rotation
        /\ view'.expedition_status = "draft"
    BY <1>1, <1>2, <1>4, <1>7 DEF Views, KnownViews
  <1>9. /\ view'.invitations \in Seq(Entries)
        /\ Len(view'.invitations) = Len(view.invitations)
    <2>1. [id |-> id, status |-> "revoked"] \in Entries
      BY <1>3, <1>6 DEF Entries, Outcomes
    <2> QED
      BY <1>2, <1>3, <1>8, <2>1
  <1>10. view' \in KnownViews
    <2> DEFINE list == [view.invitations EXCEPT ![k] = [id |-> id, status |-> "revoked"]]
    <2>1. view' = [view EXCEPT !.invitations = list, !.version = version + 1]
      BY <1>2, <1>4, <1>7, FieldsOfViews
    <2>2. list \in Lists /\ version + 1 \in Nat
      BY <1>2, <1>5, <1>8, <1>9 DEF Lists
    <2> HIDE DEF list
    <2>3. view' \in Views
      BY <1>2, <2>1, <2>2, ViewUpdates
    <2> QED
      BY <1>2, <1>9, <2>3 DEF KnownViews
  <1> QED
    BY <1>1, <1>2, <1>3, <1>8, <1>10 DEF k

\* A role of the cycle for every order.
LEMMA OnboardRoleType ==
    ASSUME NEW order \in Orders
    PROVE  /\ OnboardRole(order) \in ToSet(OnboardRoleCycle)
           /\ OnboardRole(order) = OnboardRoleCycle[order]
  <1>1. /\ order - 1 \in Nat /\ order - 1 < Len(OnboardRoleCycle)
        /\ Len(OnboardRoleCycle) \in Nat
    BY PolicyAssumption DEF Orders
  <1>2. (order - 1) % Len(OnboardRoleCycle) = order - 1
    BY <1>1
  <1>3. OnboardRole(order) = OnboardRoleCycle[order]
    BY <1>2 DEF OnboardRole, Orders
  <1>4. order \in DOMAIN OnboardRoleCycle
    BY <1>1, PolicyAssumption DEF Orders
  <1> QED
    BY <1>3, <1>4 DEF ToSet

LEMMA RotationPlanType ==
    ASSUME NEW v, v.participants \subseteq [person: People, order: Orders]
    PROVE  RotationPlan(v) \in SUBSET Assignments
  BY OnboardRoleType DEF RotationPlan, Assignments

LEMMA RotatesView ==
    ASSUME Types, NEW plan, Rotates(plan)
    PROVE  /\ view # NoView /\ view \in KnownViews
           /\ plan \in SUBSET Assignments
           /\ view' \in KnownViews
           /\ view'.expedition_status = "ready" /\ view'.version = version + 1
           /\ view'.participants = view.participants
           /\ view'.invitations = view.invitations
           /\ view'.rotation = plan
  <1>1. view # NoView /\ view' = [view EXCEPT !.expedition_status = "ready",
                                             !.rotation = plan,
                                             !.version = version + 1]
    BY DEF Rotates, GenerateAllowed, SetupContext, CurrentContext, Ready
  <1>2. view \in KnownViews /\ version \in Nat /\ version + 1 \in Nat
    BY <1>1 DEF Types
  <1>3. plan \in SUBSET Assignments
    BY <1>2, RotationPlanType DEF Rotates, KnownViews, Views
  <1>4. view \in Views /\ plan \in Rotations /\ "ready" \in Stages
    BY <1>2, <1>3 DEF KnownViews, Rotations, Stages
  <1>5. view' \in Views
    BY <1>1, <1>2, <1>4, ViewUpdates
  <1>6. /\ view'.expedition_status = "ready" /\ view'.version = version + 1
        /\ view'.participants = view.participants
        /\ view'.invitations = view.invitations
        /\ view'.rotation = plan
    BY <1>1, <1>4, FieldsOfViews
  <1> QED
    BY <1>1, <1>2, <1>3, <1>5, <1>6 DEF KnownViews

LEMMA StartsView ==
    ASSUME Types, Starts
    PROVE  /\ view # NoView /\ view \in KnownViews
           /\ view' \in KnownViews
           /\ view'.expedition_status = "active" /\ view'.version = version + 1
           /\ view'.participants = view.participants
           /\ view'.invitations = view.invitations
           /\ view'.rotation = view.rotation
  <1>1. view # NoView /\ view' = [view EXCEPT !.expedition_status = "active",
                                             !.version = version + 1]
    BY DEF Starts, StartAllowed, SetupContext, CurrentContext, Started
  <1>2. view \in KnownViews /\ version \in Nat /\ version + 1 \in Nat
    BY <1>1 DEF Types
  <1>3. view \in Views /\ "active" \in Stages
    BY <1>2 DEF KnownViews, Stages
  <1>4. view' \in Views
    BY <1>1, <1>2, <1>3, ViewUpdates
  <1>5. /\ view'.expedition_status = "active" /\ view'.version = version + 1
        /\ view'.participants = view.participants
        /\ view'.invitations = view.invitations
        /\ view'.rotation = view.rotation
    BY <1>1, <1>3, FieldsOfViews
  <1> QED
    BY <1>1, <1>2, <1>4, <1>5 DEF KnownViews

-----------------------------------------------------------------------------
(***************************************************************************)
(* Every step of the store is one of the writes, a lapse or a ban          *)
(***************************************************************************)

LEMMA FlightParts ==
    ASSUME Types, NEW w \in Workers, flight[w].phase # "idle"
    PROVE  /\ flight[w].phase \in {"loaded", "matched"}
           /\ flight[w].command \in Commands
           /\ flight[w].context \in Contexts
           /\ flight[w].order \in Orders \union {0}
           /\ flight[w] \in [phase: {"loaded", "matched"}, command: Commands,
                             context: Contexts, order: Orders \union {0}]
  BY DEF Types, Flights, Idle

LEMMA CurrentContextType ==
    ASSUME Types
    PROVE  CurrentContext \in Contexts
  <1>1. Len(events) \in Nat
    BY DEF Types
  <1> QED
    BY <1>1 DEF Types, CurrentContext, Contexts

LEMMA RowTypes ==
    ASSUME Types, NEW i \in DOMAIN invitations
    PROVE  /\ invitations[i] \in Rows
           /\ invitations[i].person \in People /\ invitations[i].status \in Outcomes
           /\ i \in 1..Len(invitations) /\ Len(invitations) \in Nat
  <1>1. /\ i \in 1..Len(invitations) /\ Len(invitations) \in Nat
        /\ invitations[i] \in Rows
    BY ElementOfSeq DEF Types
  <1> QED
    BY <1>1 DEF Rows

\* process_command goes through only with the current context.
LEMMA OnlyCurrentContext ==
    ASSUME Base, NEW w \in Workers, flight[w].phase # "idle",
           NEW appended, NEW newView, ProcessCommand(flight[w].context, appended, newView)
    PROVE  /\ flight[w].context = CurrentContext
           /\ events' = events \o appended
           /\ view' = newView
           /\ version' = version + 1
  BY DEF Base, Informed, ProcessCommand

LEMMA InviteIsWrite ==
    ASSUME Base, NEW w \in Workers, InviteParticipant(w)
    PROVE  \E p \in People : Invites(p)
  <1> DEFINE f == flight[w]
  <1>1. f.phase = "loaded" /\ f.command.kind = "invite" /\ f.command \in Commands
    BY FlightParts DEF InviteParticipant, Base
  <1>2. f.command.person \in People
    BY <1>1 DEF Commands
  <1>3. f.context = CurrentContext
    BY <1>1, OnlyCurrentContext DEF InviteParticipant
  <1>4. Len(invitations) + 1 \in InvitationIds
    BY PolicyAssumption DEF InviteParticipant, InvitationIds, Base, Types
  <1> QED
    BY <1>2, <1>3, <1>4 DEF InviteParticipant, Invites, ProcessCommand

LEMMA AcceptIsWrite ==
    ASSUME Base, NEW w \in Workers, AcceptInvitation(w)
    PROVE  \E id \in DOMAIN invitations, person \in People, order \in Orders :
              Accepts(id, person, order)
  <1> DEFINE f == flight[w]
             id == f.command.invitation
  <1>1. f.phase = "matched" /\ f.context = CurrentContext
    BY OnlyCurrentContext DEF AcceptInvitation
  <1>2. id \in DOMAIN invitations
    <2>1. Informed(f)
      BY DEF Base
    <2> QED
      BY <1>1, <2>1 DEF Informed
  <1>3. invitations[id].person \in People
    <2>1. \A i \in DOMAIN invitations : invitations[i].person \in People
      BY RowTypes DEF Base
    <2> QED
      BY <1>2, <2>1
  <1>4. f.order \in Orders
    BY LowestIsFree DEF AcceptInvitation, MayAccept, FreeOrders
  <1> QED
    BY <1>1, <1>2, <1>3, <1>4 DEF AcceptInvitation, Accepts, ProcessCommand

LEMMA RevokeIsWrite ==
    ASSUME Base, NEW w \in Workers, RevokeInvitation(w)
    PROVE  \E id \in DOMAIN invitations : Revokes(id)
  <1>1. /\ flight[w].context = CurrentContext
        /\ flight[w].phase # "idle" /\ flight[w].command.kind = "revoke"
    BY OnlyCurrentContext DEF RevokeInvitation
  <1>2. flight[w].command.invitation \in DOMAIN invitations
    BY <1>1 DEF Base, Informed
  <1> QED
    BY <1>1, <1>2 DEF RevokeInvitation, Revokes, ProcessCommand

LEMMA GenerateIsWrite ==
    ASSUME Base, NEW w \in Workers, GenerateRotation(w)
    PROVE  \E plan \in SUBSET Assignments : Rotates(plan)
  <1>1. flight[w].context = CurrentContext
    BY OnlyCurrentContext DEF GenerateRotation
  <1>2. Rotates(RotationPlan(view))
    BY <1>1 DEF GenerateRotation, Rotates, ProcessCommand, CurrentContext
  <1>3. RotationPlan(view) \in SUBSET Assignments
    BY <1>2, RotatesView DEF Base
  <1> QED
    BY <1>2, <1>3

LEMMA StartIsWrite ==
    ASSUME Base, NEW w \in Workers, StartExpedition(w)
    PROVE  Starts
  <1>1. flight[w].context = CurrentContext
    BY OnlyCurrentContext DEF StartExpedition
  <1>2. Started(CurrentContext).rotation = view.rotation
    <2>1. view # NoView
      BY <1>1 DEF StartExpedition, MayStart
    <2> QED
      BY <2>1, FieldsOfViews DEF Base, Types, KnownViews, Started, CurrentContext
  <1> QED
    BY <1>1, <1>2 DEF StartExpedition, Starts, ProcessCommand

LEMMA WriteIsWrites ==
    ASSUME Base, NEW w \in Workers, Write(w)
    PROVE  Writes
  BY InviteIsWrite, AcceptIsWrite, RevokeIsWrite, GenerateIsWrite, StartIsWrite
     DEF Write, Writes

LEMMA StepOfStore ==
    ASSUME Base, [Next]_vars
    PROVE  StoreStep
  BY WriteIsWrites
     DEF Next, StoreStep, vars, LoadContext, ReadCandidate, Abort

-----------------------------------------------------------------------------
(***************************************************************************)
(* Type correctness, and the view that is never behind                     *)
(***************************************************************************)

\* What appending one event or two does to the log.
LEMMA AppendOne ==
    ASSUME events \in Seq(Happenings), NEW e \in Happenings, events' = events \o <<e>>
    PROVE  /\ events' \in Seq(Happenings)
           /\ Len(events) \in Nat /\ Len(events') = Len(events) + 1
           /\ \A n \in DOMAIN events : n \in DOMAIN events' /\ events'[n] = events[n]
           /\ DOMAIN events' = (DOMAIN events) \union {Len(events) + 1}
           /\ events'[Len(events) + 1] = e
  OBVIOUS

LEMMA AppendTwo ==
    ASSUME events \in Seq(Happenings), NEW e \in Happenings, NEW f \in Happenings,
           events' = events \o <<e, f>>
    PROVE  /\ events' \in Seq(Happenings)
           /\ Len(events) \in Nat /\ Len(events') = Len(events) + 2
           /\ \A n \in DOMAIN events : n \in DOMAIN events' /\ events'[n] = events[n]
           /\ DOMAIN events' = (DOMAIN events) \union {Len(events) + 1, Len(events) + 2}
           /\ events'[Len(events) + 1] = e
           /\ events'[Len(events) + 2] = f
  OBVIOUS

LEMMA InvitesTypes ==
    ASSUME Base, NEW p \in People, Invites(p)
    PROVE  /\ invitations' \in Seq(Rows)
           /\ Len(invitations') = Len(invitations) + 1
           /\ DOMAIN invitations' = (DOMAIN invitations) \union {Len(invitations) + 1}
           /\ \A i \in DOMAIN invitations : invitations'[i] = invitations[i]
           /\ invitations'[Len(invitations) + 1]
                 = [person |-> p, lapsed |-> FALSE, status |-> "pending"]
           /\ [type |-> "invitation.created", invitation |-> Len(invitations) + 1]
                 \in Happenings
           /\ status = "draft" /\ status' = "draft"
  <1>1. [person |-> p, lapsed |-> FALSE, status |-> "pending"] \in Rows
    BY DEF Rows, Outcomes
  <1>2. invitations \in Seq(Rows)
    BY DEF Base, Types
  <1>3. [type |-> "invitation.created", invitation |-> Len(invitations) + 1] \in Happenings
    BY DEF Invites, Happenings
  <1> QED
    BY <1>1, <1>2, <1>3, AppendProperties DEF Invites, MayInvite

LEMMA ResolveTypes ==
    ASSUME Base, NEW id \in DOMAIN invitations, NEW outcome \in Outcomes,
           Resolve(id, outcome)
    PROVE  /\ invitations' \in Seq(Rows)
           /\ DOMAIN invitations' = DOMAIN invitations
           /\ \A i \in DOMAIN invitations :
                 /\ invitations'[i].person = invitations[i].person
                 /\ invitations'[i].status = IF i = id THEN outcome
                                                       ELSE invitations[i].status
  <1>1. invitations[id] \in Rows /\ invitations \in Seq(Rows)
    BY RowTypes DEF Base, Types
  <1>2. [invitations[id] EXCEPT !.status = outcome] \in Rows
    BY <1>1 DEF Rows
  <1>3. invitations' = [invitations EXCEPT ![id] = [invitations[id] EXCEPT !.status = outcome]]
    BY DEF Resolve
  <1>4. invitations' \in Seq(Rows) /\ DOMAIN invitations' = DOMAIN invitations
    BY <1>1, <1>2, <1>3, ExceptSeq
  <1>5. ASSUME NEW i \in DOMAIN invitations
        PROVE  /\ invitations'[i].person = invitations[i].person
               /\ invitations'[i].status = IF i = id THEN outcome ELSE invitations[i].status
    BY <1>1, <1>3 DEF Rows
  <1> QED
    BY <1>4, <1>5

LEMMA AcceptsTypes ==
    ASSUME Base, NEW id \in DOMAIN invitations, NEW person \in People,
           NEW order \in Orders, Accepts(id, person, order)
    PROVE  /\ participants' \in [People -> Seats \union {NoRow}]
           /\ participants' = [participants EXCEPT ![person] =
                                  [order |-> order, status |-> "active"]]
           /\ invitations[id].status = "pending" /\ participants[person] = NoRow
           /\ order \in FreeOrders
           /\ [type |-> "invitation.accepted", invitation |-> id, person |-> person]
                 \in Happenings
           /\ [type |-> "participant.added", person |-> person, order |-> order]
                 \in Happenings
           /\ status = "draft" /\ status' = "draft"
  <1>1. [order |-> order, status |-> "active"] \in Seats
    BY DEF Seats
  <1>2. id \in InvitationIds
    <2>1. /\ view.invitations[EntryOf(view, id)].id = id /\ view \in Views
          /\ EntryOf(view, id) \in DOMAIN view.invitations
      BY AcceptsView DEF Base, KnownViews
    <2> QED
      BY <2>1, EntryTypes
  <1>3. /\ [type |-> "invitation.accepted", invitation |-> id, person |-> person]
              \in Happenings
        /\ [type |-> "participant.added", person |-> person, order |-> order]
              \in Happenings
    BY <1>2 DEF Happenings
  <1>4. participants \in [People -> Seats \union {NoRow}]
    BY DEF Base, Types
  <1>5. order \in FreeOrders
    BY LowestIsFree DEF Accepts, MayAccept
  <1> QED
    BY <1>1, <1>3, <1>4, <1>5 DEF Accepts, MayAccept, IsOpen

LEMMA RevokesTypes ==
    ASSUME Base, NEW id \in DOMAIN invitations, Revokes(id)
    PROVE  /\ [type |-> "invitation.revoked", invitation |-> id] \in Happenings
           /\ invitations[id].status = "pending"
           /\ status = "draft" /\ status' = "draft"
  <1>1. id \in InvitationIds
    <2>1. /\ view.invitations[EntryOf(view, id)].id = id /\ view \in Views
          /\ EntryOf(view, id) \in DOMAIN view.invitations
      BY RevokesView DEF Base, KnownViews
    <2> QED
      BY <2>1, EntryTypes
  <1> QED
    BY <1>1 DEF Happenings, Revokes, MayRevoke, IsOpen

LEMMA RotatesTypes ==
    ASSUME Base, NEW plan \in SUBSET Assignments, Rotates(plan)
    PROVE  /\ [type |-> "rotation.generated", plan |-> plan] \in Happenings
           /\ [type |-> "expedition.ready"] \in Happenings
           /\ status = "draft" /\ status' = "ready"
  BY DEF Happenings, Rotates, MayRotate

LEMMA StartsTypes ==
    ASSUME Starts
    PROVE  /\ [type |-> "expedition.started"] \in Happenings
           /\ [type |-> "stage.opened", stage |-> "onboarding"] \in Happenings
           /\ status = "ready" /\ status' = "active"
  BY DEF Happenings, Starts, MayStart

\* A lapse or a ban touches one row, and neither status, log nor view.
LEMMA LapseTypes ==
    ASSUME Base, NEW i \in DOMAIN invitations, Lapse(i)
    PROVE  /\ invitations' \in Seq(Rows)
           /\ DOMAIN invitations' = DOMAIN invitations
           /\ \A j \in DOMAIN invitations :
                 /\ invitations'[j].person = invitations[j].person
                 /\ invitations'[j].status = invitations[j].status
  <1>1. invitations[i] \in Rows /\ invitations \in Seq(Rows)
    BY RowTypes DEF Base, Types
  <1>2. [invitations[i] EXCEPT !.lapsed = TRUE] \in Rows
    BY <1>1 DEF Rows
  <1>3. invitations' = [invitations EXCEPT ![i] = [invitations[i] EXCEPT !.lapsed = TRUE]]
    BY DEF Lapse
  <1>4. invitations' \in Seq(Rows) /\ DOMAIN invitations' = DOMAIN invitations
    BY <1>1, <1>2, <1>3, ExceptSeq
  <1>5. ASSUME NEW j \in DOMAIN invitations
        PROVE  /\ invitations'[j].person = invitations[j].person
               /\ invitations'[j].status = invitations[j].status
    BY <1>1, <1>3 DEF Rows
  <1> QED
    BY <1>4, <1>5

LEMMA BanTypes ==
    ASSUME Base, NEW p \in People, Ban(p)
    PROVE  /\ participants' \in [People -> Seats \union {NoRow}]
           /\ participants[p] # NoRow
           /\ \A q \in People :
                 /\ participants'[q] = NoRow <=> participants[q] = NoRow
                 /\ participants[q] # NoRow =>
                       participants'[q].order = participants[q].order
           /\ ActivePeople' = ActivePeople \ {p}
  <1>1. participants \in [People -> Seats \union {NoRow}]
    BY DEF Base, Types
  <1>2. participants[p] \in Seats /\ participants[p] # NoRow
    BY <1>1 DEF Ban, ActivePeople
  <1>3. participants' = [participants EXCEPT ![p] =
                           [participants[p] EXCEPT !.status = "banned"]]
    BY DEF Ban
  <1>4. /\ [participants[p] EXCEPT !.status = "banned"] \in Seats
        /\ [participants[p] EXCEPT !.status = "banned"].order = participants[p].order
        /\ [participants[p] EXCEPT !.status = "banned"].status = "banned"
    BY <1>2 DEF Seats
  <1>5. participants'[p] \in Seats /\ participants'[p].order = participants[p].order
        /\ participants'[p].status = "banned"
        /\ \A q \in People \ {p} : participants'[q] = participants[q]
    BY <1>1, <1>3, <1>4
  <1>6. NoRow \notin Seats
    BY NullAssumption DEF Seats
  <1>7. participants' \in [People -> Seats \union {NoRow}]
    BY <1>1, <1>3, <1>4
  <1>8. ASSUME NEW q \in People
        PROVE  /\ participants'[q] = NoRow <=> participants[q] = NoRow
               /\ participants[q] # NoRow => participants'[q].order = participants[q].order
               /\ q \in ActivePeople' <=> q \in ActivePeople \ {p}
    BY <1>2, <1>5, <1>6, <1>8 DEF ActivePeople
  <1>9. ActivePeople' \subseteq People /\ ActivePeople \subseteq People
    BY DEF ActivePeople
  <1> QED
    BY <1>2, <1>7, <1>8, <1>9

\* Whatever the store does, it stays well typed, the view keeps up, and status,
\* version and view change only when the log grows.
StoreKept ==
    /\ status' \in Stages
    /\ invitations' \in Seq(Rows)
    /\ participants' \in [People -> Seats \union {NoRow}]
    /\ events' \in Seq(Happenings)
    /\ version' \in Nat
    /\ view' \in KnownViews \union {NoView}
    /\ SetupViewCurrent'
    /\ DOMAIN invitations \subseteq DOMAIN invitations'
    /\ Len(events) \in Nat /\ Len(events') \in Nat
    /\ \/ UNCHANGED <<status, events, version, view>>
       \/ Len(events') > Len(events)

LEMMA InvitesKeeps ==
    ASSUME Base, NEW p \in People, Invites(p)
    PROVE  StoreKept
  <1>1. /\ view' \in KnownViews
        /\ view'.expedition_status = "draft" /\ view'.version = version + 1
    BY InvitesView DEF Base
  <1>2. /\ events' \in Seq(Happenings)
        /\ Len(events) \in Nat /\ Len(events') = Len(events) + 1
    BY InvitesTypes, AppendOne DEF Base, Types, Invites
  <1>3. view' # NoView
    BY <1>1, NullAssumption DEF KnownViews
  <1>4. /\ participants' \in [People -> Seats \union {NoRow}]
        /\ version' = version + 1 /\ version \in Nat
    BY DEF Invites, Base, Types
  <1>5. /\ invitations' \in Seq(Rows) /\ status' = "draft"
        /\ DOMAIN invitations \subseteq DOMAIN invitations'
    BY InvitesTypes
  <1> QED
    BY <1>1, <1>2, <1>3, <1>4, <1>5 DEF StoreKept, Stages, SetupViewCurrent

LEMMA AcceptsKeeps ==
    ASSUME Base, NEW id \in DOMAIN invitations, NEW person \in People,
           NEW order \in Orders, Accepts(id, person, order)
    PROVE  StoreKept
  <1>1. /\ view' \in KnownViews
        /\ view'.expedition_status = "draft" /\ view'.version = version + 1
    BY AcceptsView DEF Base
  <1>2. /\ events' \in Seq(Happenings)
        /\ Len(events) \in Nat /\ Len(events') = Len(events) + 2
    BY AcceptsTypes, AppendTwo DEF Base, Types, Accepts
  <1>3. invitations' \in Seq(Rows) /\ DOMAIN invitations' = DOMAIN invitations
    BY ResolveTypes DEF Accepts, Outcomes
  <1>4. view' # NoView
    BY <1>1, NullAssumption DEF KnownViews
  <1>5. /\ participants' \in [People -> Seats \union {NoRow}]
        /\ status' = "draft" /\ version' = version + 1 /\ version \in Nat
    BY AcceptsTypes DEF Accepts, Base, Types
  <1> QED
    BY <1>1, <1>2, <1>3, <1>4, <1>5 DEF StoreKept, Stages, SetupViewCurrent

LEMMA RevokesKeeps ==
    ASSUME Base, NEW id \in DOMAIN invitations, Revokes(id)
    PROVE  StoreKept
  <1>1. /\ view' \in KnownViews
        /\ view'.expedition_status = "draft" /\ view'.version = version + 1
    BY RevokesView DEF Base
  <1>2. /\ events' \in Seq(Happenings)
        /\ Len(events) \in Nat /\ Len(events') = Len(events) + 1
    BY RevokesTypes, AppendOne DEF Base, Types, Revokes
  <1>3. invitations' \in Seq(Rows) /\ DOMAIN invitations' = DOMAIN invitations
    BY ResolveTypes DEF Revokes, Outcomes
  <1>4. view' # NoView
    BY <1>1, NullAssumption DEF KnownViews
  <1>5. /\ participants' \in [People -> Seats \union {NoRow}]
        /\ status' = "draft" /\ version' = version + 1 /\ version \in Nat
    BY RevokesTypes DEF Revokes, Base, Types
  <1> QED
    BY <1>1, <1>2, <1>3, <1>4, <1>5 DEF StoreKept, Stages, SetupViewCurrent

LEMMA RotatesKeeps ==
    ASSUME Base, NEW plan \in SUBSET Assignments, Rotates(plan)
    PROVE  StoreKept
  <1>1. /\ view' \in KnownViews
        /\ view'.expedition_status = "ready" /\ view'.version = version + 1
    BY RotatesView DEF Base
  <1>2. /\ events' \in Seq(Happenings)
        /\ Len(events) \in Nat /\ Len(events') = Len(events) + 2
    BY RotatesTypes, AppendTwo DEF Base, Types, Rotates
  <1>3. view' # NoView
    BY <1>1, NullAssumption DEF KnownViews
  <1> QED
    BY <1>1, <1>2, <1>3
       DEF StoreKept, Stages, SetupViewCurrent, Rotates, Base, Types

LEMMA StartsKeeps ==
    ASSUME Base, Starts
    PROVE  StoreKept
  <1>1. /\ view' \in KnownViews
        /\ view'.expedition_status = "active" /\ view'.version = version + 1
    BY StartsView DEF Base
  <1>2. /\ events' \in Seq(Happenings)
        /\ Len(events) \in Nat /\ Len(events') = Len(events) + 2
    BY StartsTypes, AppendTwo DEF Base, Types, Starts
  <1>3. view' # NoView
    BY <1>1, NullAssumption DEF KnownViews
  <1> QED
    BY <1>1, <1>2, <1>3
       DEF StoreKept, Stages, SetupViewCurrent, Starts, Base, Types

LEMMA StoreStepKeeps ==
    ASSUME Base, StoreStep
    PROVE  StoreKept
  <1>1. Len(events) \in Nat
    BY DEF Base, Types
  <1>2. CASE UNCHANGED store
    BY <1>1, <1>2 DEF store, StoreKept, Base, Types, SetupViewCurrent
  <1>3. CASE Writes
    BY <1>3, InvitesKeeps, AcceptsKeeps, RevokesKeeps, RotatesKeeps, StartsKeeps DEF Writes
  <1>4. ASSUME NEW i \in DOMAIN invitations, Lapse(i)
        PROVE  StoreKept
    BY <1>1, <1>4, LapseTypes DEF Lapse, StoreKept, Base, Types, SetupViewCurrent
  <1>5. ASSUME NEW p \in People, Ban(p)
        PROVE  StoreKept
    BY <1>1, <1>5, BanTypes DEF Ban, StoreKept, Base, Types, SetupViewCurrent
  <1> QED
    BY <1>2, <1>3, <1>4, <1>5 DEF StoreStep

\* What a step may do to an invocation.
Moves(v) ==
    \/ flight'[v] = flight[v]
    \/ flight'[v] = Idle
    \/ /\ UNCHANGED store
       /\ \E command \in Commands :
             /\ Arriving(command)
             /\ flight'[v] = [phase |-> "loaded", command |-> command,
                              context |-> CurrentContext, order |-> 0]
    \/ /\ UNCHANGED store
       /\ flight[v].phase = "loaded" /\ flight[v].command.kind = "accept"
       /\ \E order \in Orders :
             flight'[v] = [flight[v] EXCEPT !.phase = "matched", !.order = order]

LEMMA StepOfFlight ==
    ASSUME Base, [Next]_vars, NEW v \in Workers
    PROVE  Moves(v)
  <1>1. flight \in [Workers -> Flights]
    BY DEF Base, Types
  <1>2. ASSUME NEW w \in Workers, LoadContext(w)
        PROVE  Moves(v)
    BY <1>1, <1>2 DEF LoadContext, Moves
  <1>3. ASSUME NEW w \in Workers, ReadCandidate(w)
        PROVE  Moves(v)
    <2>1. LowestFreeOrder \in Orders
      BY <1>3, LowestIsFree DEF ReadCandidate, FreeOrders
    <2>2. flight' = [flight EXCEPT ![w] = [flight[w] EXCEPT !.phase = "matched",
                                                            !.order = LowestFreeOrder]]
      BY <1>1, <1>3 DEF ReadCandidate
    <2> QED
      BY <1>1, <1>3, <2>1, <2>2 DEF ReadCandidate, Moves
  <1>4. ASSUME NEW w \in Workers, Finish(w)
        PROVE  Moves(v)
    BY <1>1, <1>4 DEF Finish, Moves
  <1>5. ASSUME UNCHANGED flight
        PROVE  Moves(v)
    BY <1>1, <1>5 DEF Moves
  <1> QED
    BY <1>2, <1>3, <1>4, <1>5
       DEF Next, vars, Write, Abort, InviteParticipant, AcceptInvitation,
           RevokeInvitation, GenerateRotation, StartExpedition, Lapse, Ban

LEMMA FlightIsFunction ==
    ASSUME Base, [Next]_vars
    PROVE  flight' = [x \in Workers |-> flight'[x]]
  <1>1. flight \in [Workers -> Flights]
    BY DEF Base, Types
  <1>2. \/ \E w \in Workers : \E e : flight' = [flight EXCEPT ![w] = e]
        \/ UNCHANGED flight
        \/ \E w \in Workers : ReadCandidate(w)
    BY DEF Next, vars, LoadContext, Finish, Write, Abort, InviteParticipant,
           AcceptInvitation, RevokeInvitation, GenerateRotation, StartExpedition,
           Lapse, Ban
  <1>3. ASSUME NEW w \in Workers, ReadCandidate(w)
        PROVE  \E e : flight' = [flight EXCEPT ![w] = e]
    BY <1>1, <1>3 DEF ReadCandidate
  <1> QED
    BY <1>1, <1>2, <1>3

LEMMA FlightKept ==
    ASSUME Base, StoreKept, NEW v \in Workers, Moves(v)
    PROVE  flight'[v] \in Flights /\ Informed(flight[v])'
  <1>1. flight[v] \in Flights /\ Informed(flight[v])
    BY DEF Base, Types
  <1>2. CASE flight'[v] = flight[v]
    <2>1. CASE flight[v].phase = "idle"
      BY <1>1, <1>2, <2>1 DEF Informed
    <2>2. CASE flight[v].phase # "idle"
      <3>1. flight[v].context.position \in Nat
        BY <2>2, FlightParts DEF Contexts, Base
      <3> QED
        BY <1>1, <1>2, <2>2, <3>1 DEF Informed, StoreKept, CurrentContext
    <2> QED
      BY <2>1, <2>2
  <1>3. CASE flight'[v] = Idle
    BY <1>3 DEF Flights, Idle, Informed
  <1>4. ASSUME NEW command \in Commands, Arriving(command), UNCHANGED store,
               flight'[v] = [phase |-> "loaded", command |-> command,
                             context |-> CurrentContext, order |-> 0]
        PROVE  flight'[v] \in Flights /\ Informed(flight[v])'
    <2>1. CurrentContext' = CurrentContext /\ CurrentContext.position = Len(events)
          /\ Len(events) \in Nat
      BY <1>4 DEF store, CurrentContext, StoreKept
    <2>2. flight'[v] \in Flights
      BY <1>4, CurrentContextType DEF Flights, Base
    <2> QED
      BY <1>4, <2>1, <2>2 DEF Informed, Arriving, store
  <1>5. ASSUME NEW order \in Orders, UNCHANGED store,
               flight[v].phase = "loaded", flight[v].command.kind = "accept",
               flight'[v] = [flight[v] EXCEPT !.phase = "matched", !.order = order]
        PROVE  flight'[v] \in Flights /\ Informed(flight[v])'
    <2>1. flight[v] \in [phase: {"loaded", "matched"}, command: Commands,
                         context: Contexts, order: Orders \union {0}]
      BY <1>5, FlightParts DEF Base
    <2>2. /\ flight'[v] \in [phase: {"loaded", "matched"}, command: Commands,
                             context: Contexts, order: Orders \union {0}]
          /\ flight'[v].command = flight[v].command
          /\ flight'[v].context = flight[v].context
      BY <1>5, <2>1
    <2>3. CurrentContext' = CurrentContext
      BY <1>5 DEF store, CurrentContext
    <2> QED
      BY <1>1, <1>5, <2>2, <2>3 DEF Flights, Informed, store
  <1> QED
    BY <1>2, <1>3, <1>4, <1>5 DEF Moves

LEMMA BaseInit ==
    ASSUME Init
    PROVE  Base
  <1>1. [type |-> "expedition.created"] \in Happenings
    BY DEF Happenings
  <1>2. events \in Seq(Happenings)
    BY <1>1 DEF Init
  <1> QED
    BY <1>2 DEF Init, Base, Types, Stages, Flights, Informed, Idle, SetupViewCurrent

LEMMA BaseStep ==
    ASSUME Base, [Next]_vars
    PROVE  Base'
  <1>1. StoreKept
    BY StepOfStore, StoreStepKeeps
  <1>2. \A v \in Workers : flight'[v] \in Flights /\ Informed(flight[v])'
    BY <1>1, StepOfFlight, FlightKept
  <1>3. flight' \in [Workers -> Flights]
    BY <1>2, FlightIsFunction
  <1> QED
    BY <1>1, <1>2, <1>3 DEF Base, Types, StoreKept

\* Types hold, a context at the position of the stream is the present one, and the
\* view is where the projection head is.
THEOREM BaseInvariant == Spec => []Base
  BY BaseInit, BaseStep, PTL DEF Spec

\* The rows, the projection version, the view and the invocations under way have
\* their types, for any number of people, invocations and invitations.
THEOREM TypeCorrectness == Spec => []TypeOK
  <1>1. Base => TypeOK
    BY FlightParts DEF Base, Types, TypeOK, Stages, Rows, Outcomes, Seats, KnownViews, Flights, Idle
  <1> QED
    BY <1>1, BaseInvariant, PTL

\* The setup view is never behind the status and the projection version.
THEOREM ViewIsCurrent == Spec => []SetupViewCurrent
  <1>1. Base => SetupViewCurrent
    BY DEF Base
  <1> QED
    BY <1>1, BaseInvariant, PTL

-----------------------------------------------------------------------------
(***************************************************************************)
(* The log                                                                 *)
(***************************************************************************)

\* An appended event joins the occurrences of its own type only.
LEMMA OccurrencesOne ==
    ASSUME events \in Seq(Happenings), NEW e \in Happenings, events' = events \o <<e>>,
           NEW type
    PROVE  /\ Occurrences(type)' = Occurrences(type)
                 \union (IF e.type = type THEN {Len(events) + 1} ELSE {})
           /\ Occurrences(type) \subseteq DOMAIN events
           /\ Len(events) + 1 \notin DOMAIN events
           /\ \A n \in DOMAIN events : events'[n] = events[n]
           /\ events'[Len(events) + 1] = e
  <1>1. /\ DOMAIN events' = (DOMAIN events) \union {Len(events) + 1}
        /\ \A n \in DOMAIN events : events'[n] = events[n]
        /\ events'[Len(events) + 1] = e
        /\ Len(events) + 1 \notin DOMAIN events
    BY AppendOne
  <1> QED
    BY <1>1 DEF Occurrences

LEMMA OccurrencesTwo ==
    ASSUME events \in Seq(Happenings), NEW e \in Happenings, NEW f \in Happenings,
           events' = events \o <<e, f>>, NEW type
    PROVE  /\ Occurrences(type)' = Occurrences(type)
                 \union (IF e.type = type THEN {Len(events) + 1} ELSE {})
                 \union (IF f.type = type THEN {Len(events) + 2} ELSE {})
           /\ Occurrences(type) \subseteq DOMAIN events
           /\ Len(events) + 1 \notin DOMAIN events /\ Len(events) + 2 \notin DOMAIN events
           /\ \A n \in DOMAIN events : events'[n] = events[n]
           /\ events'[Len(events) + 1] = e /\ events'[Len(events) + 2] = f
  <1>1. /\ DOMAIN events' = (DOMAIN events) \union {Len(events) + 1, Len(events) + 2}
        /\ \A n \in DOMAIN events : events'[n] = events[n]
        /\ events'[Len(events) + 1] = e /\ events'[Len(events) + 2] = f
        /\ Len(events) + 1 \notin DOMAIN events /\ Len(events) + 2 \notin DOMAIN events
    BY AppendTwo
  <1> QED
    BY <1>1 DEF Occurrences

\* The occurrences of one type after each write.
LEMMA InvitesLog ==
    ASSUME Base, NEW p \in People, Invites(p), NEW type
    PROVE  /\ Occurrences(type)' = Occurrences(type)
                 \union (IF type = "invitation.created" THEN {Len(events) + 1} ELSE {})
           /\ Occurrences(type) \subseteq DOMAIN events
           /\ \A n \in DOMAIN events : events'[n] = events[n]
           /\ events'[Len(events) + 1].invitation = Len(invitations) + 1
  <1> DEFINE e == [type |-> "invitation.created", invitation |-> Len(invitations) + 1]
  <1>1. e \in Happenings /\ events \in Seq(Happenings) /\ events' = events \o <<e>>
    BY InvitesTypes DEF Base, Types, Invites
  <1>2. e.type = "invitation.created" /\ e.invitation = Len(invitations) + 1
    OBVIOUS
  <1> HIDE DEF e
  <1> QED
    BY <1>1, <1>2, OccurrencesOne

LEMMA RevokesLog ==
    ASSUME Base, NEW id \in DOMAIN invitations, Revokes(id), NEW type
    PROVE  /\ Occurrences(type)' = Occurrences(type)
                 \union (IF type = "invitation.revoked" THEN {Len(events) + 1} ELSE {})
           /\ Occurrences(type) \subseteq DOMAIN events
           /\ \A n \in DOMAIN events : events'[n] = events[n]
           /\ events'[Len(events) + 1].invitation = id
  <1> DEFINE e == [type |-> "invitation.revoked", invitation |-> id]
  <1>1. e \in Happenings /\ events \in Seq(Happenings) /\ events' = events \o <<e>>
    BY RevokesTypes DEF Base, Types, Revokes
  <1>2. e.type = "invitation.revoked" /\ e.invitation = id
    OBVIOUS
  <1> HIDE DEF e
  <1> QED
    BY <1>1, <1>2, OccurrencesOne

LEMMA AcceptsLog ==
    ASSUME Base, NEW id \in DOMAIN invitations, NEW person \in People,
           NEW order \in Orders, Accepts(id, person, order), NEW type
    PROVE  /\ Occurrences(type)' = Occurrences(type)
                 \union (IF type = "invitation.accepted" THEN {Len(events) + 1} ELSE {})
                 \union (IF type = "participant.added" THEN {Len(events) + 2} ELSE {})
           /\ Occurrences(type) \subseteq DOMAIN events
           /\ \A n \in DOMAIN events : events'[n] = events[n]
           /\ events'[Len(events) + 1].invitation = id
           /\ events'[Len(events) + 2].person = person
           /\ events'[Len(events) + 2].order = order
  <1> DEFINE e == [type |-> "invitation.accepted", invitation |-> id, person |-> person]
             f == [type |-> "participant.added", person |-> person, order |-> order]
  <1>1. /\ e \in Happenings /\ f \in Happenings
        /\ events \in Seq(Happenings) /\ events' = events \o <<e, f>>
    BY AcceptsTypes DEF Base, Types, Accepts
  <1>2. /\ e.type = "invitation.accepted" /\ e.invitation = id
        /\ f.type = "participant.added" /\ f.person = person /\ f.order = order
    OBVIOUS
  <1> HIDE DEF e, f
  <1> QED
    BY <1>1, <1>2, OccurrencesTwo, ZenonT(30)

LEMMA RotatesLog ==
    ASSUME Base, NEW plan \in SUBSET Assignments, Rotates(plan), NEW type
    PROVE  /\ Occurrences(type)' = Occurrences(type)
                 \union (IF type = "rotation.generated" THEN {Len(events) + 1} ELSE {})
                 \union (IF type = "expedition.ready" THEN {Len(events) + 2} ELSE {})
           /\ Occurrences(type) \subseteq DOMAIN events
           /\ \A n \in DOMAIN events : events'[n] = events[n]
           /\ events'[Len(events) + 1].plan = plan
  <1> DEFINE e == [type |-> "rotation.generated", plan |-> plan]
             f == [type |-> "expedition.ready"]
  <1>1. /\ e \in Happenings /\ f \in Happenings
        /\ events \in Seq(Happenings) /\ events' = events \o <<e, f>>
    BY RotatesTypes DEF Base, Types, Rotates
  <1>2. e.type = "rotation.generated" /\ e.plan = plan /\ f.type = "expedition.ready"
    OBVIOUS
  <1> HIDE DEF e, f
  <1> QED
    BY <1>1, <1>2, OccurrencesTwo, ZenonT(30)

LEMMA StartsLog ==
    ASSUME Base, Starts, NEW type
    PROVE  /\ Occurrences(type)' = Occurrences(type)
                 \union (IF type = "expedition.started" THEN {Len(events) + 1} ELSE {})
                 \union (IF type = "stage.opened" THEN {Len(events) + 2} ELSE {})
           /\ Occurrences(type) \subseteq DOMAIN events
           /\ \A n \in DOMAIN events : events'[n] = events[n]
  <1> DEFINE e == [type |-> "expedition.started"]
             f == [type |-> "stage.opened", stage |-> "onboarding"]
  <1>1. /\ e \in Happenings /\ f \in Happenings
        /\ events \in Seq(Happenings) /\ events' = events \o <<e, f>>
    BY StartsTypes DEF Base, Types, Starts
  <1>2. e.type = "expedition.started" /\ f.type = "stage.opened"
    OBVIOUS
  <1> HIDE DEF e, f
  <1> QED
    BY <1>1, <1>2, OccurrencesTwo, ZenonT(30)

\* Nothing else touches the log.
LEMMA QuietLog ==
    ASSUME StoreStep, ~Writes
    PROVE  /\ UNCHANGED <<status, events, version, view>>
           /\ \A type : Occurrences(type)' = Occurrences(type)
  BY DEF StoreStep, store, Lapse, Ban, Occurrences

-----------------------------------------------------------------------------
(***************************************************************************)
(* One-time events                                                         *)
(***************************************************************************)

LEMMA OneTimeEventsStep ==
    ASSUME Base, OneTimeEvents, StoreStep
    PROVE  OneTimeEvents'
  <1>1. ASSUME NEW p \in People, Invites(p) PROVE OneTimeEvents'
    <2>1. \A type \in {"rotation.generated", "expedition.ready", "expedition.started",
                       "stage.opened"} : Occurrences(type)' = Occurrences(type)
      BY <1>1, InvitesLog
    <2> QED
      BY <1>1, <2>1, InvitesTypes DEF OneTimeEvents
  <1>2. ASSUME NEW id \in DOMAIN invitations, NEW person \in People, NEW order \in Orders,
               Accepts(id, person, order)
        PROVE  OneTimeEvents'
    <2>1. ASSUME NEW type \in {"rotation.generated", "expedition.ready",
                              "expedition.started", "stage.opened"}
          PROVE  Occurrences(type)' = Occurrences(type)
      <3>1. type # "invitation.accepted" /\ type # "participant.added"
        OBVIOUS
      <3> QED
        BY <1>2, <3>1, AcceptsLog
    <2> QED
      BY <1>2, <2>1, AcceptsTypes DEF OneTimeEvents
  <1>3. ASSUME NEW id \in DOMAIN invitations, Revokes(id) PROVE OneTimeEvents'
    <2>1. \A type \in {"rotation.generated", "expedition.ready", "expedition.started",
                       "stage.opened"} : Occurrences(type)' = Occurrences(type)
      BY <1>3, RevokesLog
    <2> QED
      BY <1>3, <2>1, RevokesTypes DEF OneTimeEvents
  <1>4. ASSUME NEW plan \in SUBSET Assignments, Rotates(plan) PROVE OneTimeEvents'
    <2>1. status = "draft" /\ status' = "ready"
      BY <1>4, RotatesTypes
    <2>2. /\ Occurrences("rotation.generated")' = {Len(events) + 1}
          /\ Occurrences("expedition.ready")' = {Len(events) + 2}
          /\ Occurrences("expedition.started")' = {} /\ Occurrences("stage.opened")' = {}
      BY <1>4, <2>1, RotatesLog DEF OneTimeEvents
    <2> QED
      BY <2>1, <2>2 DEF OneTimeEvents
  <1>5. ASSUME Starts PROVE OneTimeEvents'
    <2>1. status = "ready" /\ status' = "active"
      BY <1>5, StartsTypes
    <2>2. /\ Occurrences("rotation.generated")' = Occurrences("rotation.generated")
          /\ Occurrences("expedition.ready")' = Occurrences("expedition.ready")
          /\ Occurrences("expedition.started")' = {Len(events) + 1}
          /\ Occurrences("stage.opened")' = {Len(events) + 2}
      BY <1>5, <2>1, StartsLog DEF OneTimeEvents
    <2> QED
      BY <2>1, <2>2 DEF OneTimeEvents
  <1>6. CASE ~Writes
    BY <1>6, QuietLog DEF OneTimeEvents
  <1> QED
    BY <1>1, <1>2, <1>3, <1>4, <1>5, <1>6 DEF Writes

LEMMA OneTimeEventsInit ==
    ASSUME Init
    PROVE  OneTimeEvents
  BY DEF Init, OneTimeEvents, Occurrences

\* The rotation is generated once and the Expedition started once, and only then are
\* their events in the log.
THEOREM HistoryMatchesStatus == Spec => []StatusMatchesHistory
  <1>1. Base /\ OneTimeEvents /\ [Next]_vars => (Base /\ OneTimeEvents)'
    BY BaseStep, StepOfStore, OneTimeEventsStep
  <1>2. Base /\ OneTimeEvents => StatusMatchesHistory
    <2> SUFFICES ASSUME Base, OneTimeEvents
                 PROVE  StatusMatchesHistory
      OBVIOUS
    <2>1. status \in Stages
      BY DEF Base, Types
    <2>2. Cardinality({}) = 0 /\ \A n : Cardinality({n}) = 1
      BY FS_EmptySet, FS_Singleton
    <2> QED
      BY <2>1, <2>2 DEF StatusMatchesHistory, OneTimeEvents, Stages
  <1> QED
    BY <1>1, <1>2, BaseInit, OneTimeEventsInit, PTL DEF Spec

-----------------------------------------------------------------------------
(***************************************************************************)
(* Capacity                                                                *)
(***************************************************************************)

LEMMA AddOne ==
    ASSUME NEW S, NEW x, IsFiniteSet(S)
    PROVE  /\ IsFiniteSet(S \union {x})
           /\ Cardinality(S) \in Nat /\ Cardinality(S \union {x}) \in Nat
           /\ Cardinality(S \union {x}) <= Cardinality(S) + 1
           /\ x \notin S => Cardinality(S \union {x}) = Cardinality(S) + 1
  <1>1. /\ IsFiniteSet(S \union {x})
        /\ Cardinality(S \union {x}) = IF x \in S THEN Cardinality(S)
                                                 ELSE Cardinality(S) + 1
    BY FS_AddElement
  <1>2. Cardinality(S) \in Nat
    BY FS_CardinalityType
  <1> QED
    BY <1>1, <1>2

LEMMA RemoveOne ==
    ASSUME NEW S, NEW x, IsFiniteSet(S)
    PROVE  /\ IsFiniteSet(S \ {x})
           /\ Cardinality(S) \in Nat /\ Cardinality(S \ {x}) \in Nat
           /\ Cardinality(S \ {x}) <= Cardinality(S)
           /\ x \in S => Cardinality(S) = Cardinality(S \ {x}) + 1
  <1>1. /\ IsFiniteSet(S \ {x})
        /\ Cardinality(S \ {x}) = IF x \in S THEN Cardinality(S) - 1 ELSE Cardinality(S)
    BY FS_RemoveElement
  <1>2. Cardinality(S) \in Nat /\ Cardinality(S \ {x}) \in Nat
    BY <1>1, FS_CardinalityType
  <1> QED
    BY <1>1, <1>2

LEMMA PendingFinite ==
    ASSUME Types
    PROVE  /\ IsFiniteSet(PendingIds) /\ Cardinality(PendingIds) \in Nat
           /\ PendingIds \subseteq 1..Len(invitations)
  <1>1. Len(invitations) \in Nat /\ DOMAIN invitations = 1..Len(invitations)
    BY DEF Types
  <1>2. PendingIds \in SUBSET (1..Len(invitations))
    BY <1>1 DEF PendingIds
  <1>3. IsFiniteSet(1..Len(invitations))
    BY <1>1, FS_Interval
  <1> QED
    BY <1>2, <1>3, FS_Subset, FS_CardinalityType

\* The team and the open invitations after each step.
LEMMA InvitesTeam ==
    ASSUME Base, NEW p \in People, Invites(p)
    PROVE  /\ ActivePeople' = ActivePeople
           /\ PendingIds' = PendingIds \union {Len(invitations) + 1}
           /\ Len(invitations) + 1 \notin DOMAIN invitations
  <1>1. Len(invitations) + 1 \notin DOMAIN invitations
    BY DEF Base, Types
  <1>2. ActivePeople' = ActivePeople
    BY DEF Invites, ActivePeople
  <1>3. /\ DOMAIN invitations' = (DOMAIN invitations) \union {Len(invitations) + 1}
        /\ \A i \in DOMAIN invitations : invitations'[i] = invitations[i]
        /\ invitations'[Len(invitations) + 1]
              = [person |-> p, lapsed |-> FALSE, status |-> "pending"]
    BY InvitesTypes
  <1>4. invitations'[Len(invitations) + 1].status = "pending"
    BY <1>3
  <1>5. PendingIds' = PendingIds \union {Len(invitations) + 1}
    BY <1>1, <1>3, <1>4 DEF PendingIds
  <1> QED
    BY <1>1, <1>2, <1>5

LEMMA AcceptsTeam ==
    ASSUME Base, NEW id \in DOMAIN invitations, NEW person \in People,
           NEW order \in Orders, Accepts(id, person, order)
    PROVE  /\ ActivePeople' = ActivePeople \union {person} /\ person \notin ActivePeople
           /\ PendingIds' = PendingIds \ {id} /\ id \in PendingIds
  <1>1. participants \in [People -> Seats \union {NoRow}]
    BY DEF Base, Types
  <1>2. NoRow # [order |-> order, status |-> "active"]
    BY NullAssumption
  <1>3. ActivePeople' = ActivePeople \union {person} /\ person \notin ActivePeople
    <2>1. /\ participants' = [participants EXCEPT ![person] =
                                [order |-> order, status |-> "active"]]
          /\ participants[person] = NoRow
      BY AcceptsTypes
    <2>2. participants'[person] # NoRow /\ participants'[person].status = "active"
      BY <1>1, <1>2, <2>1
    <2>3. \A q \in People \ {person} : participants'[q] = participants[q]
      BY <1>1, <2>1
    <2> QED
      BY <2>1, <2>2, <2>3 DEF ActivePeople
  <1>4. PendingIds' = PendingIds \ {id} /\ id \in PendingIds
    <2>1. invitations[id].status = "pending"
      BY AcceptsTypes
    <2>2. /\ DOMAIN invitations' = DOMAIN invitations
          /\ \A i \in DOMAIN invitations :
                invitations'[i].status = IF i = id THEN "accepted" ELSE invitations[i].status
      BY ResolveTypes DEF Accepts, Outcomes
    <2> QED
      BY <2>1, <2>2 DEF PendingIds
  <1> QED
    BY <1>3, <1>4

LEMMA RevokesTeam ==
    ASSUME Base, NEW id \in DOMAIN invitations, Revokes(id)
    PROVE  /\ ActivePeople' = ActivePeople
           /\ PendingIds' = PendingIds \ {id} /\ id \in PendingIds
  <1>1. ActivePeople' = ActivePeople
    BY DEF Revokes, ActivePeople
  <1>2. PendingIds' = PendingIds \ {id} /\ id \in PendingIds
    <2>1. invitations[id].status = "pending"
      BY RevokesTypes
    <2>2. /\ DOMAIN invitations' = DOMAIN invitations
          /\ \A i \in DOMAIN invitations :
                invitations'[i].status = IF i = id THEN "revoked" ELSE invitations[i].status
      BY ResolveTypes DEF Revokes, Outcomes
    <2> QED
      BY <2>1, <2>2 DEF PendingIds
  <1> QED
    BY <1>1, <1>2

LEMMA LapseTeam ==
    ASSUME Base, NEW i \in DOMAIN invitations, Lapse(i)
    PROVE  ActivePeople' = ActivePeople /\ PendingIds' = PendingIds
  <1>1. ActivePeople' = ActivePeople
    BY DEF Lapse, ActivePeople
  <1>2. /\ DOMAIN invitations' = DOMAIN invitations
        /\ \A j \in DOMAIN invitations : invitations'[j].status = invitations[j].status
    BY LapseTypes
  <1> QED
    BY <1>1, <1>2 DEF PendingIds

LEMMA BanTeam ==
    ASSUME Base, NEW p \in People, Ban(p)
    PROVE  ActivePeople' = ActivePeople \ {p} /\ PendingIds' = PendingIds
  <1>1. ActivePeople' = ActivePeople \ {p}
    BY BanTypes
  <1>2. PendingIds' = PendingIds
    BY DEF Ban, PendingIds
  <1> QED
    BY <1>1, <1>2

LEMMA SameTeam ==
    ASSUME UNCHANGED <<invitations, participants>>
    PROVE  ActivePeople' = ActivePeople /\ PendingIds' = PendingIds
  BY DEF ActivePeople, PendingIds

LEMMA CapacityStep ==
    ASSUME Base, Capacity, StoreStep
    PROVE  Capacity'
  <1>1. /\ IsFiniteSet(ActivePeople) /\ IsFiniteSet(PendingIds)
        /\ Cardinality(ActivePeople) \in Nat /\ Cardinality(PendingIds) \in Nat
        /\ Cardinality(ActivePeople) + Cardinality(PendingIds) <= TeamMax
        /\ TeamMax \in Nat
    BY PendingFinite, FS_CardinalityType, PolicyAssumption DEF Capacity, Base
  <1>2. ASSUME NEW p \in People, Invites(p) PROVE Capacity'
    <2>1. Cardinality(ActivePeople) + Cardinality(PendingIds) < TeamMax
      BY <1>2 DEF Invites, MayInvite, HasRoom
    <2>2. /\ ActivePeople' = ActivePeople
          /\ PendingIds' = PendingIds \union {Len(invitations) + 1}
      BY <1>2, InvitesTeam
    <2>3. /\ Cardinality(PendingIds \union {Len(invitations) + 1}) \in Nat
          /\ Cardinality(PendingIds \union {Len(invitations) + 1})
                <= Cardinality(PendingIds) + 1
      BY <1>1, AddOne
    <2> QED
      BY <1>1, <2>1, <2>2, <2>3 DEF Capacity
  <1>3. ASSUME NEW id \in DOMAIN invitations, NEW person \in People, NEW order \in Orders,
               Accepts(id, person, order)
        PROVE  Capacity'
    <2>1. /\ ActivePeople' = ActivePeople \union {person}
          /\ PendingIds' = PendingIds \ {id} /\ id \in PendingIds
      BY <1>3, AcceptsTeam
    <2>2. /\ IsFiniteSet(ActivePeople \union {person})
          /\ Cardinality(ActivePeople \union {person}) \in Nat
          /\ Cardinality(ActivePeople \union {person}) <= Cardinality(ActivePeople) + 1
      BY <1>1, AddOne
    <2>3. /\ Cardinality(PendingIds \ {id}) \in Nat
          /\ Cardinality(PendingIds) = Cardinality(PendingIds \ {id}) + 1
      BY <1>1, <2>1, RemoveOne
    <2> QED
      BY <1>1, <2>1, <2>2, <2>3 DEF Capacity
  <1>4. ASSUME NEW id \in DOMAIN invitations, Revokes(id) PROVE Capacity'
    <2>1. ActivePeople' = ActivePeople /\ PendingIds' = PendingIds \ {id}
      BY <1>4, RevokesTeam
    <2>2. /\ Cardinality(PendingIds \ {id}) \in Nat
          /\ Cardinality(PendingIds \ {id}) <= Cardinality(PendingIds)
      BY <1>1, RemoveOne
    <2> QED
      BY <1>1, <2>1, <2>2 DEF Capacity
  <1>5. ASSUME NEW p \in People, Ban(p) PROVE Capacity'
    <2>1. ActivePeople' = ActivePeople \ {p} /\ PendingIds' = PendingIds
      BY <1>5, BanTeam
    <2>2. /\ IsFiniteSet(ActivePeople \ {p}) /\ Cardinality(ActivePeople \ {p}) \in Nat
          /\ Cardinality(ActivePeople \ {p}) <= Cardinality(ActivePeople)
      BY <1>1, RemoveOne
    <2> QED
      BY <1>1, <2>1, <2>2 DEF Capacity
  <1>6. ASSUME NEW i \in DOMAIN invitations, Lapse(i) PROVE Capacity'
    BY <1>6, LapseTeam DEF Capacity
  <1>7. ASSUME UNCHANGED <<invitations, participants>> PROVE Capacity'
    BY <1>7, SameTeam DEF Capacity
  <1> QED
    BY <1>2, <1>3, <1>4, <1>5, <1>6, <1>7
       DEF StoreStep, Writes, Rotates, Starts, store

LEMMA CapacityInit ==
    ASSUME Init
    PROVE  Capacity
  <1>1. ActivePeople = {} /\ PendingIds = {}
    BY DEF Init, ActivePeople, PendingIds
  <1> QED
    BY <1>1, FS_EmptySet, PolicyAssumption DEF Capacity

\* Seats taken and invitations open never exceed the policy, for any number of racing
\* invocations, people and bans.
THEOREM NeverOverCapacity == Spec => []TeamWithinCapacity
  <1>1. Base /\ Capacity /\ [Next]_vars => (Base /\ Capacity)'
    BY BaseStep, StepOfStore, CapacityStep
  <1>2. Capacity => TeamWithinCapacity
    BY DEF Capacity, TeamWithinCapacity, PendingIds
  <1> QED
    BY <1>1, <1>2, BaseInit, CapacityInit, PTL DEF Spec

-----------------------------------------------------------------------------
(***************************************************************************)
(* Rows follow the log                                                     *)
(***************************************************************************)

LEMMA SameNamed ==
    ASSUME NEW type, Occurrences(type)' = Occurrences(type),
           Occurrences(type) \subseteq DOMAIN events,
           \A n \in DOMAIN events : events'[n] = events[n]
    PROVE  Named(type)' = Named(type)
  BY DEF Named

LEMMA OneMoreNamed ==
    ASSUME NEW type, NEW k, Occurrences(type)' = Occurrences(type) \union {k},
           Occurrences(type) \subseteq DOMAIN events,
           \A n \in DOMAIN events : events'[n] = events[n]
    PROVE  Named(type)' = Named(type) \union {events'[k].invitation}
  BY DEF Named

LEMMA SameSeats ==
    ASSUME Occurrences("participant.added")' = Occurrences("participant.added"),
           Occurrences("participant.added") \subseteq DOMAIN events,
           \A n \in DOMAIN events : events'[n] = events[n]
    PROVE  SeatsInLog' = SeatsInLog
  BY DEF SeatsInLog

LEMMA OneMoreSeat ==
    ASSUME NEW k,
           Occurrences("participant.added")' = Occurrences("participant.added") \union {k},
           Occurrences("participant.added") \subseteq DOMAIN events,
           \A n \in DOMAIN events : events'[n] = events[n]
    PROVE  SeatsInLog' = SeatsInLog
              \union {[person |-> events'[k].person, order |-> events'[k].order]}
  BY DEF SeatsInLog

\* A write that appends only one-time events leaves names and seats alone.
LEMMA InvitesNames ==
    ASSUME Base, NEW p \in People, Invites(p)
    PROVE  /\ Named("invitation.created")' = Named("invitation.created")
                 \union {Len(invitations) + 1}
           /\ Named("invitation.accepted")' = Named("invitation.accepted")
           /\ Named("invitation.revoked")' = Named("invitation.revoked")
           /\ SeatsInLog' = SeatsInLog
  <1>1. /\ \A n \in DOMAIN events : events'[n] = events[n]
        /\ events'[Len(events) + 1].invitation = Len(invitations) + 1
    BY InvitesLog
  <1>2. \A type : Occurrences(type) \subseteq DOMAIN events
    BY DEF Occurrences
  <1>3. /\ Occurrences("invitation.created")'
              = Occurrences("invitation.created") \union {Len(events) + 1}
        /\ Occurrences("invitation.accepted")' = Occurrences("invitation.accepted")
        /\ Occurrences("invitation.revoked")' = Occurrences("invitation.revoked")
        /\ Occurrences("participant.added")' = Occurrences("participant.added")
    BY InvitesLog
  <1>4. Named("invitation.created")' = Named("invitation.created")
                 \union {events'[Len(events) + 1].invitation}
    BY <1>1, <1>2, <1>3, OneMoreNamed
  <1>5. /\ Named("invitation.accepted")' = Named("invitation.accepted")
        /\ Named("invitation.revoked")' = Named("invitation.revoked")
    BY <1>1, <1>2, <1>3, SameNamed
  <1>6. SeatsInLog' = SeatsInLog
    BY <1>1, <1>2, <1>3, SameSeats
  <1> QED
    BY <1>1, <1>4, <1>5, <1>6

LEMMA AcceptsNames ==
    ASSUME Base, NEW id \in DOMAIN invitations, NEW person \in People,
           NEW order \in Orders, Accepts(id, person, order)
    PROVE  /\ Named("invitation.created")' = Named("invitation.created")
           /\ Named("invitation.accepted")' = Named("invitation.accepted") \union {id}
           /\ Named("invitation.revoked")' = Named("invitation.revoked")
           /\ SeatsInLog' = SeatsInLog \union {[person |-> person, order |-> order]}
  <1>1. /\ \A n \in DOMAIN events : events'[n] = events[n]
        /\ events'[Len(events) + 1].invitation = id
        /\ events'[Len(events) + 2].person = person
        /\ events'[Len(events) + 2].order = order
    BY AcceptsLog
  <1>2. \A type : Occurrences(type) \subseteq DOMAIN events
    BY DEF Occurrences
  <1>3. /\ Occurrences("invitation.accepted")'
              = Occurrences("invitation.accepted") \union {Len(events) + 1}
        /\ Occurrences("participant.added")'
              = Occurrences("participant.added") \union {Len(events) + 2}
        /\ Occurrences("invitation.created")' = Occurrences("invitation.created")
        /\ Occurrences("invitation.revoked")' = Occurrences("invitation.revoked")
    <2>1. \A type : Occurrences(type)' = Occurrences(type)
             \union (IF type = "invitation.accepted" THEN {Len(events) + 1} ELSE {})
             \union (IF type = "participant.added" THEN {Len(events) + 2} ELSE {})
      BY AcceptsLog
    <2> QED
      BY <2>1
  <1>4. Named("invitation.accepted")' = Named("invitation.accepted")
                 \union {events'[Len(events) + 1].invitation}
    BY <1>1, <1>2, <1>3, OneMoreNamed
  <1>5. /\ Named("invitation.created")' = Named("invitation.created")
        /\ Named("invitation.revoked")' = Named("invitation.revoked")
    <2>1. \A n \in DOMAIN events : events'[n] = events[n]
      BY <1>1
    <2> QED
      BY <1>2, <1>3, <2>1, SameNamed
  <1>6. SeatsInLog' = SeatsInLog
           \union {[person |-> events'[Len(events) + 2].person,
                    order |-> events'[Len(events) + 2].order]}
    BY <1>1, <1>2, <1>3, OneMoreSeat
  <1> QED
    BY <1>1, <1>4, <1>5, <1>6

LEMMA RevokesNames ==
    ASSUME Base, NEW id \in DOMAIN invitations, Revokes(id)
    PROVE  /\ Named("invitation.created")' = Named("invitation.created")
           /\ Named("invitation.accepted")' = Named("invitation.accepted")
           /\ Named("invitation.revoked")' = Named("invitation.revoked") \union {id}
           /\ SeatsInLog' = SeatsInLog
  <1>1. /\ \A n \in DOMAIN events : events'[n] = events[n]
        /\ events'[Len(events) + 1].invitation = id
    BY RevokesLog
  <1>2. \A type : Occurrences(type) \subseteq DOMAIN events
    BY DEF Occurrences
  <1>3. /\ Occurrences("invitation.revoked")'
              = Occurrences("invitation.revoked") \union {Len(events) + 1}
        /\ Occurrences("invitation.accepted")' = Occurrences("invitation.accepted")
        /\ Occurrences("invitation.created")' = Occurrences("invitation.created")
        /\ Occurrences("participant.added")' = Occurrences("participant.added")
    <2>1. \A type : Occurrences(type)' = Occurrences(type)
             \union (IF type = "invitation.revoked" THEN {Len(events) + 1} ELSE {})
      BY RevokesLog
    <2> QED
      BY <2>1
  <1>4. Named("invitation.revoked")' = Named("invitation.revoked")
                 \union {events'[Len(events) + 1].invitation}
    BY <1>1, <1>2, <1>3, OneMoreNamed
  <1>5. /\ Named("invitation.created")' = Named("invitation.created")
        /\ Named("invitation.accepted")' = Named("invitation.accepted")
    <2>1. \A n \in DOMAIN events : events'[n] = events[n]
      BY <1>1
    <2> QED
      BY <1>2, <1>3, <2>1, SameNamed
  <1>6. SeatsInLog' = SeatsInLog
    BY <1>1, <1>2, <1>3, SameSeats
  <1> QED
    BY <1>1, <1>4, <1>5, <1>6

\* The other steps name no invitation and add no seat.
LEMMA SameNames ==
    ASSUME Base,
           \/ \E plan \in SUBSET Assignments : Rotates(plan)
           \/ Starts
           \/ UNCHANGED events
    PROVE  /\ Named("invitation.created")' = Named("invitation.created")
           /\ Named("invitation.accepted")' = Named("invitation.accepted")
           /\ Named("invitation.revoked")' = Named("invitation.revoked")
           /\ SeatsInLog' = SeatsInLog
  <1> DEFINE Quiet ==
        /\ \A n \in DOMAIN events : events'[n] = events[n]
        /\ Occurrences("invitation.created")' = Occurrences("invitation.created")
        /\ Occurrences("invitation.accepted")' = Occurrences("invitation.accepted")
        /\ Occurrences("invitation.revoked")' = Occurrences("invitation.revoked")
        /\ Occurrences("participant.added")' = Occurrences("participant.added")
  <1>1. \A type : Occurrences(type) \subseteq DOMAIN events
    BY DEF Occurrences
  <1>2. ASSUME NEW plan \in SUBSET Assignments, Rotates(plan) PROVE Quiet
    BY <1>2, RotatesLog, ZenonT(30)
  <1>3. ASSUME Starts PROVE Quiet
    BY <1>3, StartsLog
  <1>4. ASSUME UNCHANGED events PROVE Quiet
    BY <1>4 DEF Occurrences
  <1>5. Quiet
    BY <1>2, <1>3, <1>4
  <1> QED
    BY <1>1, <1>5, SameNamed, SameSeats

LEMMA RowsFollowLogStep ==
    ASSUME Base, RowsFollowLog, StoreStep
    PROVE  RowsFollowLog'
  <1>1. ASSUME NEW p \in People, Invites(p) PROVE RowsFollowLog'
    <2>1. /\ DOMAIN invitations' = (DOMAIN invitations) \union {Len(invitations) + 1}
          /\ \A i \in DOMAIN invitations : invitations'[i] = invitations[i]
          /\ invitations'[Len(invitations) + 1]
                = [person |-> p, lapsed |-> FALSE, status |-> "pending"]
      BY <1>1, InvitesTypes
    <2>2. invitations'[Len(invitations) + 1].status = "pending"
      BY <2>1
    <2>3. \A outcome \in {"accepted", "revoked"} :
             WithStatus(outcome)' = WithStatus(outcome)
      BY <2>1, <2>2 DEF WithStatus
    <2>4. SeatsOfRows' = SeatsOfRows
      BY <1>1 DEF Invites, SeatsOfRows
    <2> QED
      BY <1>1, <2>1, <2>3, <2>4, InvitesNames DEF RowsFollowLog
  <1>2. ASSUME NEW id \in DOMAIN invitations, NEW person \in People, NEW order \in Orders,
               Accepts(id, person, order)
        PROVE  RowsFollowLog'
    <2>1. /\ invitations[id].status = "pending"
          /\ participants' = [participants EXCEPT ![person] =
                                 [order |-> order, status |-> "active"]]
          /\ participants[person] = NoRow
      BY <1>2, AcceptsTypes
    <2>2. /\ DOMAIN invitations' = DOMAIN invitations
          /\ \A i \in DOMAIN invitations :
                invitations'[i].status = IF i = id THEN "accepted" ELSE invitations[i].status
      BY <1>2, ResolveTypes DEF Accepts, Outcomes
    <2>3. /\ WithStatus("accepted")' = WithStatus("accepted") \union {id}
          /\ WithStatus("revoked")' = WithStatus("revoked")
      BY <2>1, <2>2 DEF WithStatus
    <2>4. /\ participants'[person].order = order /\ participants'[person] # NoRow
          /\ \A q \in People \ {person} : participants'[q] = participants[q]
      <3>1. participants \in [People -> Seats \union {NoRow}]
        BY DEF Base, Types
      <3>2. NoRow # [order |-> order, status |-> "active"]
        BY NullAssumption
      <3> QED
        BY <2>1, <3>1, <3>2
    <2>5. SeatsOfRows' = SeatsOfRows \union {[person |-> person, order |-> order]}
      BY <2>1, <2>4 DEF SeatsOfRows
    <2>6. /\ Named("invitation.created")' = Named("invitation.created")
          /\ Named("invitation.accepted")' = Named("invitation.accepted") \union {id}
          /\ Named("invitation.revoked")' = Named("invitation.revoked")
          /\ SeatsInLog' = SeatsInLog \union {[person |-> person, order |-> order]}
      BY <1>2, AcceptsNames
    <2> QED
      BY <2>2, <2>3, <2>5, <2>6 DEF RowsFollowLog
  <1>3. ASSUME NEW id \in DOMAIN invitations, Revokes(id) PROVE RowsFollowLog'
    <2>1. invitations[id].status = "pending"
      BY <1>3, RevokesTypes
    <2>2. /\ DOMAIN invitations' = DOMAIN invitations
          /\ \A i \in DOMAIN invitations :
                invitations'[i].status = IF i = id THEN "revoked" ELSE invitations[i].status
      BY <1>3, ResolveTypes DEF Revokes, Outcomes
    <2>3. /\ WithStatus("accepted")' = WithStatus("accepted")
          /\ WithStatus("revoked")' = WithStatus("revoked") \union {id}
      BY <2>1, <2>2 DEF WithStatus
    <2>4. SeatsOfRows' = SeatsOfRows
      BY <1>3 DEF Revokes, SeatsOfRows
    <2> QED
      BY <1>3, <2>2, <2>3, <2>4, RevokesNames DEF RowsFollowLog
  <1>4. ASSUME NEW i \in DOMAIN invitations, Lapse(i) PROVE RowsFollowLog'
    <2>1. /\ DOMAIN invitations' = DOMAIN invitations
          /\ \A j \in DOMAIN invitations : invitations'[j].status = invitations[j].status
      BY <1>4, LapseTypes
    <2>2. UNCHANGED events /\ SeatsOfRows' = SeatsOfRows
      BY <1>4 DEF Lapse, SeatsOfRows
    <2>3. \A outcome : WithStatus(outcome)' = WithStatus(outcome)
      BY <2>1 DEF WithStatus
    <2> QED
      BY <2>1, <2>2, <2>3, SameNames DEF RowsFollowLog
  <1>5. ASSUME NEW p \in People, Ban(p) PROVE RowsFollowLog'
    <2>1. \A q \in People :
             /\ participants'[q] = NoRow <=> participants[q] = NoRow
             /\ participants[q] # NoRow => participants'[q].order = participants[q].order
      BY <1>5, BanTypes
    <2>2. SeatsOfRows' = SeatsOfRows
      BY <2>1 DEF SeatsOfRows
    <2>3. UNCHANGED <<events, invitations>>
      BY <1>5 DEF Ban
    <2> QED
      BY <2>2, <2>3, SameNames DEF RowsFollowLog, WithStatus
  <1>6. ASSUME \/ \E plan \in SUBSET Assignments : Rotates(plan)
               \/ Starts
               \/ UNCHANGED store
        PROVE  RowsFollowLog'
    <2>1. UNCHANGED <<invitations, participants>>
      BY <1>6 DEF Rotates, Starts, store
    <2>2. SeatsOfRows' = SeatsOfRows /\ \A outcome : WithStatus(outcome)' = WithStatus(outcome)
      BY <2>1 DEF SeatsOfRows, WithStatus
    <2>3. UNCHANGED store => UNCHANGED events
      BY DEF store
    <2> QED
      BY <1>6, <2>1, <2>2, <2>3, SameNames DEF RowsFollowLog
  <1> QED
    BY <1>1, <1>2, <1>3, <1>4, <1>5, <1>6 DEF StoreStep, Writes

-----------------------------------------------------------------------------
(***************************************************************************)
(* Seats                                                                   *)
(***************************************************************************)

LEMMA InvitesSeating ==
    ASSUME Base, Seating, NEW p \in People, Invites(p)
    PROVE  Seating'
  <1> DEFINE new == Len(invitations) + 1
  <1>1. /\ DOMAIN invitations' = (DOMAIN invitations) \union {new}
        /\ \A i \in DOMAIN invitations : invitations'[i] = invitations[i]
        /\ invitations'[new] = [person |-> p, lapsed |-> FALSE, status |-> "pending"]
    BY InvitesTypes
  <1>2. invitations'[new].person = p /\ invitations'[new].status = "pending"
    BY <1>1
  <1>3. new \notin DOMAIN invitations
    BY DEF Base, Types
  <1>4. \A i \in DOMAIN invitations :
           invitations[i].status = "pending" => invitations[i].person # p
    BY DEF Invites, MayInvite, PendingIds
  <1>5. participants' = participants /\ FreeOrders' = FreeOrders
    BY DEF Invites, FreeOrders
  <1> HIDE DEF new
  <1>6. ASSUME NEW q \in People
        PROVE  participants[q] # NoRow
                 <=> \E i \in DOMAIN invitations' :
                        invitations'[i].person = q /\ invitations'[i].status = "accepted"
    BY <1>1, <1>2 DEF Seating
  <1>7. ASSUME NEW i \in DOMAIN invitations', NEW j \in DOMAIN invitations',
               invitations'[i].person = invitations'[j].person,
               invitations'[i].status = invitations'[j].status,
               invitations'[i].status # "revoked"
        PROVE  i = j
    BY <1>1, <1>2, <1>4, <1>7 DEF Seating
  <1> QED
    BY <1>5, <1>6, <1>7 DEF Seating

LEMMA AcceptsSeating ==
    ASSUME Base, Seating, NEW id \in DOMAIN invitations, NEW person \in People,
           NEW order \in Orders, Accepts(id, person, order)
    PROVE  Seating'
  <1>1. /\ invitations[id].status = "pending" /\ invitations[id].person = person
        /\ participants' = [participants EXCEPT ![person] =
                               [order |-> order, status |-> "active"]]
        /\ participants[person] = NoRow
        /\ order \in FreeOrders
    BY AcceptsTypes DEF Accepts
  <1>2. \A o \in FreeOrders : order <= o
    BY LowestIsFree DEF Accepts, MayAccept
  <1>3. /\ DOMAIN invitations' = DOMAIN invitations
        /\ \A i \in DOMAIN invitations :
              /\ invitations'[i].person = invitations[i].person
              /\ invitations'[i].status = IF i = id THEN "accepted" ELSE invitations[i].status
    BY ResolveTypes DEF Accepts, Outcomes
  <1>4. /\ participants'[person].order = order /\ participants'[person] # NoRow
        /\ \A q \in People \ {person} : participants'[q] = participants[q]
    <2>1. participants \in [People -> Seats \union {NoRow}]
      BY DEF Base, Types
    <2>2. NoRow # [order |-> order, status |-> "active"]
      BY NullAssumption
    <2> QED
      BY <1>1, <2>1, <2>2
  <1>5. \A i \in DOMAIN invitations :
           invitations[i].person = person => invitations[i].status # "accepted"
    BY <1>1 DEF Seating
  <1>6. ASSUME NEW q \in People
        PROVE  participants'[q] # NoRow
                 <=> \E i \in DOMAIN invitations' :
                        invitations'[i].person = q /\ invitations'[i].status = "accepted"
    <2>1. CASE q = person
      BY <1>1, <1>3, <1>4, <2>1
    <2>2. CASE q # person
      BY <1>1, <1>3, <1>4, <2>2 DEF Seating
    <2> QED
      BY <2>1, <2>2
  <1>7. ASSUME NEW i \in DOMAIN invitations', NEW j \in DOMAIN invitations',
               invitations'[i].person = invitations'[j].person,
               invitations'[i].status = invitations'[j].status,
               invitations'[i].status # "revoked"
        PROVE  i = j
    BY <1>1, <1>3, <1>5, <1>7 DEF Seating
  <1>8. ASSUME NEW p \in People, NEW q \in People,
               participants'[p] # NoRow, participants'[q] # NoRow,
               participants'[p].order = participants'[q].order
        PROVE  p = q
    <2>1. \A r \in People : participants[r] # NoRow => participants[r].order # order
      BY <1>1 DEF FreeOrders
    <2> QED
      BY <1>4, <1>8, <2>1 DEF Seating
  <1>9. FreeOrders' = FreeOrders \ {order}
    BY <1>1, <1>4 DEF FreeOrders
  <1>10. ASSUME NEW p \in People, NEW o \in Orders,
                participants'[p] # NoRow, o < participants'[p].order
         PROVE  o \notin FreeOrders'
    <2>1. CASE p = person
      BY <1>2, <1>4, <1>9, <1>10, <2>1, PolicyAssumption DEF Orders
    <2>2. CASE p # person
      BY <1>4, <1>9, <1>10, <2>2 DEF Seating
    <2> QED
      BY <2>1, <2>2
  <1> QED
    BY <1>6, <1>7, <1>8, <1>10 DEF Seating

\* A revocation, a lapse, a ban and the rest keep every seat and its order.
LEMMA QuietSeating ==
    ASSUME Seating,
           DOMAIN invitations' = DOMAIN invitations,
           \A i \in DOMAIN invitations :
              /\ invitations'[i].person = invitations[i].person
              /\ \/ invitations'[i].status = invitations[i].status
                 \/ invitations[i].status = "pending" /\ invitations'[i].status = "revoked",
           \A q \in People :
              /\ participants'[q] = NoRow <=> participants[q] = NoRow
              /\ participants[q] # NoRow => participants'[q].order = participants[q].order
    PROVE  Seating'
  <1>1. FreeOrders' = FreeOrders
    BY DEF FreeOrders
  <1>2. ASSUME NEW q \in People
        PROVE  participants'[q] # NoRow
                 <=> \E i \in DOMAIN invitations' :
                        invitations'[i].person = q /\ invitations'[i].status = "accepted"
    BY DEF Seating
  <1>3. ASSUME NEW i \in DOMAIN invitations', NEW j \in DOMAIN invitations',
               invitations'[i].person = invitations'[j].person,
               invitations'[i].status = invitations'[j].status,
               invitations'[i].status # "revoked"
        PROVE  i = j
    BY <1>3 DEF Seating
  <1>4. ASSUME NEW p \in People, NEW q \in People,
               participants'[p] # NoRow, participants'[q] # NoRow,
               participants'[p].order = participants'[q].order
        PROVE  p = q
    BY <1>4 DEF Seating
  <1>5. ASSUME NEW p \in People, NEW o \in Orders,
               participants'[p] # NoRow, o < participants'[p].order
        PROVE  o \notin FreeOrders'
    BY <1>1, <1>5 DEF Seating
  <1> QED
    BY <1>2, <1>3, <1>4, <1>5 DEF Seating

LEMMA SeatingStep ==
    ASSUME Base, Seating, StoreStep
    PROVE  Seating'
  <1>1. ASSUME NEW id \in DOMAIN invitations, Revokes(id) PROVE Seating'
    <2>1. invitations[id].status = "pending" /\ participants' = participants
      BY <1>1, RevokesTypes DEF Revokes
    <2>2. /\ DOMAIN invitations' = DOMAIN invitations
          /\ \A i \in DOMAIN invitations :
                /\ invitations'[i].person = invitations[i].person
                /\ invitations'[i].status = IF i = id THEN "revoked"
                                                      ELSE invitations[i].status
      BY <1>1, ResolveTypes DEF Revokes, Outcomes
    <2> QED
      BY <2>1, <2>2, QuietSeating
  <1>2. ASSUME NEW i \in DOMAIN invitations, Lapse(i) PROVE Seating'
    <2>1. /\ DOMAIN invitations' = DOMAIN invitations
          /\ \A j \in DOMAIN invitations :
                /\ invitations'[j].person = invitations[j].person
                /\ invitations'[j].status = invitations[j].status
          /\ participants' = participants
      BY <1>2, LapseTypes DEF Lapse
    <2> QED
      BY <2>1, QuietSeating
  <1>3. ASSUME NEW p \in People, Ban(p) PROVE Seating'
    <2>1. /\ invitations' = invitations
          /\ \A q \in People :
                /\ participants'[q] = NoRow <=> participants[q] = NoRow
                /\ participants[q] # NoRow =>
                      participants'[q].order = participants[q].order
      BY <1>3, BanTypes DEF Ban
    <2> QED
      BY <2>1, QuietSeating
  <1>4. ASSUME UNCHANGED <<invitations, participants>> PROVE Seating'
    BY <1>4, QuietSeating
  <1> QED
    BY <1>1, <1>2, <1>3, <1>4, InvitesSeating, AcceptsSeating
       DEF StoreStep, Writes, Rotates, Starts, store

LEMMA SeatingInit ==
    ASSUME Init
    PROVE  Seating
  BY DEF Init, Seating

LEMMA OneSeatFromSeating ==
    ASSUME Base, Seating
    PROVE  OneSeatPerPerson
  <1>1. ASSUME NEW p \in People,
               NEW A, A = {i \in DOMAIN invitations :
                             invitations[i].person = p /\ invitations[i].status = "accepted"}
        PROVE  Cardinality(A) = IF participants[p] = NoRow THEN 0 ELSE 1
    <2>1. CASE participants[p] = NoRow
      <3>1. A = {}
        BY <1>1, <2>1 DEF Seating
      <3> QED
        BY <2>1, <3>1, FS_EmptySet
    <2>2. CASE participants[p] # NoRow
      <3>1. PICK i \in DOMAIN invitations :
                   invitations[i].person = p /\ invitations[i].status = "accepted"
        BY <2>2 DEF Seating
      <3>2. A = {i}
        BY <1>1, <3>1 DEF Seating
      <3> QED
        BY <2>2, <3>2, FS_Singleton
    <2> QED
      BY <2>1, <2>2
  <1>2. ASSUME NEW p \in People,
               NEW A, A = {i \in DOMAIN invitations :
                             invitations[i].person = p /\ invitations[i].status = "pending"}
        PROVE  Cardinality(A) <= 1
    <2>1. CASE A = {}
      BY <2>1, FS_EmptySet
    <2>2. ASSUME NEW i \in A PROVE Cardinality(A) <= 1
      <3>1. \A j \in A : j = i
        <4> SUFFICES ASSUME NEW j \in A PROVE j = i
          OBVIOUS
        <4>1. /\ i \in DOMAIN invitations /\ j \in DOMAIN invitations
              /\ invitations[i].person = p /\ invitations[j].person = p
              /\ invitations[i].status = "pending" /\ invitations[j].status = "pending"
          BY <1>2, <2>2
        <4> QED
          BY <4>1 DEF Seating
      <3>2. A = {i}
        BY <2>2, <3>1
      <3> QED
        BY <3>2, FS_Singleton, SMTT(30)
    <2> QED
      BY <2>1, <2>2
  <1>3. \A p, q \in People :
           p # q /\ participants[p] # NoRow /\ participants[q] # NoRow
              => participants[p].order # participants[q].order
    BY DEF Seating
  <1> QED
    BY <1>1, <1>2, <1>3 DEF OneSeatPerPerson

\* A person takes a seat by accepting exactly one invitation, has at most one open
\* invitation, and no two people share an order, whoever races with whom.
THEOREM OneSeatEach == Spec => []OneSeatPerPerson
  <1>1. Base /\ Seating /\ [Next]_vars => (Base /\ Seating)'
    BY BaseStep, StepOfStore, SeatingStep
  <1> QED
    BY <1>1, BaseInit, SeatingInit, OneSeatFromSeating, PTL DEF Spec

-----------------------------------------------------------------------------
(***************************************************************************)
(* The view follows rows and log                                           *)
(***************************************************************************)

\* Pruning loses only a revoked invitation.
LEMMA PrunedFaithful ==
    ASSUME NEW entries \in Seq(Entries), Faithful(entries)
    PROVE  Faithful(Pruned(entries))
  <1> DEFINE rest == Pruned(entries)
  <1>1. CASE rest = entries
    BY <1>1
  <1>2. ASSUME NEW k \in DOMAIN entries, entries[k].status = "revoked",
               Len(rest) = Len(entries) - 1, rest \in Seq(Entries),
               \A n \in DOMAIN rest : rest[n] = IF n < k THEN entries[n] ELSE entries[n + 1]
        PROVE  Faithful(rest)
    <2> HIDE DEF rest
    <2>1. /\ DOMAIN entries = 1..Len(entries) /\ Len(entries) \in Nat
          /\ DOMAIN rest = 1..(Len(entries) - 1)
      BY <1>2
    <2>2. \A n \in DOMAIN rest : n \in DOMAIN entries /\ n + 1 \in DOMAIN entries
      BY <2>1
    <2>3. ASSUME NEW n \in DOMAIN rest
          PROVE  /\ rest[n].id \in DOMAIN invitations
                 /\ rest[n].status = invitations[rest[n].id].status
      BY <1>2, <2>2 DEF Faithful
    <2>4. ASSUME NEW m \in DOMAIN rest, NEW n \in DOMAIN rest, rest[m].id = rest[n].id
          PROVE  m = n
      <3> DEFINE at(x) == IF x < k THEN x ELSE x + 1
      <3>1. /\ at(m) \in DOMAIN entries /\ at(n) \in DOMAIN entries
            /\ rest[m] = entries[at(m)] /\ rest[n] = entries[at(n)]
        BY <1>2, <2>2
      <3>2. at(m) = at(n)
        BY <2>4, <3>1 DEF Faithful
      <3> QED
        BY <2>1, <3>2
    <2>5. ASSUME NEW i \in DOMAIN invitations, invitations[i].status # "revoked"
          PROVE  \E n \in DOMAIN rest : rest[n].id = i
      <3>1. PICK n \in DOMAIN entries : entries[n].id = i
        BY <2>5 DEF Faithful
      <3>2. n # k
        BY <1>2, <2>5, <3>1 DEF Faithful
      <3>3. CASE n < k
        <4>1. n \in DOMAIN rest /\ rest[n] = entries[n]
          BY <1>2, <2>1, <3>3
        <4> QED
          BY <3>1, <4>1
      <3>4. CASE ~(n < k)
        <4>1. n - 1 \in DOMAIN rest /\ ~(n - 1 < k) /\ (n - 1) + 1 = n
          BY <2>1, <3>2, <3>4
        <4>2. rest[n - 1] = entries[n]
          BY <1>2, <4>1
        <4> QED
          BY <3>1, <4>1, <4>2
      <3> QED
        BY <3>3, <3>4
    <2> QED
      BY <2>3, <2>4, <2>5 DEF Faithful
  <1> QED
    BY <1>1, <1>2, PruningDropsOne

\* A new invitation gets an entry of its own.
LEMMA AppendedFaithful ==
    ASSUME NEW entries \in Seq(Entries), Faithful(entries), NEW new,
           new \notin DOMAIN invitations, NEW entry, entry \in Entries,
           entry.id = new, entry.status = "pending",
           DOMAIN invitations' = (DOMAIN invitations) \union {new},
           \A i \in DOMAIN invitations : invitations'[i].status = invitations[i].status,
           invitations'[new].status = "pending"
    PROVE  Faithful(Append(entries, entry))'
  <1> DEFINE list == Append(entries, entry)
             last == Len(entries) + 1
  <1>1. /\ DOMAIN list = (DOMAIN entries) \union {last} /\ last \notin DOMAIN entries
        /\ \A n \in DOMAIN entries : list[n] = entries[n]
        /\ list[last] = entry
    OBVIOUS
  <1> HIDE DEF list, last
  <1>2. ASSUME NEW n \in DOMAIN list
        PROVE  /\ list[n].id \in DOMAIN invitations'
               /\ list[n].status = invitations'[list[n].id].status
    BY <1>1 DEF Faithful
  <1>3. ASSUME NEW m \in DOMAIN list, NEW n \in DOMAIN list, list[m].id = list[n].id
        PROVE  m = n
    BY <1>1, <1>3 DEF Faithful
  <1>4. ASSUME NEW i \in DOMAIN invitations', invitations'[i].status # "revoked"
        PROVE  \E n \in DOMAIN list : list[n].id = i
    BY <1>1, <1>4 DEF Faithful
  <1> QED
    BY <1>2, <1>3, <1>4 DEF Faithful, list

\* Resolving an invitation in its row and in its entry.
LEMMA ResolvedFaithful ==
    ASSUME NEW entries, Faithful(entries), NEW id \in DOMAIN invitations,
           NEW k \in DOMAIN entries, entries[k].id = id, NEW outcome,
           DOMAIN invitations' = DOMAIN invitations,
           \A i \in DOMAIN invitations :
              invitations'[i].status = IF i = id THEN outcome ELSE invitations[i].status,
           NEW list, DOMAIN list = DOMAIN entries,
           list[k] = [id |-> id, status |-> outcome],
           \A n \in DOMAIN entries \ {k} : list[n] = entries[n]
    PROVE  Faithful(list)'
  <1>1. list[k].id = id /\ list[k].status = outcome
    OBVIOUS
  <1>2. ASSUME NEW n \in DOMAIN list
        PROVE  /\ list[n].id \in DOMAIN invitations'
               /\ list[n].status = invitations'[list[n].id].status
    BY <1>1 DEF Faithful
  <1>3. \A n \in DOMAIN list : list[n].id = entries[n].id
    BY <1>1
  <1>4. ASSUME NEW i \in DOMAIN invitations', invitations'[i].status # "revoked"
        PROVE  \E n \in DOMAIN list : list[n].id = i
    <2>1. CASE i = id
      BY <1>1, <2>1
    <2>2. CASE i # id
      BY <1>3, <1>4, <2>2 DEF Faithful
    <2> QED
      BY <2>1, <2>2
  <1>5. \A m, n \in DOMAIN list : list[m].id = list[n].id => m = n
    BY <1>3 DEF Faithful
  <1> QED
    BY <1>2, <1>4, <1>5 DEF Faithful

LEMMA SameFaithful ==
    ASSUME NEW entries, Faithful(entries),
           DOMAIN invitations' = DOMAIN invitations,
           \A i \in DOMAIN invitations : invitations'[i].status = invitations[i].status
    PROVE  Faithful(entries)'
  BY DEF Faithful

LEMMA InvitesFollowed ==
    ASSUME Base, ViewFollowsRows, NEW p \in People, Invites(p)
    PROVE  ViewFollowsRows'
  <1> DEFINE new == Len(invitations) + 1
             entry == [id |-> new, status |-> "pending"]
             entries == Pruned(ViewNow.invitations)
  <1>1. /\ view' \in KnownViews
        /\ view'.participants = ViewNow.participants
        /\ view'.invitations = Append(entries, entry)
    BY InvitesView DEF Base
  <1>2. ViewNow' = view'
    BY <1>1, NullAssumption DEF KnownViews, ViewNow
  <1>3. entries \in Seq(Entries) /\ Faithful(entries)
    BY ViewNowType, PruningDropsOne, PrunedFaithful DEF ViewFollowsRows, Base
  <1>4. /\ DOMAIN invitations' = (DOMAIN invitations) \union {new}
        /\ \A i \in DOMAIN invitations : invitations'[i] = invitations[i]
        /\ invitations'[new] = [person |-> p, lapsed |-> FALSE, status |-> "pending"]
    BY InvitesTypes
  <1>5. invitations'[new].status = "pending" /\ new \notin DOMAIN invitations
    BY <1>4 DEF Base, Types
  <1>6. entry \in Entries /\ entry.id = new /\ entry.status = "pending"
    BY DEF Invites, Entries, Outcomes
  <1> HIDE DEF new, entry, entries
  <1>7. ASSUME NEW list, list = view'.invitations PROVE Faithful(list)'
    <2>1. PICK s, e, n : s = entries /\ e = entry /\ n = new
      OBVIOUS
    <2>2. Faithful(Append(s, e))'
      BY <1>3, <1>4, <1>5, <1>6, <2>1, AppendedFaithful
    <2>3. list = Append(s, e)
      BY <1>1, <1>7, <2>1
    <2> QED
      BY <2>2, <2>3
  <1>8. SeatsInLog' = SeatsInLog
    BY InvitesNames
  <1> QED
    BY <1>1, <1>2, <1>7, <1>8 DEF ViewFollowsRows, Faithful

LEMMA AcceptsFollowed ==
    ASSUME Base, ViewFollowsRows, NEW id \in DOMAIN invitations, NEW person \in People,
           NEW order \in Orders, Accepts(id, person, order)
    PROVE  ViewFollowsRows'
  <1> DEFINE k == EntryOf(view, id)
  <1>1. /\ view # NoView /\ view' \in KnownViews
        /\ k \in DOMAIN view.invitations /\ view.invitations[k].id = id
        /\ view'.participants
              = view.participants \union {[person |-> person, order |-> order]}
        /\ view'.invitations
              = [view.invitations EXCEPT ![k] = [id |-> id, status |-> "accepted"]]
    BY AcceptsView DEF Base
  <1>2. ViewNow = view /\ ViewNow' = view'
    BY <1>1, NullAssumption DEF KnownViews, ViewNow
  <1>3. /\ DOMAIN invitations' = DOMAIN invitations
        /\ \A i \in DOMAIN invitations :
              invitations'[i].status = IF i = id THEN "accepted" ELSE invitations[i].status
    BY ResolveTypes DEF Accepts, Outcomes
  <1> HIDE DEF k
  <1>4. /\ DOMAIN view'.invitations = DOMAIN view.invitations
        /\ view'.invitations[k] = [id |-> id, status |-> "accepted"]
        /\ \A n \in DOMAIN view.invitations \ {k} :
              view'.invitations[n] = view.invitations[n]
    BY <1>1
  <1>5. ASSUME NEW list, list = view'.invitations PROVE Faithful(list)'
    BY <1>1, <1>2, <1>3, <1>4, <1>5, ResolvedFaithful DEF ViewFollowsRows
  <1>6. SeatsInLog' = SeatsInLog \union {[person |-> person, order |-> order]}
    BY AcceptsNames
  <1> QED
    BY <1>1, <1>2, <1>5, <1>6 DEF ViewFollowsRows, Faithful

LEMMA RevokesFollowed ==
    ASSUME Base, ViewFollowsRows, NEW id \in DOMAIN invitations, Revokes(id)
    PROVE  ViewFollowsRows'
  <1> DEFINE k == EntryOf(view, id)
  <1>1. /\ view # NoView /\ view' \in KnownViews
        /\ k \in DOMAIN view.invitations /\ view.invitations[k].id = id
        /\ view'.participants = view.participants
        /\ view'.invitations
              = [view.invitations EXCEPT ![k] = [id |-> id, status |-> "revoked"]]
    BY RevokesView DEF Base
  <1>2. ViewNow = view /\ ViewNow' = view'
    BY <1>1, NullAssumption DEF KnownViews, ViewNow
  <1>3. /\ DOMAIN invitations' = DOMAIN invitations
        /\ \A i \in DOMAIN invitations :
              invitations'[i].status = IF i = id THEN "revoked" ELSE invitations[i].status
    BY ResolveTypes DEF Revokes, Outcomes
  <1> HIDE DEF k
  <1>4. /\ DOMAIN view'.invitations = DOMAIN view.invitations
        /\ view'.invitations[k] = [id |-> id, status |-> "revoked"]
        /\ \A n \in DOMAIN view.invitations \ {k} :
              view'.invitations[n] = view.invitations[n]
    BY <1>1
  <1>5. ASSUME NEW list, list = view'.invitations PROVE Faithful(list)'
    BY <1>1, <1>2, <1>3, <1>4, <1>5, ResolvedFaithful DEF ViewFollowsRows
  <1>6. SeatsInLog' = SeatsInLog
    BY RevokesNames
  <1> QED
    BY <1>1, <1>2, <1>5, <1>6 DEF ViewFollowsRows, Faithful

\* The rotation and the start keep participants and invitations of the view.
LEMMA SameViewFollowed ==
    ASSUME ViewFollowsRows, SeatsInLog' = SeatsInLog,
           DOMAIN invitations' = DOMAIN invitations,
           \A i \in DOMAIN invitations : invitations'[i].status = invitations[i].status,
           ViewNow'.participants = ViewNow.participants,
           ViewNow'.invitations = ViewNow.invitations
    PROVE  ViewFollowsRows'
  <1>1. ASSUME NEW list, list = ViewNow.invitations PROVE Faithful(list)'
    BY <1>1, SameFaithful DEF ViewFollowsRows
  <1> QED
    BY <1>1 DEF ViewFollowsRows, Faithful

LEMMA ViewFollowsRowsStep ==
    ASSUME Base, ViewFollowsRows, StoreStep
    PROVE  ViewFollowsRows'
  <1>1. ASSUME NEW plan \in SUBSET Assignments, Rotates(plan) PROVE ViewFollowsRows'
    <2>1. /\ view # NoView /\ view' \in KnownViews
          /\ view'.participants = view.participants
          /\ view'.invitations = view.invitations
      BY <1>1, RotatesView DEF Base
    <2>2. ViewNow = view /\ ViewNow' = view'
      BY <2>1, NullAssumption DEF KnownViews, ViewNow
    <2>3. SeatsInLog' = SeatsInLog /\ invitations' = invitations
      BY <1>1, SameNames DEF Rotates
    <2> QED
      BY <2>1, <2>2, <2>3, SameViewFollowed
  <1>2. ASSUME Starts PROVE ViewFollowsRows'
    <2>1. /\ view # NoView /\ view' \in KnownViews
          /\ view'.participants = view.participants
          /\ view'.invitations = view.invitations
      BY <1>2, StartsView DEF Base
    <2>2. ViewNow = view /\ ViewNow' = view'
      BY <2>1, NullAssumption DEF KnownViews, ViewNow
    <2>3. SeatsInLog' = SeatsInLog /\ invitations' = invitations
      BY <1>2, SameNames DEF Starts
    <2> QED
      BY <2>1, <2>2, <2>3, SameViewFollowed
  <1>3. ASSUME NEW i \in DOMAIN invitations, Lapse(i) PROVE ViewFollowsRows'
    <2>1. /\ DOMAIN invitations' = DOMAIN invitations
          /\ \A j \in DOMAIN invitations : invitations'[j].status = invitations[j].status
      BY <1>3, LapseTypes
    <2>2. UNCHANGED events /\ ViewNow' = ViewNow
      BY <1>3 DEF Lapse, ViewNow
    <2>3. SeatsInLog' = SeatsInLog
      BY <2>2, SameNames
    <2> QED
      BY <2>1, <2>2, <2>3, SameViewFollowed
  <1>4. ASSUME UNCHANGED <<invitations, events, view>> PROVE ViewFollowsRows'
    <2>1. ViewNow' = ViewNow /\ SeatsInLog' = SeatsInLog
      BY <1>4, SameNames DEF ViewNow
    <2> QED
      BY <1>4, <2>1, SameViewFollowed
  <1> QED
    BY <1>1, <1>2, <1>3, <1>4, InvitesFollowed, AcceptsFollowed, RevokesFollowed
       DEF StoreStep, Writes, Ban, store

LEMMA FollowInit ==
    ASSUME Init
    PROVE  RowsFollowLog /\ ViewFollowsRows
  <1>1. invitations = <<>> /\ DOMAIN invitations = {}
    BY DEF Init
  <1>2. DOMAIN events = {1} /\ events[1].type = "expedition.created"
    BY DEF Init
  <1>3. \A type : type # "expedition.created" => Occurrences(type) = {}
    BY <1>2 DEF Occurrences
  <1>4. /\ Occurrences("invitation.created") = {} /\ Occurrences("invitation.accepted") = {}
        /\ Occurrences("invitation.revoked") = {} /\ Occurrences("participant.added") = {}
    BY <1>3
  <1>5. /\ Named("invitation.created") = {} /\ Named("invitation.accepted") = {}
        /\ Named("invitation.revoked") = {} /\ SeatsInLog = {}
    BY <1>4 DEF Named, SeatsInLog
  <1>6. WithStatus("accepted") = {} /\ WithStatus("revoked") = {}
    BY <1>1 DEF WithStatus
  <1>7. SeatsOfRows = {}
    <2>1. \A p \in People : participants[p] = NoRow
      BY DEF Init
    <2> QED
      BY <2>1 DEF SeatsOfRows
  <1>8. ViewNow = InitialView
    BY DEF Init, ViewNow
  <1>9. ViewNow.participants = {} /\ ViewNow.invitations = <<>>
    BY <1>8 DEF InitialView
  <1>10. DOMAIN ViewNow.invitations = {}
    BY <1>9
  <1> QED
    BY <1>1, <1>5, <1>6, <1>7, <1>9, <1>10 DEF RowsFollowLog, ViewFollowsRows, Faithful

\* The three parts give the property: rows, view and log tell one story.
LEMMA StoryFromParts ==
    ASSUME Base, RowsFollowLog, ViewFollowsRows
    PROVE  RowsAndViewFollowLog
  <1>1. ASSUME NEW i \in DOMAIN invitations
        PROVE  invitations[i].status = StatusInLog(i)
    <2>1. invitations[i].status \in Outcomes
      BY RowTypes DEF Base
    <2>2. /\ (\E n \in Occurrences("invitation.accepted") : events[n].invitation = i)
                <=> invitations[i].status = "accepted"
          /\ (\E n \in Occurrences("invitation.revoked") : events[n].invitation = i)
                <=> invitations[i].status = "revoked"
      BY DEF RowsFollowLog, Named, WithStatus
    <2> QED
      BY <2>1, <2>2 DEF StatusInLog, Outcomes
  <1>2. ASSUME view # NoView, NEW i \in DOMAIN invitations
        PROVE  IF EntryOf(view, i) = 0
               THEN StatusInLog(i) = "revoked"
               ELSE view.invitations[EntryOf(view, i)].status = StatusInLog(i)
    <2>1. view \in Views /\ ViewNow = view
      BY <1>2 DEF Base, Types, KnownViews, ViewNow
    <2>2. CASE EntryOf(view, i) = 0
      <3>1. \A n \in DOMAIN view.invitations : view.invitations[n].id # i
        BY <2>1, <2>2, EntryFound
      <3> QED
        BY <1>1, <2>1, <2>2, <3>1 DEF ViewFollowsRows, Faithful
    <2>3. CASE EntryOf(view, i) # 0
      <3>1. /\ EntryOf(view, i) \in DOMAIN view.invitations
            /\ view.invitations[EntryOf(view, i)].id = i
        BY <2>1, <2>3, EntryFound
      <3> QED
        BY <1>1, <2>1, <2>3, <3>1 DEF ViewFollowsRows, Faithful
    <2> QED
      BY <2>2, <2>3
  <1>3. view # NoView => view.participants = SeatsInLog
    BY DEF ViewFollowsRows, ViewNow
  <1> QED
    BY <1>1, <1>2, <1>3 DEF RowsAndViewFollowLog, RowsFollowLog, SeatsOfRows, Named

\* Replaying the log gives the rows, and the view but for revoked invitations that it
\* has pruned.
THEOREM OneStory == Spec => []RowsAndViewFollowLog
  <1> DEFINE Inv == Base /\ RowsFollowLog /\ ViewFollowsRows
  <1>1. Init => Inv
    BY BaseInit, FollowInit
  <1>2. Inv /\ [Next]_vars => Inv'
    BY BaseStep, StepOfStore, RowsFollowLogStep, ViewFollowsRowsStep
  <1>3. Inv => RowsAndViewFollowLog
    BY StoryFromParts
  <1> QED
    BY <1>1, <1>2, <1>3, PTL DEF Spec

-----------------------------------------------------------------------------
(***************************************************************************)
(* The plan                                                                *)
(***************************************************************************)

LEMMA SeatsFinite ==
    ASSUME Types
    PROVE  IsFiniteSet(SeatsInLog)
  <1> DEFINE O == Occurrences("participant.added")
             f == [n \in O |-> [person |-> events[n].person, order |-> events[n].order]]
  <1>1. Len(events) \in Nat /\ DOMAIN events = 1..Len(events)
    BY DEF Types
  <1>2. O \in SUBSET (1..Len(events))
    BY <1>1 DEF Occurrences
  <1>3. IsFiniteSet(O)
    <2>1. IsFiniteSet(1..Len(events))
      BY <1>1, FS_Interval
    <2> HIDE DEF O
    <2> QED
      BY <1>2, <2>1, FS_Subset
  <1>4. f \in Surjection(O, SeatsInLog)
    BY DEF Surjection, SeatsInLog
  <1> HIDE DEF f, O
  <1> QED
    BY <1>3, <1>4, FS_Surjection

\* A plan has one assignment per seat, with the person and the role of the seat.
LEMMA PlanOfSeats ==
    ASSUME NEW v, IsFiniteSet(v.participants)
    PROVE  /\ IsFiniteSet(RotationPlan(v))
           /\ Cardinality(RotationPlan(v)) <= Cardinality(v.participants)
           /\ {a.person : a \in RotationPlan(v)} = {seat.person : seat \in v.participants}
  <1> DEFINE captain == CHOOSE seat \in CaptainSeats(v) :
                           \A other \in CaptainSeats(v) : seat.order <= other.order
             a(seat) == [person |-> seat.person, onboard_role |-> OnboardRole(seat.order),
                         product_role |-> IF seat = captain THEN "product_captain"
                                                            ELSE "product_support"]
             f == [seat \in v.participants |-> a(seat)]
  <1>1. RotationPlan(v) = {a(seat) : seat \in v.participants}
    BY DEF RotationPlan
  <1>2. \A seat : a(seat).person = seat.person
    OBVIOUS
  <1> HIDE DEF a
  <1>3. f \in Surjection(v.participants, RotationPlan(v))
    BY <1>1 DEF Surjection
  <1> HIDE DEF f
  <1>4. /\ IsFiniteSet(RotationPlan(v))
        /\ Cardinality(RotationPlan(v)) <= Cardinality(v.participants)
    BY <1>3, FS_Surjection
  <1>5. {x.person : x \in RotationPlan(v)} = {seat.person : seat \in v.participants}
    BY <1>1, <1>2
  <1> QED
    BY <1>4, <1>5

\* As many values of a field as elements: no two elements share one.
LEMMA DistinctPeople ==
    ASSUME NEW plan, IsFiniteSet(plan),
           Cardinality({a.person : a \in plan}) = Cardinality(plan)
    PROVE  \A a, b \in plan : a.person = b.person => a = b
  <1> DEFINE f == [a \in plan |-> a.person]
             T == {a.person : a \in plan}
  <1>1. f \in Surjection(plan, T)
    BY DEF Surjection
  <1>2. f \in Injection(plan, T)
    <2> HIDE DEF f
    <2> QED
      BY <1>1, FS_SurjSameCardinalityImpliesInj
  <1>3. DOMAIN f = plan
    OBVIOUS
  <1>4. \A a, b \in plan : f[a] = f[b] => a = b
    <2> HIDE DEF f, T
    <2> QED
      BY <1>2, <1>3 DEF Injection, IsInjective
  <1> QED
    BY <1>4

LEMMA DistinctRoles ==
    ASSUME NEW plan, IsFiniteSet(plan),
           Cardinality({a.onboard_role : a \in plan}) = Cardinality(plan)
    PROVE  \A a, b \in plan : a.onboard_role = b.onboard_role => a = b
  <1> DEFINE f == [a \in plan |-> a.onboard_role]
             T == {a.onboard_role : a \in plan}
  <1>1. f \in Surjection(plan, T)
    BY DEF Surjection
  <1>2. f \in Injection(plan, T)
    <2> HIDE DEF f
    <2> QED
      BY <1>1, FS_SurjSameCardinalityImpliesInj
  <1>3. DOMAIN f = plan
    OBVIOUS
  <1>4. \A a, b \in plan : f[a] = f[b] => a = b
    <2> HIDE DEF f, T
    <2> QED
      BY <1>2, <1>3 DEF Injection, IsInjective
  <1> QED
    BY <1>4

\* A plan that fits a team, with a role for each, is good.
LEMMA FittingPlanIsGood ==
    ASSUME NEW plan \in SUBSET Assignments, IsFiniteSet(plan), NEW team,
           PlanFits(plan, team),
           Cardinality({a.onboard_role : a \in plan}) = Cardinality(team)
    PROVE  GoodPlan(plan)
  <1> DEFINE captains == {a \in plan : a.product_role = "product_captain"}
  <1>1. /\ Cardinality(plan) = Cardinality(team)
        /\ {a.person : a \in plan} = team
        /\ Cardinality(captains) = 1
        /\ \A a \in plan : a.onboard_role = Cook => a.product_role = "product_support"
    BY DEF PlanFits
  <1>2. \A a, b \in plan :
           a # b => a.person # b.person /\ a.onboard_role # b.onboard_role
    BY <1>1, DistinctPeople, DistinctRoles
  <1>3. PICK captain : captains = {captain}
    BY <1>1, FS_Subset, FS_Singleton
  <1>4. /\ captain \in plan /\ captain.product_role = "product_captain"
        /\ \A b \in plan \ {captain} : b.product_role # "product_captain"
    BY <1>3
  <1> QED
    BY <1>1, <1>2, <1>4 DEF GoodPlan

LEMMA RotatesPlanned ==
    ASSUME Base, ViewFollowsRows, NEW plan \in SUBSET Assignments, Rotates(plan)
    PROVE  Planned'
  <1>1. /\ view # NoView /\ view' \in KnownViews
        /\ view'.participants = view.participants /\ view'.rotation = plan
    BY RotatesView DEF Base
  <1>2. /\ MayRotate(plan) /\ plan = RotationPlan(view)
        /\ Cardinality(view.participants) \in TeamMin..TeamMax
        /\ invitations' = invitations /\ participants' = participants
        /\ status' = "ready"
    BY DEF Rotates, GenerateAllowed, GenerateControl, CurrentContext
  <1>3. IsFiniteSet(view.participants)
    BY <1>1, SeatsFinite DEF ViewFollowsRows, ViewNow, Base
  <1>4. /\ IsFiniteSet(plan)
        /\ {a.person : a \in plan} = {seat.person : seat \in view.participants}
    BY <1>2, <1>3, PlanOfSeats
  <1>5. /\ PendingIds = {} /\ Occurrences("rotation.generated") = {}
        /\ PlanFits(plan, ActivePeople)
        /\ Cardinality({a.onboard_role : a \in plan}) = Cardinality(ActivePeople)
    BY <1>2 DEF MayRotate, TeamComplete
  <1>6. GoodPlan(plan)
    BY <1>4, <1>5, FittingPlanIsGood
  <1>7. PlanFits(plan, {seat.person : seat \in view.participants})
    BY <1>4, <1>5 DEF PlanFits
  <1>8. /\ Occurrences("rotation.generated")' = {Len(events) + 1}
        /\ events'[Len(events) + 1].plan = plan
    BY <1>5, RotatesLog
  <1>9. PendingIds' = {} /\ view' # NoView
    BY <1>1, <1>2, <1>5, NullAssumption DEF PendingIds, KnownViews
  <1> QED
    BY <1>1, <1>2, <1>6, <1>7, <1>8, <1>9 DEF Planned

\* While the Expedition is a draft, no write but the rotation makes a plan.
LEMMA DraftStaysUnplanned ==
    ASSUME Planned, status = "draft", status' = "draft",
           ViewNow'.rotation = ViewNow.rotation
    PROVE  Planned'
  BY DEF Planned

LEMMA PlannedStep ==
    ASSUME Base, ViewFollowsRows, Planned, StoreStep
    PROVE  Planned'
  <1>1. ASSUME NEW p \in People, Invites(p) PROVE Planned'
    <2>1. /\ view' \in KnownViews /\ view'.rotation = ViewNow.rotation
          /\ status = "draft" /\ status' = "draft"
      BY <1>1, InvitesView, InvitesTypes DEF Base
    <2>2. ViewNow' = view'
      BY <2>1, NullAssumption DEF KnownViews, ViewNow
    <2> QED
      BY <2>1, <2>2, DraftStaysUnplanned
  <1>2. ASSUME NEW id \in DOMAIN invitations, NEW person \in People, NEW order \in Orders,
               Accepts(id, person, order)
        PROVE  Planned'
    <2>1. /\ view # NoView /\ view' \in KnownViews /\ view'.rotation = view.rotation
      BY <1>2, AcceptsView DEF Base
    <2>2. ViewNow' = view' /\ ViewNow = view
      BY <2>1, NullAssumption DEF KnownViews, ViewNow
    <2>3. status = "draft" /\ status' = "draft"
      BY <1>2, AcceptsTypes
    <2> QED
      BY <2>1, <2>2, <2>3, DraftStaysUnplanned
  <1>3. ASSUME NEW id \in DOMAIN invitations, Revokes(id) PROVE Planned'
    <2>1. /\ view # NoView /\ view' \in KnownViews /\ view'.rotation = view.rotation
      BY <1>3, RevokesView DEF Base
    <2>2. ViewNow' = view' /\ ViewNow = view
      BY <2>1, NullAssumption DEF KnownViews, ViewNow
    <2>3. status = "draft" /\ status' = "draft"
      BY <1>3, RevokesTypes
    <2> QED
      BY <2>1, <2>2, <2>3, DraftStaysUnplanned
  <1>4. ASSUME Starts PROVE Planned'
    <2>1. /\ view # NoView /\ view' \in KnownViews
          /\ view'.participants = view.participants /\ view'.rotation = view.rotation
      BY <1>4, StartsView DEF Base
    <2>2. view' # NoView
      BY <2>1, NullAssumption DEF KnownViews
    <2>3. status = "ready" /\ status' = "active"
      BY <1>4, StartsTypes
    <2>4. PendingIds' = PendingIds
      BY <1>4 DEF Starts, PendingIds
    <2>5. /\ Occurrences("rotation.generated")' = Occurrences("rotation.generated")
          /\ Occurrences("rotation.generated") \subseteq DOMAIN events
          /\ \A n \in DOMAIN events : events'[n] = events[n]
      BY <1>4, StartsLog
    <2>6. /\ PendingIds = {} /\ GoodPlan(view.rotation)
          /\ Cardinality(view.participants) \in TeamMin..TeamMax
          /\ PlanFits(view.rotation, {seat.person : seat \in view.participants})
          /\ \A n \in Occurrences("rotation.generated") : events[n].plan = view.rotation
      BY <2>3 DEF Planned
    <2> QED
      BY <2>1, <2>2, <2>3, <2>4, <2>5, <2>6 DEF Planned
  <1>5. ASSUME UNCHANGED <<status, events, view>>, PendingIds' = PendingIds
        PROVE  Planned'
    <2>1. ViewNow' = ViewNow /\ Occurrences("rotation.generated")'
                                  = Occurrences("rotation.generated")
      BY <1>5 DEF ViewNow, Occurrences
    <2> QED
      BY <1>5, <2>1 DEF Planned
  <1>6. ASSUME NEW i \in DOMAIN invitations, Lapse(i) PROVE Planned'
    BY <1>5, <1>6, LapseTeam DEF Lapse
  <1>7. ASSUME NEW p \in People, Ban(p) PROVE Planned'
    BY <1>5, <1>7, BanTeam DEF Ban
  <1>8. ASSUME UNCHANGED store PROVE Planned'
    BY <1>5, <1>8, SameTeam DEF store
  <1> QED
    BY <1>1, <1>2, <1>3, <1>4, <1>6, <1>7, <1>8, RotatesPlanned DEF StoreStep, Writes

LEMMA PlannedInit ==
    ASSUME Init
    PROVE  Planned
  BY DEF Init, Planned, ViewNow, InitialView

-----------------------------------------------------------------------------
(***************************************************************************)
(* The invariant, and the properties of steps                              *)
(***************************************************************************)

LEMMA IInvInit ==
    ASSUME Init
    PROVE  IInv
  BY BaseInit, OneTimeEventsInit, FollowInit, SeatingInit, CapacityInit, PlannedInit
     DEF IInv

LEMMA IInvStep ==
    ASSUME IInv, [Next]_vars
    PROVE  IInv'
  <1>1. StoreStep /\ Base'
    BY StepOfStore, BaseStep DEF IInv
  <1> QED
    BY <1>1, OneTimeEventsStep, RowsFollowLogStep, ViewFollowsRowsStep, SeatingStep,
       CapacityStep, PlannedStep DEF IInv

\* The inductive invariant: log, rows, view, seats, capacity and plan agree, whatever
\* invocations interleave.
THEOREM Inductive == Spec => []IInv
  BY IInvInit, IInvStep, PTL DEF Spec

\* From the rotation on, no step changes an invitation, a seat or an assignment.
THEOREM TeamIsFrozen == Spec => TeamFrozenAfterRotation
  <1>1. ASSUME IInv, [Next]_vars, status # "draft"
        PROVE  /\ invitations' = invitations
               /\ \A p \in People : (participants[p] = NoRow) <=> (participants'[p] = NoRow)
               /\ view'.participants = view.participants
               /\ view'.rotation = view.rotation
    <2>1. StoreStep
      BY <1>1, StepOfStore DEF IInv
    <2>2. /\ \A p \in People : ~Invites(p)
          /\ \A id, person, order : ~Accepts(id, person, order)
          /\ \A id : ~Revokes(id)
          /\ \A plan : ~Rotates(plan)
      BY <1>1 DEF Invites, MayInvite, Accepts, MayAccept, Revokes, MayRevoke,
                  Rotates, MayRotate
    <2>3. \A i : ~Lapse(i)
      BY <1>1 DEF IInv, Planned, Lapse
    <2>4. CASE Starts
      <3>1. /\ view'.participants = view.participants
            /\ view'.rotation = view.rotation
        BY <1>1, <2>4, StartsView DEF IInv, Base
      <3> QED
        BY <2>4, <3>1 DEF Starts
    <2>5. ASSUME NEW p \in People, Ban(p)
          PROVE  /\ UNCHANGED <<invitations, view>>
                 /\ \A q \in People :
                       (participants[q] = NoRow) <=> (participants'[q] = NoRow)
      BY <1>1, <2>5, BanTypes DEF IInv, Ban
    <2>6. CASE UNCHANGED store
      BY <2>6 DEF store
    <2> QED
      BY <2>1, <2>2, <2>3, <2>4, <2>5, <2>6 DEF StoreStep, Writes
  <1>2. ASSUME IInv, [Next]_vars
        PROVE  [status # "draft" =>
                  /\ invitations' = invitations
                  /\ \A p \in People :
                        (participants[p] = NoRow) <=> (participants'[p] = NoRow)
                  /\ view'.participants = view.participants
                  /\ view'.rotation = view.rotation]_vars
    BY <1>1, <1>2
  <1> QED
    BY <1>2, Inductive, PTL DEF Spec, TeamFrozenAfterRotation

\* An Expedition starts with the very team its plan was made for.
THEOREM StartsAsPlanned == Spec => StartsWithPlannedTeam
  <1>1. ASSUME IInv, [Next]_vars, status # "active", status' = "active"
        PROVE  \E n \in Occurrences("rotation.generated") :
                  LET plan == events[n].plan
                  IN  /\ {a.person : a \in plan}
                            = {p \in People : participants[p] # NoRow
                                              /\ participants[p].status = "active"}
                      /\ \A a, b \in plan :
                            a # b => a.person # b.person
                                     /\ a.onboard_role # b.onboard_role
                      /\ \E a \in plan :
                            /\ a.product_role = "product_captain"
                            /\ a.onboard_role # Cook
                            /\ \A b \in plan \ {a} : b.product_role # "product_captain"
    <2>1. StoreStep
      BY <1>1, StepOfStore DEF IInv
    <2>2. Starts
      BY <1>1, <2>1 DEF StoreStep, Writes, store, Lapse, Ban, Invites, MayInvite, Accepts,
                        MayAccept, Revokes, MayRevoke, Rotates, MayRotate
    <2>3. /\ status = "ready"
          /\ PlanFits(view.rotation, ActivePeople)
      BY <2>2 DEF Starts, MayStart
    <2>4. PICK n : Occurrences("rotation.generated") = {n}
      BY <1>1, <2>3 DEF IInv, OneTimeEvents
    <2>5. events[n].plan = view.rotation /\ GoodPlan(view.rotation)
      BY <1>1, <2>3, <2>4 DEF IInv, Planned
    <2>6. {a.person : a \in view.rotation} = ActivePeople
      BY <2>3 DEF PlanFits
    <2> QED
      BY <2>4, <2>5, <2>6 DEF GoodPlan, ActivePeople
  <1> QED
    BY <1>1, Inductive, PTL DEF Spec, StartsWithPlannedTeam

-----------------------------------------------------------------------------
(***************************************************************************)
(* The controls of the view                                                *)
(***************************************************************************)

Unbanned == \A p \in People : participants[p] # NoRow => p \in ActivePeople

\* The image of a finite set is no larger.
LEMMA ImageIsNoLarger ==
    ASSUME NEW S, NEW T, IsFiniteSet(S), NEW f \in [S -> T],
           \A t \in T : \E s \in S : f[s] = t
    PROVE  /\ IsFiniteSet(T) /\ Cardinality(S) \in Nat /\ Cardinality(T) \in Nat
           /\ Cardinality(T) <= Cardinality(S)
  <1>1. f \in Surjection(S, T)
    BY DEF Surjection
  <1> QED
    BY <1>1, FS_Surjection, FS_CardinalityType

\* A one-to-one function needs as many values as arguments.
LEMMA OneToOneIsNoSmaller ==
    ASSUME NEW S, NEW T, IsFiniteSet(T), NEW f \in [S -> T],
           \A x, y \in S : f[x] = f[y] => x = y
    PROVE  /\ IsFiniteSet(S) /\ Cardinality(S) \in Nat /\ Cardinality(T) \in Nat
           /\ Cardinality(S) <= Cardinality(T)
  <1>1. f \in Injection(S, T)
    BY DEF Injection, IsInjective
  <1> QED
    BY <1>1, FS_Injection, FS_CardinalityType

\* The seats of the view are the rows, one per person and one per order.
LEMMA SeatsOfView ==
    ASSUME Base, RowsFollowLog, ViewFollowsRows, Seating, view # NoView
    PROVE  /\ view \in KnownViews /\ ViewNow = view
           /\ view.participants = SeatsOfRows
           /\ IsFiniteSet(view.participants)
           /\ view.participants \subseteq [person: People, order: Orders]
           /\ \A s, t \in view.participants :
                 s.person = t.person \/ s.order = t.order => s = t
  <1>1. view \in KnownViews /\ ViewNow = view
    BY DEF Base, Types, ViewNow
  <1>2. view.participants = SeatsOfRows /\ view.participants = SeatsInLog
    BY <1>1 DEF ViewFollowsRows, RowsFollowLog
  <1>3. IsFiniteSet(view.participants)
    BY <1>2, SeatsFinite DEF Base
  <1>4. view.participants \subseteq [person: People, order: Orders]
    BY <1>1, ViewNowType DEF Base
  <1>5. ASSUME NEW s \in view.participants, NEW t \in view.participants,
               s.person = t.person \/ s.order = t.order
        PROVE  s = t
    <2>1. PICK p \in People : /\ participants[p] # NoRow
                              /\ s = [person |-> p, order |-> participants[p].order]
      BY <1>2 DEF SeatsOfRows
    <2>2. PICK q \in People : /\ participants[q] # NoRow
                              /\ t = [person |-> q, order |-> participants[q].order]
      BY <1>2 DEF SeatsOfRows
    <2>3. p = q
      BY <1>5, <2>1, <2>2 DEF Seating
    <2> QED
      BY <2>1, <2>2, <2>3
  <1> QED
    BY <1>1, <1>2, <1>3, <1>4, <1>5

\* While nobody is banned the seats of the view are the team.
LEMMA TeamOfView ==
    ASSUME Base, RowsFollowLog, ViewFollowsRows, Seating, view # NoView, Unbanned
    PROVE  /\ {seat.person : seat \in view.participants} = ActivePeople
           /\ IsFiniteSet(ActivePeople)
           /\ Cardinality(ActivePeople) = Cardinality(view.participants)
           /\ Cardinality({participants[p].order : p \in ActivePeople})
                 = Cardinality(ActivePeople)
           /\ Cardinality({seat.order : seat \in view.participants})
                 = Cardinality(view.participants)
           /\ Cardinality(ActivePeople) \in Nat
  <1> DEFINE S == view.participants
             A == ActivePeople
             O == {participants[p].order : p \in A}
             f == [seat \in S |-> seat.person]
             g == [p \in A |-> [person |-> p, order |-> participants[p].order]]
             h == [seat \in S |-> seat.order]
             k == [p \in A |-> participants[p].order]
  <1>1. A = {p \in People : participants[p] # NoRow}
    BY DEF Unbanned, ActivePeople
  <1>2. S = {[person |-> p, order |-> participants[p].order] : p \in A}
    BY <1>1, SeatsOfView DEF SeatsOfRows
  <1>20. \A p \in A : \E seat \in S :
           seat.person = p /\ seat.order = participants[p].order
    <2> TAKE p \in A
    <2> DEFINE seat == [person |-> p, order |-> participants[p].order]
    <2>1. seat \in S
      BY <1>2
    <2>2. seat.person = p /\ seat.order = participants[p].order
      OBVIOUS
    <2> HIDE DEF seat, S, A
    <2> QED
      BY <2>1, <2>2
  <1>21. \A seat \in S : seat.person \in A /\ seat.order = participants[seat.person].order
    BY <1>2
  <1>3. {seat.person : seat \in S} = A
    <2> HIDE DEF S, A
    <2> QED
      BY <1>20, <1>21
  <1>4. IsFiniteSet(S)
    BY SeatsOfView
  <1>5. f \in [S -> A] /\ \A t \in A : \E s \in S : f[s] = t
    BY <1>3
  <1>6. IsFiniteSet(A) /\ Cardinality(A) <= Cardinality(S) /\ Cardinality(A) \in Nat
    <2> HIDE DEF f, S, A
    <2> QED
      BY <1>4, <1>5, ImageIsNoLarger
  <1>7. g \in [A -> S] /\ \A t \in S : \E s \in A : g[s] = t
    BY <1>2
  <1>8. Cardinality(S) <= Cardinality(A) /\ Cardinality(S) \in Nat
    <2> HIDE DEF g, S, A
    <2> QED
      BY <1>6, <1>7, ImageIsNoLarger
  <1>9. {seat.order : seat \in S} = O
    <2> HIDE DEF S, A
    <2> QED
      BY <1>20, <1>21
  <1>10. /\ \A p, q \in A : participants[p].order = participants[q].order => p = q
    BY <1>1 DEF Seating
  <1>11. k \in [A -> O] /\ \A t \in O : \E s \in A : k[s] = t
    OBVIOUS
  <1>12. \A p, q \in A : k[p] = k[q] => p = q
    BY <1>10
  <1>13. Cardinality(O) <= Cardinality(A) /\ Cardinality(O) \in Nat /\ IsFiniteSet(O)
    <2> HIDE DEF k, O, A
    <2> QED
      BY <1>6, <1>11, ImageIsNoLarger
  <1>14. Cardinality(A) <= Cardinality(O)
    <2> HIDE DEF k, O, A
    <2> QED
      BY <1>11, <1>12, <1>13, OneToOneIsNoSmaller
  <1> HIDE DEF S, A, O
  <1>15. Cardinality(A) = Cardinality(S) /\ Cardinality(O) = Cardinality(A)
    BY <1>6, <1>8, <1>13, <1>14
  <1>16. Cardinality({seat.order : seat \in S}) = Cardinality(S)
    BY <1>9, <1>15
  <1>17. Cardinality({participants[p].order : p \in A}) = Cardinality(A)
    BY <1>15 DEF O
  <1> QED
    BY <1>3, <1>6, <1>15, <1>16, <1>17 DEF S, A

\* The orders are taken from the lowest up: a team large enough has one whose onboard
\* role is not the cook's.
LEMMA SomebodyMayLead ==
    ASSUME Base, RowsFollowLog, ViewFollowsRows, Seating, view # NoView, Unbanned,
           Cardinality(view.participants) >= TeamMin
    PROVE  CaptainSeats(view) # {}
  <1> DEFINE O == {seat.order : seat \in view.participants}
  <1>1. PICK order \in 1..TeamMin : OnboardRoleCycle[order] # Cook
    BY LeaderAssumption
  <1>2. order \in Orders /\ order \in Nat
    BY PolicyAssumption DEF Orders
  <1>3. CASE order \in O
    <2>1. PICK seat \in view.participants : seat.order = order
      BY <1>3
    <2> QED
      BY <1>1, <1>2, <2>1, OnboardRoleType DEF CaptainSeats
  <1>4. CASE order \notin O
    <2>1. view.participants = SeatsOfRows
      BY SeatsOfView
    <2>2. order \in FreeOrders
      <3>1. ASSUME NEW p \in People, participants[p] # NoRow
            PROVE  participants[p].order # order
        <4>1. [person |-> p, order |-> participants[p].order] \in view.participants
          BY <2>1, <3>1 DEF SeatsOfRows
        <4>2. participants[p].order \in O
          BY <4>1
        <4> QED
          BY <1>4, <4>2
      <3> QED
        BY <1>2, <3>1 DEF FreeOrders
    <2>3. ASSUME NEW taken \in O
          PROVE  taken \in 1..(order - 1)
      <3>1. PICK p \in People : participants[p] # NoRow /\ participants[p].order = taken
        BY <2>1, <2>3 DEF SeatsOfRows
      <3>2. taken \in Orders
        BY SeatsOfView
      <3>3. ~(order < taken) /\ taken # order
        BY <1>2, <1>4, <2>2, <3>1 DEF Seating
      <3> QED
        BY <1>2, <3>2, <3>3, PolicyAssumption DEF Orders
    <2>4. O \in SUBSET (1..(order - 1))
      BY <2>3
    <2>5. IsFiniteSet(1..(order - 1)) /\ Cardinality(1..(order - 1)) = order - 1
      BY <1>2, FS_Interval
    <2>6. Cardinality(O) <= order - 1
      <3> HIDE DEF O
      <3> QED
        BY <2>4, <2>5, FS_Subset, ZenonT(30)
    <2>7. Cardinality(O) = Cardinality(view.participants)
      BY TeamOfView
    <2> QED
      BY <1>2, <2>6, <2>7, TeamOfView, PolicyAssumption
  <1> QED
    BY <1>3, <1>4

\* The plan has one Product Captain, who is not the cook.
LEMMA OneCaptain ==
    ASSUME NEW v, v.participants \subseteq [person: People, order: Orders],
           CaptainSeats(v) # {}
    PROVE  /\ Cardinality({a \in RotationPlan(v) : a.product_role = "product_captain"}) = 1
           /\ \A a \in RotationPlan(v) :
                 a.onboard_role = Cook => a.product_role = "product_support"
  <1> DEFINE captain == CHOOSE seat \in CaptainSeats(v) :
                           \A other \in CaptainSeats(v) : seat.order <= other.order
             a(seat) == [person |-> seat.person, onboard_role |-> OnboardRole(seat.order),
                         product_role |-> IF seat = captain THEN "product_captain"
                                                            ELSE "product_support"]
             Q == {seat.order : seat \in CaptainSeats(v)}
  <1>1. RotationPlan(v) = {a(seat) : seat \in v.participants}
    BY DEF RotationPlan
  <1>2. captain \in CaptainSeats(v)
    <2>1. Q \in SUBSET Nat /\ Q # {}
      BY PolicyAssumption DEF CaptainSeats, Orders
    <2>2. \E x \in Q : \A y \in Q : x <= y
      <3> HIDE DEF Q
      <3> QED
        BY <2>1, LeastElement
    <2>3. \E seat \in CaptainSeats(v) :
             \A other \in CaptainSeats(v) : seat.order <= other.order
      BY <2>2
    <2> QED
      BY <2>3
  <1> HIDE DEF captain
  <1>3. captain \in v.participants /\ OnboardRole(captain.order) # Cook
    BY <1>2 DEF CaptainSeats
  <1>4. /\ \A seat : a(seat).product_role = "product_captain" <=> seat = captain
        /\ \A seat : a(seat).product_role = "product_support" <=> seat # captain
        /\ \A seat : a(seat).onboard_role = OnboardRole(seat.order)
    OBVIOUS
  <1> HIDE DEF a
  <1>5. {x \in RotationPlan(v) : x.product_role = "product_captain"} = {a(captain)}
    BY <1>1, <1>3, <1>4
  <1>6. Cardinality({x \in RotationPlan(v) : x.product_role = "product_captain"}) = 1
    BY <1>5, FS_Singleton
  <1>7. ASSUME NEW x \in RotationPlan(v), x.onboard_role = Cook
        PROVE  x.product_role = "product_support"
    <2>1. PICK seat \in v.participants : x = a(seat)
      BY <1>1
    <2>2. seat # captain
      BY <1>3, <1>4, <1>7, <2>1
    <2> QED
      BY <1>4, <2>1, <2>2
  <1> QED
    BY <1>6, <1>7

\* The plan of the view fits the team.
LEMMA PlanFitsTeam ==
    ASSUME Base, RowsFollowLog, ViewFollowsRows, Seating, view # NoView, Unbanned,
           CaptainSeats(view) # {}
    PROVE  PlanFits(RotationPlan(view), ActivePeople)
  <1> DEFINE plan == RotationPlan(view)
             f == [a \in plan |-> a.person]
  <1>1. /\ view.participants \subseteq [person: People, order: Orders]
        /\ IsFiniteSet(view.participants)
    BY SeatsOfView
  <1>2. plan \in SUBSET Assignments
    BY <1>1, RotationPlanType
  <1>3. plan # NoRotation
    BY <1>2, NullAssumption
  <1>4. /\ IsFiniteSet(plan) /\ Cardinality(plan) <= Cardinality(view.participants)
        /\ {a.person : a \in plan} = {seat.person : seat \in view.participants}
    BY <1>1, PlanOfSeats
  <1>5. /\ {a.person : a \in plan} = ActivePeople
        /\ Cardinality(view.participants) = Cardinality(ActivePeople)
    BY <1>4, TeamOfView
  <1>6. /\ Cardinality({a \in plan : a.product_role = "product_captain"}) = 1
        /\ \A a \in plan : a.onboard_role = Cook => a.product_role = "product_support"
    BY <1>1, OneCaptain
  <1> HIDE DEF plan
  <1>7. f \in [plan -> ActivePeople] /\ \A t \in ActivePeople : \E s \in plan : f[s] = t
    BY <1>5
  <1> HIDE DEF f
  <1>8. /\ Cardinality(ActivePeople) <= Cardinality(plan)
        /\ Cardinality(plan) \in Nat /\ Cardinality(ActivePeople) \in Nat
    BY <1>4, <1>7, ImageIsNoLarger
  <1>9. Cardinality(plan) = Cardinality(ActivePeople)
    BY <1>4, <1>5, <1>8
  <1> QED
    BY <1>3, <1>5, <1>6, <1>9 DEF PlanFits, plan

\* The view counts the open invitations.
LEMMA PendingOfView ==
    ASSUME Base, ViewFollowsRows, view # NoView
    PROVE  /\ IsFiniteSet(PendingIn(view)) /\ Cardinality(PendingIn(view)) \in Nat
           /\ Cardinality(PendingIds) <= Cardinality(PendingIn(view))
           /\ PendingIn(view) = {} <=> PendingIds = {}
  <1> DEFINE P == PendingIn(view)
             f == [n \in P |-> view.invitations[n].id]
  <1>1. view \in KnownViews /\ ViewNow = view /\ view.invitations \in Seq(Entries)
    BY ViewNowType DEF Base, Types, ViewNow
  <1>2. Len(view.invitations) \in Nat /\ P \in SUBSET (1..Len(view.invitations))
    BY <1>1 DEF PendingIn
  <1>3. IsFiniteSet(P)
    <2>1. IsFiniteSet(1..Len(view.invitations))
      BY <1>2, FS_Interval
    <2> HIDE DEF P
    <2> QED
      BY <1>2, <2>1, FS_Subset
  <1>4. f \in [P -> PendingIds]
    BY <1>1 DEF PendingIn, PendingIds, ViewFollowsRows, Faithful
  <1>5. ASSUME NEW i \in PendingIds
        PROVE  \E n \in P : f[n] = i
    <2>1. i \in DOMAIN invitations /\ invitations[i].status = "pending"
      BY DEF PendingIds
    <2>2. PICK n \in DOMAIN view.invitations : view.invitations[n].id = i
      BY <1>1, <2>1 DEF ViewFollowsRows, Faithful
    <2>3. n \in P
      BY <1>1, <2>1, <2>2 DEF PendingIn, ViewFollowsRows, Faithful
    <2> QED
      BY <2>2, <2>3
  <1> HIDE DEF f, P
  <1>6. Cardinality(PendingIds) <= Cardinality(P) /\ Cardinality(P) \in Nat
    BY <1>3, <1>4, <1>5, ImageIsNoLarger
  <1> QED
    BY <1>3, <1>4, <1>5, <1>6 DEF P

\* Each accepted entry of the view has a seat of its own.
LEMMA AcceptedHaveSeats ==
    ASSUME Base, RowsFollowLog, ViewFollowsRows, Seating, view # NoView,
           NEW A, A = {n \in DOMAIN view.invitations : view.invitations[n].status = "accepted"}
    PROVE  /\ IsFiniteSet(A) /\ Cardinality(A) \in Nat
           /\ Cardinality(view.participants) \in Nat
           /\ Cardinality(A) <= Cardinality(view.participants)
  <1> DEFINE person(n) == invitations[view.invitations[n].id].person
             f == [n \in A |-> [person |-> person(n), order |-> participants[person(n)].order]]
  <1>1. ViewNow = view /\ view.participants = SeatsOfRows /\ IsFiniteSet(view.participants)
    BY SeatsOfView
  <1>2. ASSUME NEW n \in A
        PROVE  /\ view.invitations[n].id \in DOMAIN invitations
               /\ invitations[view.invitations[n].id].status = "accepted"
               /\ person(n) \in People /\ participants[person(n)] # NoRow
    <2>1. /\ view.invitations[n].id \in DOMAIN invitations
          /\ invitations[view.invitations[n].id].status = "accepted"
      BY <1>1 DEF ViewFollowsRows, Faithful
    <2>2. person(n) \in People
      BY <2>1, RowTypes DEF Base
    <2> QED
      BY <2>1, <2>2 DEF Seating
  <1>3. \A m, n \in A : person(m) = person(n) => m = n
    BY <1>1, <1>2 DEF Seating, ViewFollowsRows, Faithful
  <1> HIDE DEF person
  <1>4. f \in [A -> view.participants]
    BY <1>1, <1>2 DEF SeatsOfRows
  <1>5. \A n \in A : f[n].person = person(n)
    OBVIOUS
  <1> HIDE DEF f
  <1>6. \A m, n \in A : f[m] = f[n] => m = n
    BY <1>3, <1>5
  <1> QED
    BY <1>1, <1>4, <1>6, OneToOneIsNoSmaller

\* While a slot is free the list of the view has room, once it is pruned.
LEMMA RoomInList ==
    ASSUME Base, RowsFollowLog, ViewFollowsRows, Seating, view # NoView,
           OccupiedSlots(view) < TeamMax
    PROVE  Len(Pruned(view.invitations)) < TeamMax
  <1> DEFINE s == view.invitations
             A == {n \in DOMAIN s : s[n].status = "accepted"}
             P == PendingIn(view)
  <1>1. view \in KnownViews /\ s \in Seq(Entries) /\ Len(s) <= TeamMax /\ Len(s) \in Nat
    BY ViewNowType DEF Base, Types, ViewNow, KnownViews
  <1>2. TeamMax \in Nat
    BY PolicyAssumption
  <1>3. CASE \A n \in DOMAIN s : s[n].status # "revoked"
    <2>1. DOMAIN s = 1..Len(s) /\ DOMAIN s = P \union A /\ P \cap A = {}
      <3>1. DOMAIN s = 1..Len(s)
        BY <1>1
      <3>2. \A n \in DOMAIN s : s[n].status \in Outcomes
        BY <1>1, EntryTypes DEF KnownViews
      <3>3. P = {n \in DOMAIN s : s[n].status = "pending"}
        BY DEF PendingIn
      <3> HIDE DEF s, P
      <3> QED
        BY <1>3, <3>1, <3>2, <3>3 DEF Outcomes
    <2>2. /\ IsFiniteSet(A) /\ Cardinality(A) \in Nat
          /\ Cardinality(view.participants) \in Nat
          /\ Cardinality(A) <= Cardinality(view.participants)
      BY AcceptedHaveSeats
    <2>3. IsFiniteSet(P) /\ Cardinality(P) \in Nat
      BY PendingOfView
    <2>4. Cardinality(1..Len(s)) = Len(s)
      BY <1>1, FS_Interval
    <2>5. Cardinality(P) + Cardinality(view.participants) < TeamMax
      BY <2>2, <2>3 DEF OccupiedSlots
    <2> HIDE DEF P, A, s
    <2>6. Cardinality(P \union A) = Cardinality(P) + Cardinality(A)
      <3>1. Cardinality(P \union A)
               = Cardinality(P) + Cardinality(A) - Cardinality(P \cap A)
        BY <2>2, <2>3, FS_Union
      <3>2. Cardinality(P \cap A) = 0
        BY <2>1, FS_EmptySet
      <3> QED
        BY <2>2, <2>3, <3>1, <3>2
    <2>7. Len(s) < TeamMax
      BY <1>1, <1>2, <2>1, <2>2, <2>3, <2>4, <2>5, <2>6
    <2>8. Pruned(s) = s \/ Len(Pruned(s)) = Len(s) - 1
      BY <1>1, PruningDropsOne
    <2> QED
      BY <1>1, <1>2, <2>7, <2>8, PruningDropsOne DEF s
  <1>4. CASE \E n \in DOMAIN s : s[n].status = "revoked"
    <2> HIDE DEF s
    <2>1. \/ Pruned(s) = s /\ Len(s) < TeamMax
          \/ Len(Pruned(s)) = Len(s) - 1
      BY <1>1, <1>4, PruningDropsOne
    <2> QED
      BY <1>1, <1>2, <2>1 DEF s
  <1> QED
    BY <1>3, <1>4

LEMMA InviteControlHonest ==
    ASSUME IInv, view # NoView, Unbanned, InviteControl(view)
    PROVE  InviteAllowed(CurrentContext) /\ HasRoom
  <1>1. Base /\ RowsFollowLog /\ ViewFollowsRows /\ Seating
    BY DEF IInv
  <1>2. status = "draft" /\ OccupiedSlots(view) < TeamMax
    BY <1>1 DEF InviteControl, Base, SetupViewCurrent
  <1>3. Len(Pruned(view.invitations)) < TeamMax
    BY <1>1, <1>2, RoomInList
  <1>4. SetupContext(CurrentContext, "draft")
    BY <1>1, <1>2 DEF SetupContext, CurrentContext, Base, SetupViewCurrent
  <1>5. InviteAllowed(CurrentContext)
    BY <1>2, <1>3, <1>4 DEF InviteAllowed, CurrentContext
  <1>6. /\ Cardinality(PendingIds) <= Cardinality(PendingIn(view))
        /\ Cardinality(PendingIn(view)) \in Nat
    BY <1>1, PendingOfView
  <1>7. /\ Cardinality(ActivePeople) = Cardinality(view.participants)
        /\ Cardinality(ActivePeople) \in Nat
    BY <1>1, TeamOfView
  <1>8. Cardinality(PendingIds) \in Nat
    BY <1>1, PendingFinite DEF Base
  <1>9. HasRoom
    BY <1>2, <1>6, <1>7, <1>8, PolicyAssumption DEF HasRoom, OccupiedSlots
  <1> QED
    BY <1>5, <1>9

LEMMA GenerateControlHonest ==
    ASSUME IInv, view # NoView, Unbanned, GenerateControl(view)
    PROVE  /\ GenerateAllowed(CurrentContext)
           /\ TeamComplete
           /\ PlanFits(RotationPlan(view), ActivePeople)
  <1>1. Base /\ RowsFollowLog /\ ViewFollowsRows /\ Seating
    BY DEF IInv
  <1>2. status = "draft" /\ Cardinality(view.participants) \in TeamMin..TeamMax
    BY <1>1 DEF GenerateControl, Base, SetupViewCurrent
  <1>3. CaptainSeats(view) # {}
    BY <1>1, <1>2, SomebodyMayLead
  <1>4. SetupContext(CurrentContext, "draft")
    BY <1>1, <1>2 DEF SetupContext, CurrentContext, Base, SetupViewCurrent
  <1>5. Cardinality({seat.order : seat \in view.participants})
           = Cardinality(view.participants)
    BY <1>1, TeamOfView
  <1>6. GenerateAllowed(CurrentContext)
    BY <1>3, <1>4, <1>5 DEF GenerateAllowed, CurrentContext
  <1>7. PendingIds = {}
    BY <1>1, PendingOfView DEF GenerateControl
  <1>8. TeamComplete
    BY <1>1, <1>2, <1>7, TeamOfView DEF TeamComplete
  <1> QED
    BY <1>1, <1>3, <1>6, <1>8, PlanFitsTeam

LEMMA StartControlHonest ==
    ASSUME IInv, view # NoView, Unbanned, StartControl(view)
    PROVE  /\ StartAllowed(CurrentContext)
           /\ TeamComplete
           /\ PlanFits(view.rotation, ActivePeople)
  <1>1. Base /\ RowsFollowLog /\ ViewFollowsRows /\ Seating /\ Planned
    BY DEF IInv
  <1>2. status = "ready"
    BY <1>1 DEF StartControl, Base, SetupViewCurrent
  <1>3. /\ PendingIds = {}
        /\ Cardinality(view.participants) \in TeamMin..TeamMax
        /\ PlanFits(view.rotation, {seat.person : seat \in view.participants})
    BY <1>1, <1>2 DEF Planned
  <1>4. SetupContext(CurrentContext, "ready")
    BY <1>1, <1>2 DEF SetupContext, CurrentContext, Base, SetupViewCurrent
  <1>5. PendingIn(view) = {}
    BY <1>1, <1>3, PendingOfView
  <1>6. StartAllowed(CurrentContext)
    BY <1>3, <1>4, <1>5 DEF StartAllowed, CurrentContext
  <1>7. TeamComplete
    BY <1>1, <1>3, TeamOfView DEF TeamComplete
  <1>8. PlanFits(view.rotation, ActivePeople)
    BY <1>1, <1>3, TeamOfView
  <1> QED
    BY <1>6, <1>7, <1>8

\* Every pending invitation has a pending entry in the view.
LEMMA PendingIsListed ==
    ASSUME Base, ViewFollowsRows, view # NoView, NEW i \in PendingIds
    PROVE  PendingEntry(view, i)
  <1>1. view \in KnownViews /\ ViewNow = view
    BY DEF Base, Types, ViewNow
  <1>2. i \in DOMAIN invitations /\ invitations[i].status = "pending"
    BY DEF PendingIds
  <1>3. \E n \in DOMAIN view.invitations : view.invitations[n].id = i
    BY <1>1, <1>2 DEF ViewFollowsRows, Faithful
  <1>4. /\ EntryOf(view, i) \in DOMAIN view.invitations /\ EntryOf(view, i) # 0
        /\ view.invitations[EntryOf(view, i)].id = i
    BY <1>1, <1>3, EntryFound DEF KnownViews
  <1>5. view.invitations[EntryOf(view, i)].status = "pending"
    BY <1>1, <1>2, <1>4 DEF ViewFollowsRows, Faithful
  <1> QED
    BY <1>4, <1>5 DEF PendingEntry

LEMMA RevokeControlGrantedUntilLapse ==
    ASSUME IInv, view # NoView, RevokeControl(view)
    PROVE  /\ PendingIds # {}
           /\ \A i \in PendingIds :
                 /\ RevokeAllowed(CurrentContext, i)
                 /\ MayRevoke(i) <=> ~invitations[i].lapsed
  <1>1. Base /\ ViewFollowsRows
    BY DEF IInv
  <1>2. status = "draft"
    BY <1>1 DEF RevokeControl, Base, SetupViewCurrent
  <1>3. PendingIds # {}
    BY <1>1, PendingOfView DEF RevokeControl
  <1>4. SetupContext(CurrentContext, "draft")
    BY <1>1, <1>2 DEF SetupContext, CurrentContext, Base, SetupViewCurrent
  <1>5. ASSUME NEW i \in PendingIds
        PROVE  /\ RevokeAllowed(CurrentContext, i)
               /\ MayRevoke(i) <=> ~invitations[i].lapsed
    <2>1. RevokeAllowed(CurrentContext, i)
      BY <1>1, <1>4, PendingIsListed DEF RevokeAllowed, CurrentContext
    <2>2. MayRevoke(i) <=> ~invitations[i].lapsed
      BY <1>2 DEF MayRevoke, IsOpen, PendingIds
    <2> QED
      BY <2>1, <2>2
  <1> QED
    BY <1>3, <1>5

\* What the view offers, the reducer and the tables grant, as long as no operator has
\* banned a member; revoking, as long as the invitation has not lapsed, and no longer.
THEOREM HonestUntilLapse == Spec => []ControlsHonestUntilLapse
  <1>1. IInv => ControlsHonestUntilLapse
    BY InviteControlHonest, RevokeControlGrantedUntilLapse, GenerateControlHonest,
       StartControlHonest DEF ControlsHonestUntilLapse, Unbanned
  <1> QED
    BY <1>1, Inductive, PTL
=============================================================================
