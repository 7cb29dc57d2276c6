------------------------------- MODULE Bootstrap -------------------------------
(***************************************************************************)
(* The creation of Expeditions: create_expedition in the Command Gateway   *)
(* (handler.ts and bootstrap.ts of supabase/functions/_shared/             *)
(* command-gateway, the reducer of engine-runtime/                         *)
(* expedition-bootstrap-v1.ts) and private.bootstrap_expedition.           *)
(*                                                                         *)
(* It is the one command without an Expedition to lock, to load or to      *)
(* compare a stream position with.  Every attempt draws new ids for the    *)
(* Expedition and its captain's membership, so that only the receipt tells *)
(* a repeated request from a new one, and only the key of the Expedition,  *)
(* chosen by the user, stands between two captains.                        *)
(***************************************************************************)
EXTENDS Naturals, FiniteSets

CONSTANTS
    Users,         \* authenticated users, one Profile each
    Keys,          \* expedition keys
    CommandIds,
    Payloads,      \* name, timezone, duration and boundary time of a request
    Acceptable,    \* the payloads the reducer accepts
    Workers,       \* invocations that may be in flight at once
    MaxDraws,      \* bound: ids drawn
    NoReceipt

ASSUME PayloadAssumption == Acceptable \subseteq Payloads

ASSUME DrawsAssumption == MaxDraws \in Nat

Requests == [id: CommandIds, user: Users, key: Keys, payload: Payloads]

Ids == 1..MaxDraws

ASSUME SentinelAssumption == NoReceipt \notin [request: Requests, expedition: Nat]

VARIABLES
    profiles,     \* users whose Profile is active
    drawn,        \* ids drawn so far
    expeditions,  \* rows of expeditions: id, key, creator
    members,      \* rows of expedition_members: id, expedition, profile
    receipts,     \* command_receipts by command
    events,       \* expedition.created events: expedition, command, actor
    flight        \* what each invocation is doing

store == <<expeditions, members, receipts, events>>
vars == <<profiles, drawn, store, flight>>

Idle == [phase |-> "idle"]

Codes == {"created", "receipt_actor_mismatch", "expedition_key_already_exists",
          "idempotency_key_reused_with_different_payload", "active_profile_required",
          "validation_failed"}

Flights ==
    {Idle} \union [phase: {"received"}, request: Requests]
       \union [phase: {"prepared"}, request: Requests, own: 1..drawn]
       \union [phase: {"answered"}, request: Requests, code: Codes \ {"created"}]
       \union [phase: {"answered"}, request: Requests, code: {"created"},
               expedition: 1..drawn]

TypeOK ==
    /\ profiles \subseteq Users
    /\ drawn \in 0..MaxDraws
    /\ expeditions \subseteq [id: 1..drawn, key: Keys, creator: Users]
    /\ members \subseteq [id: 1..drawn, expedition: 1..drawn, profile: Users]
    /\ receipts \in [CommandIds -> [request: Requests, expedition: 1..drawn]
                                      \union {NoReceipt}]
    /\ events \subseteq [expedition: 1..drawn, command: CommandIds, actor: 1..drawn]
    /\ flight \in [Workers -> Flights]

Init ==
    /\ profiles = Users
    /\ drawn = 0
    /\ expeditions = {} /\ members = {} /\ events = {}
    /\ receipts = [c \in CommandIds |-> NoReceipt]
    /\ flight = [w \in Workers |-> Idle]

-----------------------------------------------------------------------------
Answer(w, r, code) ==
    flight' = [flight EXCEPT ![w] = [phase |-> "answered", request |-> r, code |-> code]]

AnswerCreated(w, r, expedition) ==
    flight' = [flight EXCEPT ![w] = [phase |-> "answered", request |-> r,
                                     code |-> "created", expedition |-> expedition]]

\* expedition_key and request_hash: the actor is not part of the comparison.
SameIntent(r, receipt) ==
    receipt.request.key = r.key /\ receipt.request.payload = r.payload

\* A request of which the handler finds no receipt.
Receive(w) ==
    /\ flight[w] = Idle
    /\ \E r \in Requests :
          /\ receipts[r.id] = NoReceipt
          /\ flight' = [flight EXCEPT ![w] = [phase |-> "received", request |-> r]]
    /\ UNCHANGED <<profiles, drawn, store>>

\* It finds one: it compares the intent first, then the user.
AnswerFromReceipt(w) ==
    /\ flight[w] = Idle
    /\ \E r \in Requests :
          /\ receipts[r.id] # NoReceipt
          /\ \/ /\ ~SameIntent(r, receipts[r.id])
                /\ Answer(w, r, "idempotency_key_reused_with_different_payload")
             \/ /\ SameIntent(r, receipts[r.id]) /\ receipts[r.id].request.user # r.user
                /\ Answer(w, r, "receipt_actor_mismatch")
             \/ /\ SameIntent(r, receipts[r.id]) /\ receipts[r.id].request.user = r.user
                /\ AnswerCreated(w, r, receipts[r.id].expedition)
    /\ UNCHANGED <<profiles, drawn, store>>

\* The executor resolves the Profile of the user.
RefuseProfile(w) ==
    /\ flight[w].phase = "received"
    /\ flight[w].request.user \notin profiles
    /\ Answer(w, flight[w].request, "active_profile_required")
    /\ UNCHANGED <<profiles, drawn, store>>

\* The reducer looks at the request only; what it rejects leaves no receipt.
RefusePayload(w) ==
    /\ flight[w].phase = "received"
    /\ flight[w].request.user \in profiles
    /\ flight[w].request.payload \notin Acceptable
    /\ Answer(w, flight[w].request, "validation_failed")
    /\ UNCHANGED <<profiles, drawn, store>>

Prepared(r, id) == [phase |-> "prepared", request |-> r, own |-> id]

\* The ids are drawn and the request of the transaction is put together.
Prepare(w) ==
    /\ flight[w].phase = "received"
    /\ flight[w].request.user \in profiles
    /\ flight[w].request.payload \in Acceptable
    /\ drawn < MaxDraws
    /\ drawn' = drawn + 1
    /\ flight' = [flight EXCEPT ![w] = Prepared(flight[w].request, drawn + 1)]
    /\ UNCHANGED <<profiles, store>>

-----------------------------------------------------------------------------
(***************************************************************************)
(* bootstrap_expedition, under the locks of the command and of the key     *)
(***************************************************************************)

KeyTaken(key) == \E row \in expeditions : row.key = key

\* Mutant of MayCreate: a key is compared only with the captain's own Expeditions.
MayCreateInOwnSpace(r) ==
    /\ receipts[r.id] = NoReceipt
    /\ ~\E row \in expeditions : row.key = r.key /\ row.creator = r.user
    /\ r.user \in profiles

\* Mutant of MayCreate: the Profile is not looked at again.
MayCreateAsLoaded(r) == receipts[r.id] = NoReceipt /\ ~KeyTaken(r.key)

MayCreate(r) ==
    receipts[r.id] = NoReceipt /\ ~KeyTaken(r.key) /\ r.user \in profiles

CreateExpedition(w) ==
    LET r == flight[w].request
        id == flight[w].own
    IN  /\ flight[w].phase = "prepared"
        /\ MayCreate(r)
        /\ expeditions' = expeditions \union {[id |-> id, key |-> r.key, creator |-> r.user]}
        /\ members' = members \union {[id |-> id, expedition |-> id, profile |-> r.user]}
        /\ receipts' = [receipts EXCEPT ![r.id] = [request |-> r, expedition |-> id]]
        /\ events' = events \union {[expedition |-> id, command |-> r.id, actor |-> id]}
        /\ AnswerCreated(w, r, id)
        /\ UNCHANGED <<profiles, drawn>>

\* The stored result of the first attempt, whose ids are not those of this one.
ReplayBootstrap(w) ==
    LET r == flight[w].request
    IN  /\ flight[w].phase = "prepared"
        /\ receipts[r.id] # NoReceipt
        /\ SameIntent(r, receipts[r.id]) /\ receipts[r.id].request.user = r.user
        /\ AnswerCreated(w, r, receipts[r.id].expedition)
        /\ UNCHANGED <<profiles, drawn, store>>

\* Mutant of RefusalCode: the key is looked up before the receipt.
RefusalKeyFirst(r) ==
    CASE KeyTaken(r.key) -> "expedition_key_already_exists"
      [] receipts[r.id] # NoReceipt /\ receipts[r.id].request.user # r.user ->
            "receipt_actor_mismatch"
      [] receipts[r.id] # NoReceipt -> "idempotency_key_reused_with_different_payload"
      [] OTHER -> "active_profile_required"

\* Receipt, key and Profile are looked at in this order.
RefusalCode(r) ==
    CASE receipts[r.id] # NoReceipt /\ receipts[r.id].request.user # r.user ->
            "receipt_actor_mismatch"
      [] receipts[r.id] # NoReceipt /\ receipts[r.id].request.user = r.user ->
            "idempotency_key_reused_with_different_payload"
      [] receipts[r.id] = NoReceipt /\ KeyTaken(r.key) -> "expedition_key_already_exists"
      [] OTHER -> "active_profile_required"

RefuseBootstrap(w) ==
    LET r == flight[w].request
    IN  /\ flight[w].phase = "prepared"
        /\ ~MayCreate(r)
        /\ receipts[r.id] # NoReceipt =>
              ~(SameIntent(r, receipts[r.id]) /\ receipts[r.id].request.user = r.user)
        /\ Answer(w, r, RefusalCode(r))
        /\ UNCHANGED <<profiles, drawn, store>>

\* The answer arrives, or the invocation fails, is cut off, or its answer is lost.
Finish(w) ==
    /\ flight[w] # Idle
    /\ flight' = [flight EXCEPT ![w] = Idle]
    /\ UNCHANGED <<profiles, drawn, store>>

\* Profiles are suspended and reinstated by operators.
ChangeProfile(u) ==
    /\ profiles' = IF u \in profiles THEN profiles \ {u} ELSE profiles \union {u}
    /\ UNCHANGED <<drawn, store, flight>>

Next ==
    \/ \E w \in Workers :
          \/ Receive(w) \/ AnswerFromReceipt(w) \/ RefuseProfile(w) \/ RefusePayload(w)
          \/ Prepare(w) \/ CreateExpedition(w) \/ ReplayBootstrap(w)
          \/ RefuseBootstrap(w) \/ Finish(w)
    \/ \E u \in Users : ChangeProfile(u)

Spec == Init /\ [][Next]_vars

-----------------------------------------------------------------------------
(***************************************************************************)
(* Safety                                                                  *)
(***************************************************************************)

\* However often a request is repeated and however many captains want one key: there
\* is one Expedition per accepted command and per key, each complete with one
\* captain, who is its creator, and one expedition.created event by that captain;
\* attempts that lost leave no row behind.
ExpeditionsMatchReceipts ==
    /\ \A row, other \in expeditions : row.key = other.key => row = other
    /\ {row.id : row \in expeditions}
          = {receipts[c].expedition : c \in {d \in CommandIds : receipts[d] # NoReceipt}}
    /\ \A c \in CommandIds : receipts[c] # NoReceipt =>
          LET r == receipts[c].request
              e == receipts[c].expedition
          IN  /\ r.id = c
              /\ [id |-> e, key |-> r.key, creator |-> r.user] \in expeditions
              /\ {m.profile : m \in {n \in members : n.expedition = e}} = {r.user}
              /\ \E m \in members :
                    /\ m.expedition = e
                    /\ {v \in events : v.expedition = e}
                          = {[expedition |-> e, command |-> c, actor |-> m.id]}
    /\ Cardinality(members) = Cardinality(expeditions)
    /\ Cardinality(events) = Cardinality(expeditions)

\* What a captain is told is so, and stays so: "created" names the Expedition stored
\* under the captain's own request, the same one for every attempt; a key that is
\* taken belongs to another command, never to an earlier attempt of this one; a
\* reused command id carries another intent, a foreign one another user.
AnswersBind ==
    \A w \in Workers : flight[w].phase = "answered" =>
        LET r == flight[w].request
            stored == receipts[r.id]
        IN  /\ flight[w].code = "created" =>
                  /\ stored # NoReceipt
                  /\ stored.request = r /\ stored.expedition = flight[w].expedition
            /\ flight[w].code = "expedition_key_already_exists" =>
                  \E c \in CommandIds \ {r.id} :
                     receipts[c] # NoReceipt /\ receipts[c].request.key = r.key
            /\ flight[w].code = "idempotency_key_reused_with_different_payload" =>
                  stored # NoReceipt /\ ~SameIntent(r, stored)
            /\ flight[w].code = "receipt_actor_mismatch" =>
                  stored # NoReceipt /\ stored.request.user # r.user

\* An Expedition is created only by somebody whose Profile is active at that moment,
\* although the Profile was resolved in an earlier transaction.
CreatorWasActive ==
    [][\A row \in expeditions' \ expeditions : row.creator \in profiles]_vars
=============================================================================
