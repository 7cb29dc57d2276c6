---------------------------- MODULE BootstrapProofs ----------------------------
(***************************************************************************)
(* Proofs, for all users, keys, commands and invocations, of the safety    *)
(* properties of Bootstrap.                                                *)
(*                                                                         *)
(* One Expedition per receipt is inductive only together with FreshIds: an *)
(* invocation that has drawn its ids and not written yet owns ids that no  *)
(* row and no other invocation has.                                        *)
(***************************************************************************)
EXTENDS Bootstrap, FiniteSetTheorems, TLAPS

\* The invocations that are about to enter the transaction.
Writers == {w \in Workers : flight[w].phase = "prepared"}

\* Ids are drawn once, and a row names only Expeditions that exist.
FreshIds ==
    /\ \A w \in Writers : \A row \in expeditions : row.id # flight[w].own
    /\ \A v, w \in Writers : flight[v].own = flight[w].own => v = w
    /\ \A row, other \in expeditions : row.id = other.id => row = other
    /\ \A m \in members : \E row \in expeditions : row.id = m.expedition
    /\ \A v \in events : \E row \in expeditions : row.id = v.expedition
    /\ IsFiniteSet(expeditions) /\ IsFiniteSet(members) /\ IsFiniteSet(events)

-----------------------------------------------------------------------------
(***************************************************************************)
(* Type correctness                                                        *)
(***************************************************************************)

\* What is known of an invocation in each phase.
LEMMA FlightTypes ==
    ASSUME TypeOK, NEW w \in Workers
    PROVE  /\ flight[w].phase # "idle" => flight[w].request \in Requests
           /\ flight[w].phase = "prepared" => flight[w].own \in 1..drawn
           /\ flight[w].phase = "answered" =>
                 /\ flight[w].code \in Codes
                 /\ flight[w].code = "created" => flight[w].expedition \in 1..drawn
  <1>1. flight[w] \in Flights
    BY DEF TypeOK
  <1> QED
    BY <1>1 DEF Flights, Idle, Codes

\* An answer without a result leaves the flight well typed.
LEMMA AnswerTypes ==
    ASSUME TypeOK, UNCHANGED drawn, NEW w \in Workers, NEW r \in Requests,
           NEW code \in Codes \ {"created"}, Answer(w, r, code)
    PROVE  flight' \in [Workers -> Flights']
  <1>1. [phase |-> "answered", request |-> r, code |-> code] \in Flights'
    BY DEF Flights
  <1>2. Flights' = Flights
    BY DEF Flights
  <1> QED
    BY <1>1, <1>2 DEF Answer, TypeOK

LEMMA AnswerCreatedTypes ==
    ASSUME TypeOK, UNCHANGED drawn, NEW w \in Workers, NEW r \in Requests,
           NEW e \in 1..drawn, AnswerCreated(w, r, e)
    PROVE  flight' \in [Workers -> Flights']
  <1>1. [phase |-> "answered", request |-> r, code |-> "created", expedition |-> e]
           \in Flights'
    BY DEF Flights
  <1>2. Flights' = Flights
    BY DEF Flights
  <1> QED
    BY <1>1, <1>2 DEF AnswerCreated, TypeOK

\* Drawing an id leaves everything that is typed by the ids drawn so far well typed.
LEMMA PrepareTypes ==
    ASSUME TypeOK, NEW w \in Workers, Prepare(w)
    PROVE  TypeOK'
  <1>1. drawn \in Nat /\ drawn' = drawn + 1 /\ drawn' \in 0..MaxDraws
    BY DrawsAssumption DEF TypeOK, Prepare
  <1>2. \A n \in 1..drawn : n \in 1..drawn'
    BY <1>1
  <1>3. expeditions' \subseteq [id: 1..drawn', key: Keys, creator: Users]
    BY <1>2 DEF TypeOK, Prepare, store
  <1>4. members' \subseteq [id: 1..drawn', expedition: 1..drawn', profile: Users]
    BY <1>2 DEF TypeOK, Prepare, store
  <1>5. events' \subseteq [expedition: 1..drawn', command: CommandIds, actor: 1..drawn']
    BY <1>2 DEF TypeOK, Prepare, store
  <1>6. receipts' \in [CommandIds -> [request: Requests, expedition: 1..drawn']
                                        \union {NoReceipt}]
    <2>1. receipts' = receipts
      BY DEF Prepare, store
    <2>2. ASSUME NEW c \in CommandIds
          PROVE  receipts[c] \in [request: Requests, expedition: 1..drawn']
                                    \union {NoReceipt}
      BY <1>2 DEF TypeOK
    <2> QED
      BY <2>1, <2>2 DEF TypeOK
  <1>7. flight' \in [Workers -> Flights']
    <2>1. flight[w].request \in Requests /\ drawn + 1 \in 1..drawn'
      BY <1>1, FlightTypes DEF Prepare
    <2>2. Prepared(flight[w].request, drawn + 1) \in Flights'
      BY <2>1 DEF Prepared, Flights
    <2>3. ASSUME NEW v \in Workers PROVE flight[v] \in Flights'
      <3>1. flight[v] \in Flights
        BY DEF TypeOK
      <3> QED
        BY <1>2, <3>1 DEF Flights
    <2> QED
      BY <2>2, <2>3 DEF Prepare, TypeOK
  <1> QED
    BY <1>1, <1>3, <1>4, <1>5, <1>6, <1>7 DEF TypeOK, Prepare, store

LEMMA CreateTypes ==
    ASSUME TypeOK, NEW w \in Workers, CreateExpedition(w)
    PROVE  TypeOK'
  <1> DEFINE r == flight[w].request
             id == flight[w].own
  <1>1. r \in Requests /\ id \in 1..drawn
    BY FlightTypes DEF CreateExpedition
  <1>2. r.id \in CommandIds /\ r.key \in Keys /\ r.user \in Users
    BY <1>1 DEF Requests
  <1>3. flight' \in [Workers -> Flights']
    BY <1>1, AnswerCreatedTypes DEF CreateExpedition
  <1>4. receipts' \in [CommandIds -> [request: Requests, expedition: 1..drawn]
                                        \union {NoReceipt}]
    BY <1>1, <1>2 DEF CreateExpedition, TypeOK
  <1>5. /\ expeditions' \subseteq [id: 1..drawn, key: Keys, creator: Users]
        /\ members' \subseteq [id: 1..drawn, expedition: 1..drawn, profile: Users]
        /\ events' \subseteq [expedition: 1..drawn, command: CommandIds, actor: 1..drawn]
    BY <1>1, <1>2 DEF CreateExpedition, TypeOK
  <1> QED
    BY <1>3, <1>4, <1>5 DEF CreateExpedition, TypeOK

\* The code with which bootstrap_expedition refuses is an error.
LEMMA RefusalCodes ==
    ASSUME NEW r PROVE RefusalCode(r) \in Codes \ {"created"}
  BY DEF RefusalCode, Codes

LEMMA TypeNext == TypeOK /\ [Next]_vars => TypeOK'
  <1> SUFFICES ASSUME TypeOK, [Next]_vars PROVE TypeOK'
    OBVIOUS
  <1>0. ASSUME UNCHANGED <<drawn, store>>, profiles' \subseteq Users,
               flight' \in [Workers -> Flights']
        PROVE  TypeOK'
    BY <1>0 DEF TypeOK, store
  <1>1. CASE \E w \in Workers : Receive(w)
    <2>1. PICK w \in Workers : Receive(w)
      BY <1>1
    <2>2. PICK r \in Requests :
             flight' = [flight EXCEPT ![w] = [phase |-> "received", request |-> r]]
      BY <2>1 DEF Receive
    <2>3. [phase |-> "received", request |-> r] \in Flights
      BY DEF Flights
    <2>4. Flights' = Flights /\ profiles' \subseteq Users
      BY <2>1 DEF Receive, Flights, TypeOK
    <2> QED
      BY <1>0, <2>1, <2>2, <2>3, <2>4 DEF Receive, TypeOK
  <1>2. CASE \E w \in Workers : AnswerFromReceipt(w)
    <2>1. PICK w \in Workers : AnswerFromReceipt(w)
      BY <1>2
    <2>2. PICK r \in Requests :
             /\ receipts[r.id] # NoReceipt
             /\ \/ Answer(w, r, "idempotency_key_reused_with_different_payload")
                \/ Answer(w, r, "receipt_actor_mismatch")
                \/ AnswerCreated(w, r, receipts[r.id].expedition)
      BY <2>1 DEF AnswerFromReceipt
    <2>3. receipts[r.id].expedition \in 1..drawn
      BY <2>2 DEF TypeOK, Requests
    <2>4. UNCHANGED <<profiles, drawn, store>>
      BY <2>1 DEF AnswerFromReceipt
    <2>5. flight' \in [Workers -> Flights']
      BY <2>2, <2>3, <2>4, AnswerTypes, AnswerCreatedTypes DEF Codes
    <2> QED
      BY <1>0, <2>4, <2>5 DEF TypeOK
  <1>3. CASE \E w \in Workers : RefuseProfile(w) \/ RefusePayload(w)
    <2>1. PICK w \in Workers : RefuseProfile(w) \/ RefusePayload(w)
      BY <1>3
    <2>2. flight[w].request \in Requests
      BY <2>1, FlightTypes DEF RefuseProfile, RefusePayload
    <2>3. UNCHANGED <<profiles, drawn, store>>
      BY <2>1 DEF RefuseProfile, RefusePayload
    <2>4. flight' \in [Workers -> Flights']
      BY <2>1, <2>2, <2>3, AnswerTypes DEF RefuseProfile, RefusePayload, Codes
    <2> QED
      BY <1>0, <2>3, <2>4 DEF TypeOK
  <1>4. CASE \E w \in Workers : Prepare(w)
    BY <1>4, PrepareTypes
  <1>5. CASE \E w \in Workers : CreateExpedition(w)
    BY <1>5, CreateTypes
  <1>6. CASE \E w \in Workers : ReplayBootstrap(w)
    <2>1. PICK w \in Workers : ReplayBootstrap(w)
      BY <1>6
    <2>2. flight[w].request \in Requests
      BY <2>1, FlightTypes DEF ReplayBootstrap
    <2>3. receipts[flight[w].request.id].expedition \in 1..drawn
      BY <2>1, <2>2 DEF ReplayBootstrap, TypeOK, Requests
    <2>4. flight' \in [Workers -> Flights']
      BY <2>1, <2>2, <2>3, AnswerCreatedTypes DEF ReplayBootstrap
    <2> QED
      BY <1>0, <2>1, <2>4 DEF ReplayBootstrap, TypeOK
  <1>7. CASE \E w \in Workers : RefuseBootstrap(w)
    <2>1. PICK w \in Workers : RefuseBootstrap(w)
      BY <1>7
    <2>2. flight[w].request \in Requests
      BY <2>1, FlightTypes DEF RefuseBootstrap
    <2>3. flight' \in [Workers -> Flights']
      BY <2>1, <2>2, AnswerTypes, RefusalCodes DEF RefuseBootstrap
    <2> QED
      BY <1>0, <2>1, <2>3 DEF RefuseBootstrap, TypeOK
  <1>8. CASE \E w \in Workers : Finish(w)
    <2>1. Flights' = Flights /\ Idle \in Flights
      BY <1>8 DEF Finish, Flights
    <2> QED
      BY <1>0, <1>8, <2>1 DEF Finish, TypeOK
  <1>9. CASE \E u \in Users : ChangeProfile(u)
    <2>1. Flights' = Flights
      BY <1>9 DEF ChangeProfile, Flights
    <2>2. profiles' \subseteq Users
      BY <1>9 DEF ChangeProfile, TypeOK
    <2> QED
      BY <1>0, <1>9, <2>1, <2>2 DEF ChangeProfile, TypeOK
  <1>10. CASE UNCHANGED vars
    <2>1. Flights' = Flights
      BY <1>10 DEF vars, Flights
    <2> QED
      BY <1>0, <1>10, <2>1 DEF vars, TypeOK
  <1> QED
    BY <1>1, <1>2, <1>3, <1>4, <1>5, <1>6, <1>7, <1>8, <1>9, <1>10 DEF Next

\* Rows, receipts, events and invocations keep their types.
THEOREM BootstrapTypeCorrect == Spec => []TypeOK
  <1>1. Init => TypeOK
    BY DrawsAssumption DEF Init, TypeOK, Flights
  <1> QED
    BY <1>1, TypeNext, PTL DEF Spec

-----------------------------------------------------------------------------
(***************************************************************************)
(* The steps that write no row                                             *)
(***************************************************************************)

\* A step that leaves the rows alone and, where it starts a writer, with ids of its
\* own, keeps FreshIds.
Reading ==
    /\ UNCHANGED store
    /\ \A w \in Workers : flight'[w].phase = "prepared" =>
          \/ flight'[w] = flight[w]
          \/ flight'[w].own = drawn + 1 /\ \A v \in Workers \ {w} : flight'[v] = flight[v]

\* Every step is the creation of an Expedition or writes no row.
LEMMA StepKinds ==
    ASSUME TypeOK, [Next]_vars
    PROVE  Reading \/ \E w \in Workers : CreateExpedition(w)
  <1>1. ASSUME NEW w \in Workers, NEW f, f.phase # "prepared", UNCHANGED store,
               flight' = [flight EXCEPT ![w] = f]
        PROVE  Reading
    BY <1>1 DEF Reading, TypeOK
  <1>2. CASE \E w \in Workers : Receive(w)
    <2>1. PICK w \in Workers : Receive(w)
      BY <1>2
    <2>2. PICK r \in Requests :
             flight' = [flight EXCEPT ![w] = [phase |-> "received", request |-> r]]
      BY <2>1 DEF Receive
    <2> QED
      BY <1>1, <2>1, <2>2 DEF Receive
  <1>3. CASE \E w \in Workers : \/ AnswerFromReceipt(w) \/ RefuseProfile(w)
                                \/ RefusePayload(w) \/ ReplayBootstrap(w)
                                \/ RefuseBootstrap(w)
    <2>1. PICK w \in Workers : \/ AnswerFromReceipt(w) \/ RefuseProfile(w)
                               \/ RefusePayload(w) \/ ReplayBootstrap(w)
                               \/ RefuseBootstrap(w)
      BY <1>3
    <2>2. UNCHANGED store
      BY <2>1 DEF AnswerFromReceipt, RefuseProfile, RefusePayload, ReplayBootstrap,
                  RefuseBootstrap
    <2>3. \/ \E r, code : Answer(w, r, code)
          \/ \E r, e : AnswerCreated(w, r, e)
      BY <2>1 DEF AnswerFromReceipt, RefuseProfile, RefusePayload, ReplayBootstrap,
                  RefuseBootstrap
    <2> QED
      BY <1>1, <2>2, <2>3 DEF Answer, AnswerCreated
  <1>4. CASE \E w \in Workers : Prepare(w)
    BY <1>4 DEF Prepare, Prepared, Reading, TypeOK
  <1>5. CASE \E w \in Workers : Finish(w)
    BY <1>1, <1>5 DEF Finish, Idle
  <1>6. CASE \E u \in Users : ChangeProfile(u)
    BY <1>6 DEF ChangeProfile, store, Reading
  <1>7. CASE UNCHANGED vars
    BY <1>7 DEF vars, Reading
  <1> QED
    BY <1>2, <1>3, <1>4, <1>5, <1>6, <1>7 DEF Next

\* The ids of the rows and of the writers have been drawn.
LEMMA DrawnIds ==
    ASSUME TypeOK
    PROVE  /\ drawn \in Nat
           /\ \A row \in expeditions : row.id \in 1..drawn
           /\ \A w \in Writers : flight[w].own \in 1..drawn
  <1>1. drawn \in Nat /\ \A row \in expeditions : row.id \in 1..drawn
    BY DrawsAssumption DEF TypeOK
  <1> QED
    BY <1>1, FlightTypes DEF Writers

LEMMA FreshReading ==
    ASSUME TypeOK, FreshIds, Reading
    PROVE  FreshIds'
  <1>1. ASSUME NEW w \in Writers'
        PROVE  \/ w \in Writers /\ flight'[w] = flight[w]
               \/ /\ flight'[w].own = drawn + 1
                  /\ \A v \in Writers' \ {w} : v \in Writers /\ flight'[v] = flight[v]
    BY <1>1 DEF Writers, Reading
  <1>2. ASSUME NEW w \in Writers', NEW row \in expeditions
        PROVE  row.id # flight'[w].own
    <2>1. row.id \in 1..drawn /\ drawn \in Nat
      BY DrawnIds
    <2> QED
      BY <1>1, <2>1 DEF FreshIds
  <1>3. ASSUME NEW v \in Writers', NEW w \in Writers', v # w
        PROVE  flight'[v].own # flight'[w].own
    <2>1. CASE /\ v \in Writers /\ flight'[v] = flight[v]
               /\ w \in Writers /\ flight'[w] = flight[w]
      BY <1>3, <2>1 DEF FreshIds
    <2>2. CASE /\ v \in Writers /\ flight'[v] = flight[v]
               /\ flight'[w].own = drawn + 1
      <3>1. flight[v].own \in 1..drawn /\ drawn \in Nat
        BY <2>2, DrawnIds
      <3> QED
        BY <2>2, <3>1
    <2>3. CASE /\ w \in Writers /\ flight'[w] = flight[w]
               /\ flight'[v].own = drawn + 1
      <3>1. flight[w].own \in 1..drawn /\ drawn \in Nat
        BY <2>3, DrawnIds
      <3> QED
        BY <2>3, <3>1
    <2> QED
      BY <1>1, <1>3, <2>1, <2>2, <2>3
  <1>4. UNCHANGED <<expeditions, members, events>>
    BY DEF Reading, store
  <1> QED
    BY <1>2, <1>3, <1>4 DEF FreshIds

-----------------------------------------------------------------------------
(***************************************************************************)
(* The creation of an Expedition                                           *)
(***************************************************************************)

\* What the transaction writes: one row of each kind under an id that no row names.
LEMMA CreateWrites ==
    ASSUME TypeOK, FreshIds, NEW w \in Workers, CreateExpedition(w),
           NEW r, r = flight[w].request, NEW e, e = flight[w].own
    PROVE  /\ r \in Requests /\ r.id \in CommandIds /\ w \in Writers
           /\ receipts[r.id] = NoReceipt
           /\ receipts' = [receipts EXCEPT ![r.id] = [request |-> r, expedition |-> e]]
           /\ receipts'[r.id] # NoReceipt
           /\ expeditions' = expeditions
                 \union {[id |-> e, key |-> r.key, creator |-> r.user]}
           /\ members' = members
                 \union {[id |-> e, expedition |-> e, profile |-> r.user]}
           /\ events' = events \union {[expedition |-> e, command |-> r.id, actor |-> e]}
           /\ \A row \in expeditions : row.id # e /\ row.key # r.key
           /\ \A m \in members : m.expedition # e
           /\ \A v \in events : v.expedition # e
  <1>1. /\ r \in Requests /\ e \in 1..drawn /\ w \in Writers
        /\ e \in Nat
    BY FlightTypes DEF CreateExpedition, Writers
  <1>2. r.id \in CommandIds
    BY <1>1 DEF Requests
  <1>3. [request |-> r, expedition |-> e] # NoReceipt
    BY <1>1, SentinelAssumption
  <1>4. receipts[r.id] = NoReceipt /\ \A row \in expeditions : row.key # r.key
    BY DEF CreateExpedition, MayCreate, KeyTaken
  <1>5. /\ \A row \in expeditions : row.id # e
        /\ \A m \in members : m.expedition # e
        /\ \A v \in events : v.expedition # e
    BY <1>1 DEF FreshIds
  <1>6. receipts' = [receipts EXCEPT ![r.id] = [request |-> r, expedition |-> e]]
    BY DEF CreateExpedition
  <1>7. receipts'[r.id] # NoReceipt
    BY <1>2, <1>3, <1>6 DEF TypeOK
  <1> QED
    BY <1>1, <1>2, <1>4, <1>5, <1>6, <1>7 DEF CreateExpedition

LEMMA FreshCreate ==
    ASSUME TypeOK, FreshIds, NEW w \in Workers, CreateExpedition(w)
    PROVE  FreshIds'
  <1> DEFINE r == flight[w].request
             e == flight[w].own
  <1> HIDE DEF r, e
  <1>1. /\ w \in Writers
        /\ expeditions' = expeditions
              \union {[id |-> e, key |-> r.key, creator |-> r.user]}
        /\ members' = members \union {[id |-> e, expedition |-> e, profile |-> r.user]}
        /\ events' = events \union {[expedition |-> e, command |-> r.id, actor |-> e]}
        /\ \A row \in expeditions : row.id # e
    BY CreateWrites DEF r, e
  <1>2. Writers' = Writers \ {w} /\ \A v \in Writers' : flight'[v] = flight[v]
    BY DEF CreateExpedition, AnswerCreated, Writers, TypeOK
  <1>3. \A v \in Writers' : \A row \in expeditions' : row.id # flight'[v].own
    BY <1>1, <1>2 DEF FreshIds, e
  <1>4. \A u, v \in Writers' : flight'[u].own = flight'[v].own => u = v
    BY <1>2 DEF FreshIds
  <1>5. \A row, other \in expeditions' : row.id = other.id => row = other
    BY <1>1 DEF FreshIds
  <1>6. /\ \A m \in members' : \E row \in expeditions' : row.id = m.expedition
        /\ \A v \in events' : \E row \in expeditions' : row.id = v.expedition
    <2> DEFINE expedition == [id |-> e, key |-> r.key, creator |-> r.user]
    <2>1. expedition \in expeditions' /\ expedition.id = e
      BY <1>1
    <2>2. \A m \in members' : m \in members \/ m.expedition = e
      BY <1>1
    <2>3. \A v \in events' : v \in events \/ v.expedition = e
      BY <1>1
    <2>4. expeditions \subseteq expeditions'
      BY <1>1
    <2> QED
      BY <2>1, <2>2, <2>3, <2>4 DEF FreshIds
  <1>7. IsFiniteSet(expeditions') /\ IsFiniteSet(members') /\ IsFiniteSet(events')
    BY <1>1, FS_AddElement DEF FreshIds
  <1> QED
    BY <1>3, <1>4, <1>5, <1>6, <1>7 DEF FreshIds

LEMMA FreshNext == TypeOK /\ FreshIds /\ [Next]_vars => FreshIds'
  BY StepKinds, FreshReading, FreshCreate

LEMMA FreshAlways == Spec => []FreshIds
  <1>1. Init => FreshIds
    BY FS_EmptySet DEF Init, FreshIds, Writers, Idle
  <1> QED
    BY <1>1, FreshNext, BootstrapTypeCorrect, PTL DEF Spec

-----------------------------------------------------------------------------
(***************************************************************************)
(* One Expedition per receipt and per key                                  *)
(***************************************************************************)

\* The rows that belong to a receipt, as one formula.
Complete(c) ==
    LET r == receipts[c].request
        e == receipts[c].expedition
    IN  /\ r.id = c
        /\ [id |-> e, key |-> r.key, creator |-> r.user] \in expeditions
        /\ {m.profile : m \in {n \in members : n.expedition = e}} = {r.user}
        /\ \E m \in members :
              /\ m.expedition = e
              /\ {v \in events : v.expedition = e}
                    = {[expedition |-> e, command |-> c, actor |-> m.id]}

LEMMA MatchReading ==
    ASSUME ExpeditionsMatchReceipts, Reading
    PROVE  ExpeditionsMatchReceipts'
  <1>1. UNCHANGED <<expeditions, members, receipts, events>>
    BY DEF Reading, store
  <1>2. \A row, other \in expeditions' : row.key = other.key => row = other
    BY <1>1 DEF ExpeditionsMatchReceipts
  <1>3. {row.id : row \in expeditions'}
          = {receipts'[c].expedition : c \in {d \in CommandIds : receipts'[d] # NoReceipt}}
    <2>1. {row.id : row \in expeditions'} = {row.id : row \in expeditions}
      BY <1>1
    <2>2. {receipts'[c].expedition : c \in {d \in CommandIds : receipts'[d] # NoReceipt}}
             = {receipts[c].expedition : c \in {d \in CommandIds : receipts[d] # NoReceipt}}
      BY <1>1
    <2> QED
      BY <2>1, <2>2 DEF ExpeditionsMatchReceipts
  <1>4. ASSUME NEW c \in CommandIds, receipts'[c] # NoReceipt
        PROVE  Complete(c)'
    <2>1. Complete(c)
      BY <1>1, <1>4 DEF ExpeditionsMatchReceipts, Complete
    <2> QED
      BY <1>1, <2>1 DEF Complete
  <1>5. /\ Cardinality(members') = Cardinality(expeditions')
        /\ Cardinality(events') = Cardinality(expeditions')
    BY <1>1 DEF ExpeditionsMatchReceipts
  <1> QED
    BY <1>2, <1>3, <1>4, <1>5 DEF ExpeditionsMatchReceipts, Complete

LEMMA MatchCreate ==
    ASSUME TypeOK, FreshIds, ExpeditionsMatchReceipts,
           NEW w \in Workers, CreateExpedition(w)
    PROVE  ExpeditionsMatchReceipts'
  <1> DEFINE r == flight[w].request
             e == flight[w].own
             expedition == [id |-> e, key |-> r.key, creator |-> r.user]
             member == [id |-> e, expedition |-> e, profile |-> r.user]
             created == [expedition |-> e, command |-> r.id, actor |-> e]
  <1> HIDE DEF r, e
  <1>1. /\ r \in Requests /\ r.id \in CommandIds
        /\ receipts[r.id] = NoReceipt
        /\ receipts' = [receipts EXCEPT ![r.id] = [request |-> r, expedition |-> e]]
        /\ receipts'[r.id] # NoReceipt
        /\ expeditions' = expeditions \union {expedition}
        /\ members' = members \union {member}
        /\ events' = events \union {created}
        /\ \A row \in expeditions : row.id # e /\ row.key # r.key
        /\ \A m \in members : m.expedition # e
        /\ \A v \in events : v.expedition # e
    BY CreateWrites DEF r, e
  <1>2. /\ receipts'[r.id] = [request |-> r, expedition |-> e]
        /\ \A c \in CommandIds \ {r.id} : receipts'[c] = receipts[c]
    BY <1>1 DEF TypeOK
  <1>3. \A row, other \in expeditions' : row.key = other.key => row = other
    BY <1>1 DEF ExpeditionsMatchReceipts
  <1>4. {row.id : row \in expeditions'}
          = {receipts'[c].expedition : c \in {d \in CommandIds : receipts'[d] # NoReceipt}}
    <2>1. {row.id : row \in expeditions'} = {row.id : row \in expeditions} \union {e}
      <3>1. expedition.id = e
        OBVIOUS
      <3> HIDE DEF expedition
      <3>2. \A i : i \in {row.id : row \in expeditions'}
                     <=> i \in {row.id : row \in expeditions} \union {e}
        BY <1>1, <3>1
      <3> QED
        BY <3>2
    <2>2. {d \in CommandIds : receipts'[d] # NoReceipt}
             = {d \in CommandIds : receipts[d] # NoReceipt} \union {r.id}
      BY <1>1, <1>2
    <2>3. {receipts'[c].expedition : c \in {d \in CommandIds : receipts'[d] # NoReceipt}}
             = {receipts[c].expedition : c \in {d \in CommandIds : receipts[d] # NoReceipt}}
                  \union {e}
      BY <1>1, <1>2, <2>2
    <2> QED
      BY <2>1, <2>3 DEF ExpeditionsMatchReceipts
  <1>5. ASSUME NEW c \in CommandIds, receipts'[c] # NoReceipt
        PROVE  Complete(c)'
    <2>1. CASE c = r.id
      <3>1. {m.profile : m \in {n \in members' : n.expedition = e}} = {r.user}
        <4>1. {n \in members' : n.expedition = e} = {member}
          BY <1>1
        <4>2. member.profile = r.user
          OBVIOUS
        <4> HIDE DEF member
        <4>3. \A u : u \in {m.profile : m \in {member}} <=> u = r.user
          BY <4>2
        <4> QED
          BY <4>1, <4>3
      <3>2. {v \in events' : v.expedition = e} = {created}
        BY <1>1
      <3>3. member \in members' /\ member.expedition = e /\ member.id = e
        BY <1>1
      <3>4. expedition \in expeditions'
        BY <1>1
      <3> QED
        BY <1>2, <2>1, <3>1, <3>2, <3>3, <3>4 DEF Complete
    <2>2. CASE c # r.id
      <3> DEFINE old == receipts[c]
      <3>1. receipts'[c] = old /\ old # NoReceipt
        BY <1>2, <1>5, <2>2
      <3>2. Complete(c)
        BY <3>1 DEF ExpeditionsMatchReceipts, Complete
      <3>3. old.expedition # e
        BY <1>1, <3>2 DEF Complete
      <3>4. {n \in members' : n.expedition = old.expedition}
               = {n \in members : n.expedition = old.expedition}
        BY <1>1, <3>3
      <3>5. {v \in events' : v.expedition = old.expedition}
               = {v \in events : v.expedition = old.expedition}
        BY <1>1, <3>3
      <3>6. expeditions \subseteq expeditions' /\ members \subseteq members'
        BY <1>1
      <3> HIDE DEF old
      <3>7. /\ old.request.id = c
            /\ [id |-> old.expedition, key |-> old.request.key,
                creator |-> old.request.user] \in expeditions
            /\ {m.profile : m \in {n \in members : n.expedition = old.expedition}}
                  = {old.request.user}
            /\ \E m \in members :
                  /\ m.expedition = old.expedition
                  /\ {v \in events : v.expedition = old.expedition}
                        = {[expedition |-> old.expedition, command |-> c, actor |-> m.id]}
        BY <3>2 DEF Complete, old
      <3> QED
        BY <3>1, <3>4, <3>5, <3>6, <3>7 DEF Complete
    <2> QED
      BY <2>1, <2>2
  <1>6. Cardinality(expeditions') = Cardinality(expeditions) + 1
    <2>1. expedition \notin expeditions
      BY <1>1
    <2>2. IsFiniteSet(expeditions)
      BY DEF FreshIds
    <2> HIDE DEF expedition
    <2> QED
      BY <1>1, <2>1, <2>2, FS_AddElement
  <1>7. Cardinality(members') = Cardinality(members) + 1
    <2>1. member \notin members
      BY <1>1
    <2>2. IsFiniteSet(members)
      BY DEF FreshIds
    <2> HIDE DEF member
    <2> QED
      BY <1>1, <2>1, <2>2, FS_AddElement
  <1>8. Cardinality(events') = Cardinality(events) + 1
    <2>1. created \notin events
      BY <1>1
    <2>2. IsFiniteSet(events)
      BY DEF FreshIds
    <2> HIDE DEF created
    <2> QED
      BY <1>1, <2>1, <2>2, FS_AddElement
  <1>9. /\ Cardinality(members') = Cardinality(expeditions')
        /\ Cardinality(events') = Cardinality(expeditions')
    <2>1. /\ Cardinality(members) = Cardinality(expeditions)
          /\ Cardinality(events) = Cardinality(expeditions)
      BY DEF ExpeditionsMatchReceipts
    <2> QED
      BY <1>6, <1>7, <1>8, <2>1
  <1> QED
    BY <1>3, <1>4, <1>5, <1>9 DEF ExpeditionsMatchReceipts, Complete

\* However often requests are repeated and whoever wants the same key: one complete
\* Expedition per accepted command and per key, and no row of a lost attempt.
THEOREM OneExpeditionPerReceipt == Spec => []ExpeditionsMatchReceipts
  <1>1. Init => ExpeditionsMatchReceipts
    <2> SUFFICES ASSUME Init PROVE ExpeditionsMatchReceipts
      OBVIOUS
    <2>1. \A c \in CommandIds : receipts[c] = NoReceipt
      BY DEF Init
    <2>2. {row.id : row \in expeditions}
             = {receipts[c].expedition : c \in {d \in CommandIds : receipts[d] # NoReceipt}}
      BY <2>1 DEF Init
    <2> QED
      BY <2>1, <2>2 DEF Init, ExpeditionsMatchReceipts
  <1>2. TypeOK /\ FreshIds /\ ExpeditionsMatchReceipts /\ [Next]_vars
           => ExpeditionsMatchReceipts'
    <2> SUFFICES ASSUME TypeOK, FreshIds, ExpeditionsMatchReceipts, [Next]_vars
                 PROVE  ExpeditionsMatchReceipts'
      OBVIOUS
    <2>1. CASE Reading
      BY <2>1, MatchReading
    <2>2. CASE \E w \in Workers : CreateExpedition(w)
      BY <2>2, MatchCreate
    <2> QED
      BY <2>1, <2>2, StepKinds
  <1> QED
    BY <1>1, <1>2, FreshAlways, BootstrapTypeCorrect, PTL DEF Spec

-----------------------------------------------------------------------------
(***************************************************************************)
(* What the captains are told                                              *)
(***************************************************************************)

\* The answer f names what the receipts hold.
Bound(f) ==
    LET r == f.request
        stored == receipts[r.id]
    IN  /\ f.code = "created" =>
              /\ stored # NoReceipt
              /\ stored.request = r /\ stored.expedition = f.expedition
        /\ f.code = "expedition_key_already_exists" =>
              \E c \in CommandIds \ {r.id} :
                 receipts[c] # NoReceipt /\ receipts[c].request.key = r.key
        /\ f.code = "idempotency_key_reused_with_different_payload" =>
              stored # NoReceipt /\ ~SameIntent(r, stored)
        /\ f.code = "receipt_actor_mismatch" =>
              stored # NoReceipt /\ stored.request.user # r.user

\* A receipt is written once.
LEMMA ReceiptsKept ==
    ASSUME TypeOK, FreshIds, [Next]_vars,
           NEW c \in CommandIds, receipts[c] # NoReceipt
    PROVE  receipts'[c] = receipts[c]
  <1>1. CASE Reading
    BY <1>1 DEF Reading, store
  <1>2. CASE \E w \in Workers : CreateExpedition(w)
    BY <1>2, CreateWrites DEF TypeOK
  <1> QED
    BY <1>1, <1>2, StepKinds

\* An answer that binds goes on binding.
LEMMA BoundKept ==
    ASSUME TypeOK, FreshIds, [Next]_vars, NEW f, f.request \in Requests, Bound(f)
    PROVE  Bound(f)'
  <1>1. f.request.id \in CommandIds
    BY DEF Requests
  <1> QED
    BY <1>1, ReceiptsKept DEF Bound, SameIntent

\* A request equal in every field that is compared is the stored request.
LEMMA SameRequest ==
    ASSUME TypeOK, ExpeditionsMatchReceipts, NEW r \in Requests,
           receipts[r.id] # NoReceipt, SameIntent(r, receipts[r.id]),
           receipts[r.id].request.user = r.user
    PROVE  receipts[r.id].request = r
  <1>1. r.id \in CommandIds
    BY DEF Requests
  <1>2. receipts[r.id].request \in Requests
    BY <1>1 DEF TypeOK
  <1>3. receipts[r.id].request.id = r.id
    BY <1>1 DEF ExpeditionsMatchReceipts
  <1> QED
    BY <1>2, <1>3 DEF SameIntent, Requests

\* A key is taken under another command's receipt.
LEMMA KeyHasReceipt ==
    ASSUME FreshIds, ExpeditionsMatchReceipts, NEW key, KeyTaken(key)
    PROVE  \E c \in CommandIds :
              receipts[c] # NoReceipt /\ receipts[c].request.key = key
  <1>1. PICK row \in expeditions : row.key = key
    BY DEF KeyTaken
  <1>2. row.id \in {receipts[c].expedition :
                       c \in {d \in CommandIds : receipts[d] # NoReceipt}}
    BY <1>1 DEF ExpeditionsMatchReceipts
  <1>3. PICK c \in CommandIds :
           receipts[c] # NoReceipt /\ receipts[c].expedition = row.id
    BY <1>2
  <1> DEFINE named == [id |-> receipts[c].expedition, key |-> receipts[c].request.key,
                       creator |-> receipts[c].request.user]
  <1>4. named \in expeditions
    BY <1>3 DEF ExpeditionsMatchReceipts
  <1>5. named = row
    BY <1>3, <1>4 DEF FreshIds
  <1> QED
    BY <1>1, <1>3, <1>5

\* Each code stands for the condition it names.
LEMMA RefusalMeaning ==
    ASSUME NEW r
    PROVE  /\ RefusalCode(r) = "receipt_actor_mismatch" =>
                 receipts[r.id] # NoReceipt /\ receipts[r.id].request.user # r.user
           /\ RefusalCode(r) = "idempotency_key_reused_with_different_payload" =>
                 receipts[r.id] # NoReceipt /\ receipts[r.id].request.user = r.user
           /\ RefusalCode(r) = "expedition_key_already_exists" =>
                 receipts[r.id] = NoReceipt /\ KeyTaken(r.key)
           /\ RefusalCode(r) # "created"
  <1>1. CASE receipts[r.id] # NoReceipt /\ receipts[r.id].request.user # r.user
    <2>1. RefusalCode(r) = "receipt_actor_mismatch"
      BY <1>1, Zenon DEF RefusalCode
    <2> QED
      BY <1>1, <2>1
  <1>2. CASE receipts[r.id] # NoReceipt /\ receipts[r.id].request.user = r.user
    <2>1. RefusalCode(r) = "idempotency_key_reused_with_different_payload"
      BY <1>2, Zenon DEF RefusalCode
    <2> QED
      BY <1>2, <2>1
  <1>3. CASE receipts[r.id] = NoReceipt /\ KeyTaken(r.key)
    <2>1. RefusalCode(r) = "expedition_key_already_exists"
      BY <1>3, Zenon DEF RefusalCode
    <2> QED
      BY <1>3, <2>1
  <1>4. CASE receipts[r.id] = NoReceipt /\ ~KeyTaken(r.key)
    <2>1. RefusalCode(r) = "active_profile_required"
      BY <1>4, Zenon DEF RefusalCode
    <2> QED
      BY <2>1
  <1> QED
    BY <1>1, <1>2, <1>3, <1>4

\* A new answer binds when it is given.
LEMMA NewAnswerBinds ==
    ASSUME TypeOK, FreshIds, ExpeditionsMatchReceipts, [Next]_vars,
           NEW v \in Workers, flight'[v].phase = "answered", flight'[v] # flight[v]
    PROVE  Bound(flight[v])'
  <1>1. ASSUME NEW w \in Workers, NEW f, flight' = [flight EXCEPT ![w] = f]
        PROVE  v = w /\ flight'[v] = f
    BY <1>1 DEF TypeOK
  <1>2. CASE \E w \in Workers : Receive(w) \/ Prepare(w) \/ Finish(w)
    <2>1. PICK w \in Workers : Receive(w) \/ Prepare(w) \/ Finish(w)
      BY <1>2
    <2>2. \E f : flight' = [flight EXCEPT ![w] = f] /\ f.phase # "answered"
      BY <2>1 DEF Receive, Prepare, Prepared, Finish, Idle
    <2> QED
      BY <1>1, <2>2
  <1>3. CASE \E w \in Workers : AnswerFromReceipt(w)
    <2>1. PICK w \in Workers, r \in Requests :
             /\ receipts[r.id] # NoReceipt /\ UNCHANGED receipts
             /\ \/ /\ ~SameIntent(r, receipts[r.id])
                   /\ Answer(w, r, "idempotency_key_reused_with_different_payload")
                \/ /\ receipts[r.id].request.user # r.user
                   /\ Answer(w, r, "receipt_actor_mismatch")
                \/ /\ SameIntent(r, receipts[r.id])
                   /\ receipts[r.id].request.user = r.user
                   /\ AnswerCreated(w, r, receipts[r.id].expedition)
      BY <1>3 DEF AnswerFromReceipt, store
    <2>2. CASE AnswerCreated(w, r, receipts[r.id].expedition)
               /\ SameIntent(r, receipts[r.id]) /\ receipts[r.id].request.user = r.user
      <3>1. receipts[r.id].request = r
        BY <2>1, <2>2, SameRequest
      <3> QED
        BY <1>1, <2>1, <2>2, <3>1 DEF AnswerCreated, Bound
    <2>3. CASE ~SameIntent(r, receipts[r.id])
               /\ Answer(w, r, "idempotency_key_reused_with_different_payload")
      BY <1>1, <2>1, <2>3 DEF Answer, Bound, SameIntent
    <2>4. CASE receipts[r.id].request.user # r.user
               /\ Answer(w, r, "receipt_actor_mismatch")
      BY <1>1, <2>1, <2>4 DEF Answer, Bound
    <2> QED
      BY <2>1, <2>2, <2>3, <2>4
  <1>4. CASE \E w \in Workers : RefuseProfile(w) \/ RefusePayload(w)
    BY <1>1, <1>4 DEF RefuseProfile, RefusePayload, Answer, Bound
  <1>5. CASE \E w \in Workers : CreateExpedition(w)
    <2>1. PICK w \in Workers : CreateExpedition(w)
      BY <1>5
    <2> DEFINE r == flight[w].request
               e == flight[w].own
    <2>2. AnswerCreated(w, r, e)
      BY <2>1 DEF CreateExpedition
    <2>3. r.id \in CommandIds /\ receipts'[r.id] # NoReceipt
          /\ receipts' = [receipts EXCEPT ![r.id] = [request |-> r, expedition |-> e]]
      BY <2>1, CreateWrites
    <2>4. receipts'[r.id] = [request |-> r, expedition |-> e]
      BY <2>3 DEF TypeOK
    <2> HIDE DEF r, e
    <2> QED
      BY <1>1, <2>2, <2>3, <2>4 DEF AnswerCreated, Bound
  <1>6. CASE \E w \in Workers : ReplayBootstrap(w)
    <2>1. PICK w \in Workers : ReplayBootstrap(w)
      BY <1>6
    <2>2. flight[w].request \in Requests
      BY <2>1, FlightTypes DEF ReplayBootstrap
    <2> QED
      BY <1>1, <2>1, <2>2, SameRequest DEF ReplayBootstrap, AnswerCreated, Bound, store
  <1>7. CASE \E w \in Workers : RefuseBootstrap(w)
    <2>1. PICK w \in Workers : RefuseBootstrap(w)
      BY <1>7
    <2> DEFINE r == flight[w].request
               code == RefusalCode(r)
    <2>2. UNCHANGED receipts /\ Answer(w, r, code)
      BY <2>1 DEF RefuseBootstrap, store
    <2>3. flight'[v] = [phase |-> "answered", request |-> r, code |-> code]
      BY <1>1, <2>2 DEF Answer
    <2>4. receipts[r.id] # NoReceipt =>
             ~(SameIntent(r, receipts[r.id]) /\ receipts[r.id].request.user = r.user)
      BY <2>1 DEF RefuseBootstrap
    <2>5. code = "expedition_key_already_exists" =>
             \E c \in CommandIds \ {r.id} :
                receipts[c] # NoReceipt /\ receipts[c].request.key = r.key
      BY KeyHasReceipt, RefusalMeaning
    <2>6. code = "idempotency_key_reused_with_different_payload" =>
             receipts[r.id] # NoReceipt /\ ~SameIntent(r, receipts[r.id])
      BY <2>4, RefusalMeaning
    <2>7. code = "receipt_actor_mismatch" =>
             receipts[r.id] # NoReceipt /\ receipts[r.id].request.user # r.user
      BY RefusalMeaning
    <2>8. code # "created"
      BY RefusalMeaning
    <2> HIDE DEF r, code
    <2> QED
      BY <2>2, <2>3, <2>5, <2>6, <2>7, <2>8 DEF Bound, SameIntent
  <1>8. CASE (\E u \in Users : ChangeProfile(u)) \/ UNCHANGED vars
    BY <1>8 DEF ChangeProfile, vars
  <1> QED
    BY <1>2, <1>3, <1>4, <1>5, <1>6, <1>7, <1>8 DEF Next

\* Whatever a captain is told about a command, a key or an Expedition is so.
THEOREM AnswersAreTrue == Spec => []AnswersBind
  <1>1. Init => AnswersBind
    BY DEF Init, AnswersBind, Idle
  <1>2. TypeOK /\ FreshIds /\ ExpeditionsMatchReceipts /\ AnswersBind /\ [Next]_vars
           => AnswersBind'
    <2> SUFFICES ASSUME TypeOK, FreshIds, ExpeditionsMatchReceipts, AnswersBind,
                        [Next]_vars,
                        NEW v \in Workers, flight'[v].phase = "answered"
                 PROVE  Bound(flight[v])'
      BY DEF AnswersBind, Bound
    <2>1. CASE flight'[v] = flight[v]
      <3>1. flight[v].request \in Requests /\ Bound(flight[v])
        BY <2>1, FlightTypes DEF AnswersBind, Bound
      <3>2. \A f : f.request \in Requests /\ Bound(f) => Bound(f)'
        BY BoundKept
      <3> QED
        BY <2>1, <3>1, <3>2
    <2>2. CASE flight'[v] # flight[v]
      BY <2>2, NewAnswerBinds
    <2> QED
      BY <2>1, <2>2
  <1> QED
    BY <1>1, <1>2, OneExpeditionPerReceipt, FreshAlways, BootstrapTypeCorrect, PTL DEF Spec

-----------------------------------------------------------------------------
(***************************************************************************)
(* The Profile                                                             *)
(***************************************************************************)

\* Nobody whose Profile was disabled in the meantime creates an Expedition.
THEOREM ActiveCreators == Spec => CreatorWasActive
  <1> DEFINE Active == \A row \in expeditions' \ expeditions : row.creator \in profiles
  <1>1. TypeOK /\ FreshIds /\ [Next]_vars => [Active]_vars
    <2> SUFFICES ASSUME TypeOK, FreshIds, [Next]_vars PROVE Active
      OBVIOUS
    <2>1. CASE Reading
      BY <2>1 DEF Reading, store
    <2>2. CASE \E w \in Workers : CreateExpedition(w)
      BY <2>2 DEF CreateExpedition, MayCreate
    <2> QED
      BY <2>1, <2>2, StepKinds
  <1>2. []TypeOK /\ []FreshIds /\ [][Next]_vars => [][Active]_vars
    BY <1>1, PTL
  <1> QED
    BY <1>2, BootstrapTypeCorrect, FreshAlways DEF Spec, CreatorWasActive
=============================================================================
