--------------------------- MODULE OfflineSyncProofs ---------------------------
(***************************************************************************)
(* Proofs, for any number of commands and any set of faults, of the safety *)
(* properties of OfflineSync.                                              *)
(*                                                                         *)
(* Base holds for any number of tabs: what a tab is about to send exists,  *)
(* an answer it holds is the server's decision, and what the queue says is *)
(* settled is what the server decided.                                     *)
(*                                                                         *)
(* Order, visibility and finality hold for one tab only, and rest on       *)
(* Ahead: what the tab still has to send is the pending records from the   *)
(* oldest on, without a gap, so that whatever has been sent has nothing    *)
(* pending before it (SentInOrder).                                        *)
(***************************************************************************)
EXTENDS OfflineSync, FiniteSetTheorems, SequenceTheorems, TLAPS

TabStates == [step: Steps, items: Seq(Commands), answer: Answers]

Busy == {"sending", "waiting", "answered", "loaded",
         "refetch_and_continue", "refetch_and_stop"}

\* What holds of a tab in the state x: there is a record for each item, and the
\* answer it holds is the server's.
Sound(x) ==
    /\ \A n \in DOMAIN x.items : x.items[n] \in DOMAIN queue
    /\ x.step \in Busy => x.items # <<>>
    /\ x.step \in {"answered", "loaded"} /\ x.answer \in Decisions
          => decision[Head(x.items)] = x.answer
    /\ x.step = "loaded" => x.answer = "accepted"

ServerSound ==
    /\ decision \in [Commands -> Decisions \union {"none"}]
    /\ log \in Seq(Commands)
    /\ \A m, n \in DOMAIN log : log[m] = log[n] => m = n
    /\ \A c \in Commands : decision[c] = "accepted" <=> \E n \in DOMAIN log : log[n] = c

\* The server has it, or may still get it although nobody waits for the answer.
Sent(c) == c \in orphans \/ decision[c] # "none"

Base ==
    /\ queue \in Seq(Records) /\ Len(queue) <= MaxCommands
    /\ tab \in [Tabs -> TabStates]
    /\ \A t \in Tabs : Sound(tab[t])
    /\ shown \in [Tabs -> Nat] /\ \A t \in Tabs : shown[t] <= Len(log)
    /\ online \in BOOLEAN
    /\ orphans \subseteq Commands
    /\ ServerSound
    /\ \A c \in Commands : Sent(c) => c \in DOMAIN queue
    /\ SettledAgreesWithServer

\* What a tab still has to send: the item it has just settled is behind it.
Remaining(x) ==
    IF x.step \in {"refetch_and_continue", "refetch_and_stop"} THEN Tail(x.items)
                                                               ELSE x.items

\* The list is in order, and is the pending records but for some at the end.
Ahead(list) ==
    /\ \A m, n \in DOMAIN list : m < n => list[m] < list[n]
    /\ \A n \in DOMAIN list :
          list[n] \in DOMAIN queue /\ queue[list[n]].status = "pending"
    /\ \A c \in DOMAIN queue :
          queue[c].status = "pending" =>
             \/ \E n \in DOMAIN list : list[n] = c
             \/ \A n \in DOMAIN list : list[n] < c

SentInOrder ==
    \A d \in Commands :
       Sent(d) => \A c \in DOMAIN queue : c < d => queue[c].status # "pending"

\* A command whose view has been fetched, or that is synced, is in the view.
Visible(t) ==
    /\ tab[t].step = "loaded" =>
          \A n \in DOMAIN log : log[n] = Head(tab[t].items) => n <= shown[t]
    /\ \A c \in DOMAIN queue :
          queue[c].status = "synced" => \A n \in DOMAIN log : log[n] = c => n <= shown[t]

\* What was accepted after an earlier command was synced comes later in the log.
InOrder ==
    \A m, n \in DOMAIN log :
       /\ log[m] < log[n]
       /\ log[m] \in DOMAIN queue /\ queue[log[m]].status = "synced"
       => m < n

-----------------------------------------------------------------------------
(***************************************************************************)
(* Sequences and records                                                   *)
(***************************************************************************)

Statuses == {"pending", "synced", "rejected", "conflict"}
Receipts == Decisions \union {"conflict", "none"}

LEMMA FieldsOfRecords ==
    Records = [status: Statuses, attempted: BOOLEAN, receipt: Receipts]
  BY DEF Records, Statuses, Receipts

LEMMA TwoFields ==
    ASSUME NEW y \in Records, NEW s \in Statuses, NEW r \in Receipts
    PROVE  [y EXCEPT !.status = s, !.receipt = r]
              = [status |-> s, attempted |-> y.attempted, receipt |-> r]
  <1> DEFINE z == [y EXCEPT !.status = s, !.receipt = r]
             w == [status |-> s, attempted |-> y.attempted, receipt |-> r]
  <1>1. /\ z \in Records
        /\ z.status = s /\ z.receipt = r /\ z.attempted = y.attempted
    BY FieldsOfRecords
  <1>2. /\ w \in Records
        /\ w.status = s /\ w.receipt = r /\ w.attempted = y.attempted
    BY FieldsOfRecords
  <1> HIDE DEF z, w
  <1>3. z = w
    BY <1>1, <1>2, FieldsOfRecords
  <1> QED
    BY <1>3 DEF z, w

LEMMA UpdateEffect ==
    ASSUME queue \in Seq(Records), NEW c \in DOMAIN queue,
           NEW s \in Statuses, NEW r \in Receipts, Update(c, s, r)
    PROVE  /\ queue' \in Seq(Records) /\ Len(queue') = Len(queue)
           /\ DOMAIN queue' = DOMAIN queue
           /\ queue'[c].status = s /\ queue'[c].receipt = r
           /\ \A d \in DOMAIN queue : d # c => queue'[d] = queue[d]
  <1>1. queue[c] \in Records
    BY ElementOfSeq
  <1> DEFINE x == [status |-> s, attempted |-> queue[c].attempted, receipt |-> r]
  <1>2. x \in Records /\ x.status = s /\ x.receipt = r
    BY <1>1, FieldsOfRecords
  <1>3. queue' = [queue EXCEPT ![c] = x]
    <2>1. queue' = [queue EXCEPT ![c] = [queue[c] EXCEPT !.status = s, !.receipt = r]]
      BY DEF Update
    <2>2. [queue[c] EXCEPT !.status = s, !.receipt = r] = x
      BY <1>1, TwoFields
    <2> HIDE DEF x
    <2> QED
      BY <2>1, <2>2
  <1> HIDE DEF x
  <1> QED
    BY <1>2, <1>3

\* The state of a tab, field by field.
LEMMA TabFields ==
    ASSUME Base, NEW t \in Tabs
    PROVE  /\ tab[t] \in TabStates
           /\ tab[t].step \in Steps /\ tab[t].answer \in Answers
           /\ tab[t].items \in Seq(Commands)
           /\ tab[t] = [step |-> tab[t].step, items |-> tab[t].items,
                        answer |-> tab[t].answer]
           /\ Sound(tab[t])
  BY DEF Base, TabStates

\* A command a tab is about.
LEMMA CurrentType ==
    ASSUME Base, NEW t \in Tabs, tab[t].items # <<>>
    PROVE  /\ Current(t) \in Commands /\ Current(t) \in DOMAIN queue
           /\ 1 \in DOMAIN tab[t].items /\ Current(t) = tab[t].items[1]
           /\ Tail(tab[t].items) \in Seq(Commands)
           /\ DOMAIN Tail(tab[t].items) = 1..(Len(tab[t].items) - 1)
           /\ \A n \in 1..(Len(tab[t].items) - 1) :
                 Tail(tab[t].items)[n] = tab[t].items[n + 1]
  <1>1. tab[t].items \in Seq(Commands) /\ Sound(tab[t])
    BY TabFields
  <1> QED
    BY <1>1 DEF Current, Sound

LEMMA StepAndAnswer ==
    ASSUME NEW y \in TabStates, NEW s \in Steps, NEW a \in Answers
    PROVE  /\ [y EXCEPT !.step = s] = [step |-> s, items |-> y.items, answer |-> y.answer]
           /\ [y EXCEPT !.step = s, !.answer = a]
                 = [step |-> s, items |-> y.items, answer |-> a]
  <1> DEFINE z == [y EXCEPT !.step = s, !.answer = a]
             w == [step |-> s, items |-> y.items, answer |-> a]
  <1>1. /\ z \in TabStates
        /\ z.step = s /\ z.answer = a /\ z.items = y.items
    BY DEF TabStates
  <1>2. /\ w \in TabStates
        /\ w.step = s /\ w.answer = a /\ w.items = y.items
    BY DEF TabStates
  <1>3. [y EXCEPT !.step = s] = [step |-> s, items |-> y.items, answer |-> y.answer]
    BY DEF TabStates
  <1> HIDE DEF z, w
  <1>4. z = w
    BY <1>1, <1>2 DEF TabStates
  <1> QED
    BY <1>3, <1>4 DEF z, w

\* Each way a tab moves on is a new value of its state.
LEMMA TabMoves ==
    ASSUME Base, NEW t \in Tabs
    PROVE  /\ Stop(t) => tab' = [tab EXCEPT ![t] = IdleTab]
           /\ Continue(t) => tab' = [tab EXCEPT ![t] =
                 [step |-> "next", items |-> Tail(tab[t].items), answer |-> "none"]]
           /\ \A s \in Steps : GoTo(t, s) => tab' = [tab EXCEPT ![t] =
                 [step |-> s, items |-> tab[t].items, answer |-> tab[t].answer]]
  <1>1. tab \in [Tabs -> TabStates] /\ tab[t] \in TabStates /\ tab[t].answer \in Answers
    BY DEF Base, TabStates
  <1>2. ASSUME NEW s \in Steps
        PROVE  /\ [tab[t] EXCEPT !.step = s]
                     = [step |-> s, items |-> tab[t].items, answer |-> tab[t].answer]
               /\ \A a \in Answers : [tab[t] EXCEPT !.step = s, !.answer = a]
                                        = [step |-> s, items |-> tab[t].items, answer |-> a]
    BY <1>1, StepAndAnswer, ZenonT(30)
  <1>3. ASSUME NEW s \in Steps, GoTo(t, s)
        PROVE  tab' = [tab EXCEPT ![t] =
                  [step |-> s, items |-> tab[t].items, answer |-> tab[t].answer]]
    <2>1. tab' = [tab EXCEPT ![t] = [tab[t] EXCEPT !.step = s]]
      BY <1>3 DEF GoTo
    <2> QED
      BY <1>2, <2>1
  <1> QED
    BY <1>3 DEF Stop, Continue

\* Nothing a tab relies on is taken away.
LEMMA SoundPersists ==
    ASSUME NEW x \in TabStates, Sound(x), ServerSound,
           queue \in Seq(Records), queue' \in Seq(Records), Len(queue) <= Len(queue'),
           \A c \in Commands : decision[c] # "none" => decision'[c] = decision[c]
    PROVE  Sound(x)'
  <1>1. DOMAIN queue \subseteq DOMAIN queue'
    OBVIOUS
  <1>2. x.items # <<>> => Head(x.items) \in Commands
    BY DEF TabStates
  <1>3. \A d \in Decisions : d # "none"
    BY DEF Decisions
  <1>4. x.step = "loaded" => x.step \in Busy
    BY DEF Busy
  <1>5. x.step = "answered" => x.step \in Busy
    BY DEF Busy
  <1> QED
    BY <1>1, <1>2, <1>3, <1>4, <1>5 DEF Sound

LEMMA ServerStep ==
    ASSUME ServerSound, NEW c \in Commands, NEW outcome, Processed(c, outcome)
    PROVE  /\ ServerSound'
           /\ \A d \in Commands : decision[d] # "none" => decision'[d] = decision[d]
           /\ \A d \in Commands : d # c => decision'[d] = decision[d]
           /\ outcome \in Decisions => decision'[c] = outcome
           /\ log' = log \/ (log' = Append(log, c) /\ decision[c] = "none")
  <1>1. CASE UNCHANGED serverVars
    BY <1>1 DEF Processed, ServerSound, serverVars, Decisions
  <1>2. CASE /\ decision[c] = "none" /\ outcome \in Decisions
             /\ decision' = [decision EXCEPT ![c] = outcome]
             /\ log' = IF outcome = "accepted" THEN Append(log, c) ELSE log
    <2>1. /\ decision' \in [Commands -> Decisions \union {"none"}]
          /\ decision'[c] = outcome
          /\ \A d \in Commands : d # c => decision'[d] = decision[d]
      BY <1>2 DEF ServerSound
    <2>2. \A n \in DOMAIN log : log[n] # c
      BY <1>2 DEF ServerSound
    <2>3. CASE outcome = "accepted"
      <3>1. /\ log' \in Seq(Commands) /\ Len(log) \in Nat
            /\ DOMAIN log' = DOMAIN log \union {Len(log) + 1}
            /\ log'[Len(log) + 1] = c
            /\ \A n \in DOMAIN log : log'[n] = log[n]
            /\ Len(log) + 1 \notin DOMAIN log
        BY <1>2, <2>3 DEF ServerSound
      <3>2. \A m, n \in DOMAIN log' : log'[m] = log'[n] => m = n
        BY <2>2, <3>1 DEF ServerSound
      <3>3. \A d \in Commands :
               decision'[d] = "accepted" <=> \E n \in DOMAIN log' : log'[n] = d
        BY <2>1, <2>2, <2>3, <3>1 DEF ServerSound
      <3> QED
        BY <1>2, <2>1, <2>3, <3>1, <3>2, <3>3 DEF ServerSound
    <2>4. CASE outcome # "accepted"
      BY <1>2, <2>1, <2>4 DEF ServerSound
    <2> QED
      BY <2>3, <2>4
  <1> QED
    BY <1>1, <1>2 DEF Processed

\* Ranks tell the elements of a finite set of naturals apart.
LEMMA RankGrows ==
    ASSUME NEW S \in SUBSET Nat, IsFiniteSet(S), NEW c \in S, NEW d \in S, c < d
    PROVE  /\ Cardinality({e \in S : e < c}) \in Nat
           /\ Cardinality({e \in S : e < d}) \in Nat
           /\ Cardinality({e \in S : e < c}) < Cardinality({e \in S : e < d})
  <1> DEFINE below == {e \in S : e < c}
  <1>1. /\ IsFiniteSet(below) /\ IsFiniteSet({e \in S : e < d})
        /\ Cardinality(below) \in Nat /\ Cardinality({e \in S : e < d}) \in Nat
    BY FS_Subset, FS_CardinalityType
  <1>2. c \notin below /\ below \union {c} \in SUBSET {e \in S : e < d}
    <2>1. \A x \in Nat : ~(x < x)
      OBVIOUS
    <2>2. \A x, y, z \in Nat : x < y /\ y < z => x < z
      OBVIOUS
    <2>3. c \in Nat /\ d \in Nat
      OBVIOUS
    <2>4. \A e \in below : e \in Nat /\ e < c
      OBVIOUS
    <2>5. \A e \in below : e < d
      BY <2>2, <2>3, <2>4
    <2> QED
      BY <2>1, <2>3, <2>5
  <1> HIDE DEF below
  <1>3. Cardinality(below \union {c}) = Cardinality(below) + 1
    BY <1>1, <1>2, FS_AddElement
  <1>4. Cardinality(below \union {c}) <= Cardinality({e \in S : e < d})
    BY <1>1, <1>2, FS_Subset
  <1> QED
    BY <1>1, <1>3, <1>4 DEF below

\* A finite set of naturals can be listed in order, and such a list has them all.
LEMMA OrderedListing ==
    ASSUME NEW S \in SUBSET Nat, IsFiniteSet(S)
    PROVE  \E list \in [1..Cardinality(S) -> S] :
              \A m, n \in DOMAIN list : m < n => list[m] < list[n]
  <1> DEFINE rank(c) == Cardinality({e \in S : e < c})
             N == Cardinality(S)
             f == [c \in S |-> rank(c) + 1]
  <1>1. N \in Nat
    BY FS_CardinalityType
  <1>2. \A c, d \in S : c < d => rank(c) < rank(d)
    BY RankGrows
  <1>3. ASSUME NEW c \in S
        PROVE  rank(c) \in Nat /\ rank(c) + 1 <= N
    <2> DEFINE below == {e \in S : e < c}
    <2>1. IsFiniteSet(below) /\ Cardinality(below) \in Nat
      BY FS_Subset, FS_CardinalityType
    <2>2. c \notin below /\ below \union {c} \in SUBSET S
      OBVIOUS
    <2> HIDE DEF below
    <2>3. Cardinality(below \union {c}) = Cardinality(below) + 1
      BY <2>1, <2>2, FS_AddElement
    <2>4. Cardinality(below \union {c}) <= N
      BY <2>2, FS_Subset
    <2> QED
      BY <2>1, <2>3, <2>4 DEF below
  <1> HIDE DEF rank, N
  <1>4. f \in [S -> 1..N] /\ \A c, d \in S : f[c] = f[d] => c = d
    <2>1. f \in [S -> 1..N]
      BY <1>1, <1>3
    <2>2. ASSUME NEW c \in S, NEW d \in S, f[c] = f[d]
          PROVE  c = d
      <3>1. rank(c) = rank(d)
        BY <1>3, <2>2
      <3>2. c \in Nat /\ d \in Nat /\ rank(c) \in Nat /\ rank(d) \in Nat
        BY <1>3
      <3>3. ~(c < d) /\ ~(d < c)
        BY <1>2, <3>1, <3>2
      <3> QED
        BY <3>2, <3>3
    <2> QED
      BY <2>1, <2>2
  <1>5. IsFiniteSet(1..N) /\ Cardinality(1..N) = Cardinality(S)
    BY <1>1, FS_Interval DEF N
  <1>6. \A k \in 1..N : \E c \in S : f[c] = k
    <2> HIDE DEF f
    <2>1. f \in Injection(S, 1..N)
      BY <1>4 DEF Injection, IsInjective
    <2>2. f \in Surjection(S, 1..N)
      BY <1>5, <2>1, FS_Injection
    <2> QED
      BY <2>2 DEF Surjection
  <1> DEFINE list == [k \in 1..N |-> CHOOSE c \in S : f[c] = k]
  <1>7. ASSUME NEW k \in 1..N
        PROVE  list[k] \in S /\ rank(list[k]) + 1 = k
    BY <1>6
  <1>8. ASSUME NEW m \in 1..N, NEW n \in 1..N, m < n
        PROVE  list[m] < list[n]
    <2> HIDE DEF list
    <2>1. PICK c \in S : c = list[m]
      BY <1>7
    <2>2. PICK d \in S : d = list[n]
      BY <1>7
    <2>3. rank(c) + 1 = m /\ rank(d) + 1 = n
      BY <1>7, <2>1, <2>2
    <2>4. c \in Nat /\ d \in Nat /\ rank(c) \in Nat /\ rank(d) \in Nat
      BY <1>3
    <2>5. rank(c) < rank(d)
      BY <1>8, <2>3, <2>4
    <2>6. ~(d < c) /\ c # d
      BY <1>2, <2>4, <2>5
    <2> QED
      BY <2>1, <2>2, <2>4, <2>6
  <1>9. list \in [1..N -> S] /\ DOMAIN list = 1..N
    BY <1>7
  <1> HIDE DEF list
  <1> QED
    BY <1>8, <1>9 DEF N

LEMMA ListingIsComplete ==
    ASSUME NEW S \in SUBSET Nat, IsFiniteSet(S), NEW list \in [1..Cardinality(S) -> S],
           \A m, n \in DOMAIN list : m < n => list[m] < list[n]
    PROVE  \A c \in S : \E n \in DOMAIN list : list[n] = c
  <1> DEFINE N == Cardinality(S)
  <1>1. N \in Nat
    BY FS_CardinalityType
  <1>2. ASSUME NEW m \in 1..N, NEW n \in 1..N, list[m] = list[n]
        PROVE  m = n
    <2>1. DOMAIN list = 1..N /\ list[m] \in Nat
      OBVIOUS
    <2>2. m \in Nat /\ n \in Nat /\ ~(list[m] < list[m])
      BY <1>1, <2>1
    <2>3. ~(m < n) /\ ~(n < m)
      BY <1>2, <2>1, <2>2
    <2> QED
      BY <2>2, <2>3
  <1>3. list \in Injection(1..N, S)
    BY <1>2 DEF Injection, IsInjective
  <1>4. IsFiniteSet(1..N) /\ Cardinality(1..N) = Cardinality(S)
    BY <1>1, FS_Interval
  <1> HIDE DEF N
  <1>5. list \in Surjection(1..N, S)
    BY <1>3, <1>4, FS_Injection
  <1> QED
    BY <1>5 DEF Surjection

\* What a cycle lists is every pending record, in order.
LEMMA PendingItemsListed ==
    ASSUME queue \in Seq(Records), Len(queue) <= MaxCommands
    PROVE  /\ PendingItems \in Seq(Commands)
           /\ \A n \in DOMAIN PendingItems : PendingItems[n] \in DOMAIN queue
           /\ Ahead(PendingItems)
  <1> DEFINE P == {c \in DOMAIN queue : queue[c].status = "pending"}
  <1>1. Len(queue) \in Nat /\ DOMAIN queue = 1..Len(queue) /\ DOMAIN queue \subseteq Commands
    BY FaultsAssumption DEF Commands
  <1>2. P \in SUBSET Nat /\ P \in SUBSET (1..Len(queue)) /\ P \subseteq Commands
    BY <1>1
  <1>3. IsFiniteSet(P)
    <2>1. IsFiniteSet(1..Len(queue))
      BY <1>1, FS_Interval
    <2> HIDE DEF P
    <2> QED
      BY <1>2, <2>1, FS_Subset
  <1>4. /\ PendingItems \in [1..Cardinality(P) -> P]
        /\ \A m, n \in DOMAIN PendingItems : m < n => PendingItems[m] < PendingItems[n]
    <2>1. PendingItems = CHOOSE list \in [1..Cardinality(P) -> P] :
                            \A m, n \in DOMAIN list : m < n => list[m] < list[n]
      BY DEF PendingItems
    <2> HIDE DEF P
    <2>2. \E list \in [1..Cardinality(P) -> P] :
             \A m, n \in DOMAIN list : m < n => list[m] < list[n]
      BY <1>2, <1>3, OrderedListing
    <2> QED
      BY <2>1, <2>2
  <1>5. \A c \in P : \E n \in DOMAIN PendingItems : PendingItems[n] = c
    <2> HIDE DEF P
    <2> QED
      BY <1>2, <1>3, <1>4, ListingIsComplete
  <1>6. Cardinality(P) \in Nat
    <2> HIDE DEF P
    <2> QED
      BY <1>3, FS_CardinalityType
  <1>7. PendingItems \in Seq(Commands)
    <2> HIDE DEF P
    <2>1. PICK k \in Nat : k = Cardinality(P)
      BY <1>6
    <2>2. PendingItems \in [1..k -> Commands]
      BY <1>2, <1>4, <2>1
    <2> QED
      BY <2>2
  <1>8. \A n \in DOMAIN PendingItems : PendingItems[n] \in P
    <2> HIDE DEF P
    <2> QED
      BY <1>4
  <1> QED
    BY <1>4, <1>5, <1>7, <1>8 DEF Ahead

-----------------------------------------------------------------------------
(***************************************************************************)
(* Any number of tabs: types, and agreement with the server                *)
(***************************************************************************)

\* One tab moves to the state x; at most it writes a record, fetches a view, or gives
\* up a request.
LEMMA ClientStep ==
    ASSUME Base, NEW t \in Tabs, NEW x \in TabStates, tab' = [tab EXCEPT ![t] = x],
           Sound(x),
           queue' \in Seq(Records), Len(queue') = Len(queue),
           \A c \in DOMAIN queue :
              /\ queue'[c].status = "synced" => decision[c] = "accepted"
              /\ queue'[c].receipt \in Decisions => queue'[c].receipt = decision[c],
           shown' = shown \/ shown' = [shown EXCEPT ![t] = Len(log)],
           \/ orphans' = orphans
           \/ tab[t].items # <<>> /\ orphans' = orphans \union {Current(t)},
           online' = online, UNCHANGED serverVars
    PROVE  Base'
  <1>1. decision' = decision /\ log' = log
    BY DEF serverVars
  <1>2. queue \in Seq(Records) /\ DOMAIN queue' = DOMAIN queue
    BY DEF Base
  <1>3. \A y \in TabStates : Sound(y) => Sound(y)'
    BY <1>1, <1>2, SoundPersists DEF Base
  <1>4. tab' \in [Tabs -> TabStates]
    BY DEF Base
  <1>5. ASSUME NEW u \in Tabs
        PROVE  Sound(tab[u])'
    <2>1. PICK y \in TabStates : y = tab'[u]
      BY <1>4
    <2>2. Sound(y)
      BY <2>1 DEF Base
    <2>3. Sound(y)'
      BY <1>3, <2>2
    <2> QED
      BY <2>1, <2>3 DEF Sound
  <1>6. shown' \in [Tabs -> Nat] /\ \A u \in Tabs : shown'[u] <= Len(log')
    <2>1. /\ Len(log) \in Nat /\ Len(log) <= Len(log)
          /\ shown \in [Tabs -> Nat] /\ \A u \in Tabs : shown[u] <= Len(log)
      BY DEF Base, ServerSound
    <2>2. CASE shown' = [shown EXCEPT ![t] = Len(log)]
      BY <1>1, <2>1, <2>2
    <2> QED
      BY <1>1, <2>1, <2>2
  <1>7. /\ orphans' \subseteq Commands
        /\ \A c \in Commands : Sent(c)' => c \in DOMAIN queue'
    <2>1. tab[t].items # <<>> => Current(t) \in Commands /\ Current(t) \in DOMAIN queue
      BY CurrentType
    <2> QED
      BY <1>1, <1>2, <2>1 DEF Base, Sent
  <1>8. ServerSound'
    BY <1>1 DEF Base, ServerSound
  <1>9. SettledAgreesWithServer'
    BY <1>1, <1>2 DEF SettledAgreesWithServer
  <1> QED
    BY <1>4, <1>5, <1>6, <1>7, <1>8, <1>9 DEF Base

\* States a tab moves to.
LEMMA SoundStates ==
    ASSUME Base, NEW t \in Tabs
    PROVE  /\ IdleTab \in TabStates /\ Sound(IdleTab)
           /\ StartingTab \in TabStates /\ Sound(StartingTab)
           /\ tab[t].items # <<>> =>
                 LET next == [step |-> "next", items |-> Tail(tab[t].items),
                              answer |-> "none"]
                 IN  next \in TabStates /\ Sound(next)
           /\ tab[t].items # <<>> =>
                 \A s \in {"sending", "waiting", "refetch_and_continue",
                           "refetch_and_stop"}, a \in Answers :
                    LET there == [step |-> s, items |-> tab[t].items, answer |-> a]
                    IN  there \in TabStates /\ Sound(there)
           /\ tab[t].items # <<>> =>
                 \A a \in Answers : (a \in Decisions => decision[Current(t)] = a) =>
                    LET there == [step |-> "answered", items |-> tab[t].items,
                                  answer |-> a]
                    IN  there \in TabStates /\ Sound(there)
           /\ tab[t].items # <<>> /\ decision[Current(t)] = "accepted" =>
                 LET there == [step |-> "loaded", items |-> tab[t].items,
                               answer |-> "accepted"]
                 IN  there \in TabStates /\ Sound(there)
  <1>1. tab[t].items \in Seq(Commands) /\ \A n \in DOMAIN tab[t].items : tab[t].items[n] \in DOMAIN queue
    BY TabFields DEF Sound
  <1>2. IdleTab \in TabStates /\ Sound(IdleTab)
    BY DEF IdleTab, TabStates, Sound, Steps, Answers, Busy
  <1>3. StartingTab \in TabStates /\ Sound(StartingTab)
    <2>1. StartingTab = [step |-> "starting", items |-> <<>>, answer |-> "none"]
      BY DEF StartingTab, IdleTab
    <2> QED
      BY <2>1 DEF TabStates, Sound, Steps, Answers, Busy
  <1>4. ASSUME tab[t].items # <<>>,
               NEW x, x = [step |-> "next", items |-> Tail(tab[t].items), answer |-> "none"]
        PROVE  x \in TabStates /\ Sound(x)
    <2>1. x.items \in Seq(Commands) /\ \A n \in DOMAIN x.items : x.items[n] \in DOMAIN queue
      BY <1>1, <1>4, CurrentType
    <2>2. x.step = "next" /\ x.step \in Steps /\ x.answer \in Answers
      BY <1>4 DEF Steps, Answers
    <2> QED
      BY <1>4, <2>1, <2>2 DEF TabStates, Sound, Busy
  <1>5. ASSUME tab[t].items # <<>>, NEW s \in Steps, NEW a \in Answers,
               NEW x, x = [step |-> s, items |-> tab[t].items, answer |-> a],
               s \in {"answered", "loaded"} /\ a \in Decisions => decision[Current(t)] = a,
               s = "loaded" => a = "accepted"
        PROVE  x \in TabStates /\ Sound(x)
    BY <1>1, <1>5 DEF TabStates, Sound, Current
  <1>6. /\ {"sending", "waiting", "refetch_and_continue", "refetch_and_stop",
            "answered", "loaded"} \subseteq Steps
        /\ "accepted" \in Answers
    BY DEF Steps, Answers, Decisions
  <1>7. ASSUME tab[t].items # <<>>,
               NEW s \in {"sending", "waiting", "refetch_and_continue", "refetch_and_stop"},
               NEW a \in Answers
        PROVE  LET there == [step |-> s, items |-> tab[t].items, answer |-> a]
               IN  there \in TabStates /\ Sound(there)
    BY <1>5, <1>6, <1>7
  <1>8. ASSUME tab[t].items # <<>>, NEW a \in Answers,
               a \in Decisions => decision[Current(t)] = a
        PROVE  LET there == [step |-> "answered", items |-> tab[t].items, answer |-> a]
               IN  there \in TabStates /\ Sound(there)
    BY <1>5, <1>6, <1>8
  <1>9. ASSUME tab[t].items # <<>>, decision[Current(t)] = "accepted"
        PROVE  LET there == [step |-> "loaded", items |-> tab[t].items,
                             answer |-> "accepted"]
               IN  there \in TabStates /\ Sound(there)
    BY <1>5, <1>6, <1>9
  <1> QED
    BY <1>2, <1>3, <1>4, <1>7, <1>8, <1>9

\* What a record says is settled stays what the server decided.
Agreeing ==
    /\ queue' \in Seq(Records) /\ Len(queue') = Len(queue)
    /\ \A c \in DOMAIN queue :
          /\ queue'[c].status = "synced" => decision[c] = "accepted"
          /\ queue'[c].receipt \in Decisions => queue'[c].receipt = decision[c]

LEMMA SameQueueAgrees ==
    ASSUME Base, queue' = queue
    PROVE  Agreeing
  BY DEF Base, SettledAgreesWithServer, Agreeing

LEMMA UpdateAgrees ==
    ASSUME Base, NEW c \in DOMAIN queue, NEW s \in Statuses, NEW r \in Receipts,
           Update(c, s, r),
           s = "synced" => decision[c] = "accepted",
           r \in Decisions => r = decision[c]
    PROVE  Agreeing
  <1>1. /\ queue' \in Seq(Records) /\ Len(queue') = Len(queue)
        /\ DOMAIN queue' = DOMAIN queue
        /\ queue'[c].status = s /\ queue'[c].receipt = r
        /\ \A d \in DOMAIN queue : d # c => queue'[d] = queue[d]
    BY UpdateEffect DEF Base
  <1> QED
    BY <1>1 DEF Base, SettledAgreesWithServer, Agreeing

\* RecordAttempt and HandleError write one field of a record.
LEMMA OneField ==
    ASSUME Base, NEW c \in DOMAIN queue
    PROVE  /\ queue' = [queue EXCEPT ![c].attempted = TRUE] =>
                 /\ Agreeing
                 /\ \A d \in DOMAIN queue : queue'[d].status = queue[d].status
           /\ queue' = [queue EXCEPT ![c].status = "pending"] =>
                 /\ Agreeing
                 /\ queue'[c].status = "pending"
                 /\ \A d \in DOMAIN queue : d # c => queue'[d] = queue[d]
  <1>1. queue \in Seq(Records) /\ queue[c] \in Records
    BY ElementOfSeq DEF Base
  <1>2. "pending" \in Statuses /\ "pending" # "synced"
    BY DEF Statuses
  <1>3. ASSUME queue' = [queue EXCEPT ![c].attempted = TRUE]
        PROVE  /\ queue' \in Seq(Records) /\ Len(queue') = Len(queue)
               /\ \A d \in DOMAIN queue : /\ queue'[d].status = queue[d].status
                                          /\ queue'[d].receipt = queue[d].receipt
    <2> DEFINE x == [queue[c] EXCEPT !.attempted = TRUE]
    <2>1. x \in Records /\ x.status = queue[c].status /\ x.receipt = queue[c].receipt
      BY <1>1, FieldsOfRecords
    <2>2. queue' = [queue EXCEPT ![c] = x]
      BY <1>3
    <2> HIDE DEF x
    <2> QED
      BY <1>1, <2>1, <2>2
  <1>4. ASSUME queue' = [queue EXCEPT ![c].status = "pending"]
        PROVE  /\ queue' \in Seq(Records) /\ Len(queue') = Len(queue)
               /\ queue'[c].status = "pending" /\ queue'[c].receipt = queue[c].receipt
               /\ \A d \in DOMAIN queue : d # c => queue'[d] = queue[d]
    <2> DEFINE x == [queue[c] EXCEPT !.status = "pending"]
    <2>1. x \in Records /\ x.status = "pending" /\ x.receipt = queue[c].receipt
      BY <1>1, <1>2, FieldsOfRecords
    <2>2. queue' = [queue EXCEPT ![c] = x]
      BY <1>4
    <2> HIDE DEF x
    <2> QED
      BY <1>1, <2>1, <2>2
  <1>5. SettledAgreesWithServer
    BY DEF Base
  <1> QED
    BY <1>2, <1>3, <1>4, <1>5 DEF SettledAgreesWithServer, Agreeing

LEMMA ReloadBase ==
    ASSUME Base, NEW t \in Tabs, Reload(t)
    PROVE  Base'
  <1>1. PICK x : x = IF online THEN StartingTab ELSE IdleTab
    OBVIOUS
  <1>2. x \in TabStates /\ Sound(x)
    BY <1>1, SoundStates, ZenonT(30) DEF Sound
  <1>3. Agreeing
    BY SameQueueAgrees DEF Reload
  <1>4. tab[t].step = "waiting" => tab[t].items # <<>>
    BY TabFields DEF Sound, Busy
  <1> QED
    BY <1>1, <1>2, <1>3, <1>4, ClientStep DEF Reload, Agreeing

LEMMA ListQueueBase ==
    ASSUME Base, NEW t \in Tabs, ListQueue(t)
    PROVE  Base'
  <1>1. PICK x : x = IF online
                     THEN [step |-> "next", answer |-> "none", items |-> PendingItems]
                     ELSE IdleTab
    OBVIOUS
  <1>2. tab' = [tab EXCEPT ![t] = x]
    BY <1>1 DEF ListQueue, Stop
  <1>3. x \in TabStates /\ Sound(x)
    <2>1. CASE online
      <3>1. x.items = PendingItems /\ x.step = "next" /\ x.answer = "none"
        BY <1>1, <2>1
      <3>2. /\ PendingItems \in Seq(Commands)
            /\ \A n \in DOMAIN PendingItems : PendingItems[n] \in DOMAIN queue
        BY PendingItemsListed DEF Base
      <3>3. x \in TabStates
        BY <1>1, <2>1, <3>2 DEF TabStates, Steps, Answers
      <3> QED
        BY <3>1, <3>2, <3>3 DEF Sound, Busy
    <2> QED
      BY <1>1, <2>1, SoundStates DEF Sound
  <1>4. Agreeing
    BY SameQueueAgrees DEF ListQueue
  <1> QED
    BY <1>2, <1>3, <1>4, ClientStep DEF ListQueue, Agreeing

\* The tab stops, and nothing but a record or a view has changed.
LEMMA StopBase ==
    ASSUME Base, NEW t \in Tabs, Stop(t), Agreeing,
           UNCHANGED <<shown, online, orphans, serverVars>>
    PROVE  Base'
  <1>1. PICK x : x = IdleTab
    OBVIOUS
  <1>2. x \in TabStates /\ Sound(x)
    BY <1>1, SoundStates DEF Sound
  <1>3. tab' = [tab EXCEPT ![t] = x]
    BY <1>1 DEF Stop
  <1> QED
    BY <1>2, <1>3, ClientStep DEF Agreeing

\* The tab goes on with the next item.
LEMMA ContinueBase ==
    ASSUME Base, NEW t \in Tabs, tab[t].items # <<>>, Continue(t), Agreeing,
           shown' = shown \/ shown' = [shown EXCEPT ![t] = Len(log)],
           UNCHANGED <<online, orphans, serverVars>>
    PROVE  Base'
  <1>1. PICK x : x = [step |-> "next", items |-> Tail(tab[t].items), answer |-> "none"]
    OBVIOUS
  <1>2. x \in TabStates /\ Sound(x)
    BY <1>1, SoundStates, ZenonT(30) DEF Sound
  <1>3. tab' = [tab EXCEPT ![t] = x]
    BY <1>1 DEF Continue
  <1> QED
    BY <1>2, <1>3, ClientStep DEF Agreeing

\* The tab stays with its item.
LEMMA StayBase ==
    ASSUME Base, NEW t \in Tabs, tab[t].items # <<>>, NEW s \in Steps, NEW a \in Answers,
           tab' = [tab EXCEPT ![t] = [step |-> s, items |-> tab[t].items, answer |-> a]],
           \/ s \in {"sending", "waiting", "refetch_and_continue", "refetch_and_stop"}
           \/ s = "answered" /\ a \notin Decisions
           \/ s = "loaded" /\ a = "accepted" /\ decision[Current(t)] = "accepted",
           Agreeing,
           shown' = shown \/ shown' = [shown EXCEPT ![t] = Len(log)],
           orphans' = orphans \/ orphans' = orphans \union {Current(t)},
           UNCHANGED <<online, serverVars>>
    PROVE  Base'
  <1>1. PICK x : x = [step |-> s, items |-> tab[t].items, answer |-> a]
    OBVIOUS
  <1>2. x \in TabStates /\ Sound(x)
    <2> DEFINE y == [step |-> s, items |-> tab[t].items, answer |-> a]
    <2>1. y \in TabStates /\ Sound(y)
      <3>1. CASE s \in {"sending", "waiting", "refetch_and_continue", "refetch_and_stop"}
        BY <3>1, SoundStates
      <3>2. CASE s = "answered" /\ a \notin Decisions
        BY <3>2, SoundStates
      <3>3. CASE s = "loaded" /\ a = "accepted" /\ decision[Current(t)] = "accepted"
        BY <3>3, SoundStates
      <3> QED
        BY <3>1, <3>2, <3>3
    <2> HIDE DEF y
    <2>2. x = y
      BY <1>1 DEF y
    <2> QED
      BY <2>1, <2>2 DEF Sound
  <1>3. tab' = [tab EXCEPT ![t] = x]
    BY <1>1
  <1> QED
    BY <1>2, <1>3, ClientStep DEF Agreeing

LEMMA RecordAttemptBase ==
    ASSUME Base, NEW t \in Tabs, RecordAttempt(t)
    PROVE  Base'
  <1>1. CASE online /\ tab[t].items # <<>>
    <2>1. Agreeing
      BY <1>1, CurrentType, OneField DEF RecordAttempt
    <2>2. /\ tab' = [tab EXCEPT ![t] = [step |-> "sending", items |-> tab[t].items,
                                        answer |-> tab[t].answer]]
          /\ "sending" \in Steps /\ tab[t].answer \in Answers
      BY <1>1, TabMoves, TabFields DEF RecordAttempt, Steps
    <2> QED
      BY <1>1, <2>1, <2>2, StayBase DEF RecordAttempt
  <1>2. CASE ~(online /\ tab[t].items # <<>>)
    BY <1>2, SameQueueAgrees, StopBase DEF RecordAttempt
  <1> QED
    BY <1>1, <1>2

\* A tab that is busy has an item.
LEMMA BusyHasItem ==
    ASSUME Base, NEW t \in Tabs, tab[t].step \in Busy
    PROVE  /\ tab[t].items # <<>>
           /\ Current(t) \in Commands /\ Current(t) \in DOMAIN queue
  BY TabFields, CurrentType DEF Sound

LEMMA DispatchBase ==
    ASSUME Base, NEW t \in Tabs, Dispatch(t)
    PROVE  Base'
  <1>1. tab[t].items # <<>> /\ "waiting" \in Steps /\ tab[t].answer \in Answers
    BY BusyHasItem, TabFields DEF Dispatch, Busy, Steps
  <1>2. tab' = [tab EXCEPT ![t] = [step |-> "waiting", items |-> tab[t].items,
                                   answer |-> tab[t].answer]]
    BY <1>1, TabMoves DEF Dispatch
  <1> QED
    BY <1>1, <1>2, SameQueueAgrees, StayBase DEF Dispatch

\* An answer that is not the server's decision.
LEMMA FailureBase ==
    ASSUME Base, NEW t \in Tabs, tab[t].step \in Busy,
           NEW a \in {"auth_unavailable", "terminal_error", "retryable_error"},
           tab' = [tab EXCEPT ![t].step = "answered", ![t].answer = a],
           orphans' = orphans \/ orphans' = orphans \union {Current(t)},
           UNCHANGED <<queue, shown, online, serverVars>>
    PROVE  Base'
  <1>1. tab[t].items # <<>> /\ "answered" \in Steps /\ a \in Answers /\ a \notin Decisions
    BY BusyHasItem DEF Steps, Answers, Decisions
  <1>2. tab' = [tab EXCEPT ![t] = [step |-> "answered", items |-> tab[t].items,
                                   answer |-> a]]
    <2>1. tab \in [Tabs -> TabStates] /\ tab[t] \in TabStates
      BY DEF Base
    <2>2. tab' = [tab EXCEPT ![t] = [tab[t] EXCEPT !.step = "answered", !.answer = a]]
      BY <2>1
    <2>3. [tab[t] EXCEPT !.step = "answered", !.answer = a]
             = [step |-> "answered", items |-> tab[t].items, answer |-> a]
      BY <1>1, <2>1, StepAndAnswer, ZenonT(30)
    <2> QED
      BY <2>2, <2>3
  <1> QED
    BY <1>1, <1>2, SameQueueAgrees, StayBase

LEMMA HandleErrorBase ==
    ASSUME Base, NEW t \in Tabs, HandleError(t)
    PROVE  Base'
  <1>1. tab[t].items # <<>> /\ Current(t) \in DOMAIN queue
    BY BusyHasItem DEF HandleError, Busy
  <1>2. CASE /\ queue' = [queue EXCEPT ![Current(t)].status = "pending"]
             /\ Stop(t)
    BY <1>1, <1>2, OneField, StopBase DEF HandleError
  <1>3. CASE Update(Current(t), "rejected", "none") /\ Continue(t)
    <2>1. "rejected" \in Statuses /\ "none" \in Receipts /\ "none" \notin Decisions
      BY DEF Statuses, Receipts, Decisions
    <2>2. Agreeing
      BY <1>1, <1>3, <2>1, UpdateAgrees
    <2> QED
      BY <1>1, <1>3, <2>2, ContinueBase DEF HandleError
  <1> QED
    BY <1>2, <1>3 DEF HandleError

LEMMA FetchAfterAcceptedBase ==
    ASSUME Base, NEW t \in Tabs, FetchAfterAccepted(t)
    PROVE  Base'
  <1>1. tab[t].items # <<>> /\ Current(t) \in DOMAIN queue
    BY BusyHasItem DEF FetchAfterAccepted, Busy
  <1>2. tab[t].answer = "accepted" /\ decision[Current(t)] = "accepted"
    BY TabFields DEF FetchAfterAccepted, Sound, Decisions, Current
  <1>3. CASE GoTo(t, "loaded") /\ queue' = queue
    <2>1. /\ tab' = [tab EXCEPT ![t] = [step |-> "loaded", items |-> tab[t].items,
                                        answer |-> tab[t].answer]]
          /\ "loaded" \in Steps /\ tab[t].answer \in Answers
      BY <1>3, TabMoves, TabFields DEF Steps
    <2>2. shown' = shown \/ shown' = [shown EXCEPT ![t] = Len(log)]
      BY DEF FetchAfterAccepted
    <2>3. UNCHANGED <<online, orphans, serverVars>>
      BY DEF FetchAfterAccepted
    <2> QED
      BY <1>1, <1>2, <1>3, <2>1, <2>2, <2>3, SameQueueAgrees, StayBase
  <1>4. CASE Update(Current(t), "pending", "accepted") /\ Stop(t) /\ shown' = shown
    <2>1. "pending" \in Statuses /\ "accepted" \in Receipts
      BY DEF Statuses, Receipts, Decisions
    <2>2. Agreeing
      BY <1>1, <1>2, <1>4, <2>1, UpdateAgrees
    <2> QED
      BY <1>1, <1>4, <2>2, StopBase DEF FetchAfterAccepted
  <1> QED
    BY <1>3, <1>4 DEF FetchAfterAccepted

LEMMA MarkSyncedBase ==
    ASSUME Base, NEW t \in Tabs, MarkSynced(t)
    PROVE  Base'
  <1>1. tab[t].items # <<>> /\ Current(t) \in DOMAIN queue
    BY BusyHasItem DEF MarkSynced, Busy
  <1>2. decision[Current(t)] = "accepted"
    BY TabFields DEF MarkSynced, Sound, Decisions, Current
  <1>3. "synced" \in Statuses /\ "accepted" \in Receipts
    BY DEF Statuses, Receipts, Decisions
  <1>4. Agreeing
    BY <1>1, <1>2, <1>3, UpdateAgrees DEF MarkSynced
  <1> QED
    BY <1>1, <1>4, ContinueBase DEF MarkSynced

LEMMA MarkRefusedBase ==
    ASSUME Base, NEW t \in Tabs, MarkRefused(t)
    PROVE  Base'
  <1>1. tab[t].items # <<>> /\ Current(t) \in DOMAIN queue /\ tab[t].answer \in Answers
    BY BusyHasItem, TabFields DEF MarkRefused, Busy
  <1>2. CASE /\ tab[t].answer = "rejected"
             /\ Update(Current(t), "rejected", "rejected")
             /\ GoTo(t, "refetch_and_continue")
    <2>1. decision[Current(t)] = "rejected"
      BY <1>2, TabFields DEF MarkRefused, Sound, Decisions, Current
    <2>2. /\ "rejected" \in Statuses /\ "rejected" \in Receipts
          /\ "refetch_and_continue" \in Steps /\ "rejected" # "synced"
      BY DEF Statuses, Receipts, Decisions, Steps
    <2>3. Agreeing
      BY <1>1, <1>2, <2>1, <2>2, UpdateAgrees
    <2>4. tab' = [tab EXCEPT ![t] = [step |-> "refetch_and_continue",
                                     items |-> tab[t].items, answer |-> tab[t].answer]]
      BY <1>2, <2>2, TabMoves
    <2> QED
      BY <1>1, <2>2, <2>3, <2>4, StayBase DEF MarkRefused
  <1>3. CASE /\ tab[t].answer = "conflict"
             /\ Update(Current(t), "conflict", "conflict")
             /\ GoTo(t, "refetch_and_stop")
    <2>1. /\ "conflict" \in Statuses /\ "conflict" \in Receipts
          /\ "refetch_and_stop" \in Steps /\ "conflict" \notin Decisions
          /\ "conflict" # "synced"
      BY DEF Statuses, Receipts, Decisions, Steps
    <2>2. Agreeing
      BY <1>1, <1>3, <2>1, UpdateAgrees
    <2>3. tab' = [tab EXCEPT ![t] = [step |-> "refetch_and_stop",
                                     items |-> tab[t].items, answer |-> tab[t].answer]]
      BY <1>3, <2>1, TabMoves
    <2> QED
      BY <1>1, <2>1, <2>2, <2>3, StayBase DEF MarkRefused
  <1> QED
    BY <1>2, <1>3 DEF MarkRefused

LEMMA FetchAfterRefusedBase ==
    ASSUME Base, NEW t \in Tabs, FetchAfterRefused(t)
    PROVE  Base'
  <1>1. tab[t].items # <<>>
    BY BusyHasItem DEF FetchAfterRefused, Busy
  <1>2. Agreeing /\ UNCHANGED <<online, orphans, serverVars>>
    BY SameQueueAgrees DEF FetchAfterRefused
  <1>3. CASE Continue(t)
    BY <1>1, <1>2, <1>3, ContinueBase DEF FetchAfterRefused
  <1>4. CASE Stop(t)
    <2>1. PICK x : x = IdleTab
      OBVIOUS
    <2>2. x \in TabStates /\ Sound(x) /\ tab' = [tab EXCEPT ![t] = x]
      BY <1>4, <2>1, SoundStates DEF Sound, Stop
    <2> QED
      BY <1>2, <2>2, ClientStep DEF FetchAfterRefused, Agreeing
  <1> QED
    BY <1>3, <1>4 DEF FetchAfterRefused

\* The server decides, or replays, what a tab waits for.
LEMMA ServerAnswersBase ==
    ASSUME Base, NEW t \in Tabs, ServerAnswers(t)
    PROVE  Base'
  <1>1. tab[t].items # <<>> /\ Current(t) \in Commands /\ Current(t) \in DOMAIN queue
    BY BusyHasItem DEF ServerAnswers, Busy
  <1>2. PICK a \in Decisions \union {"conflict"} :
               /\ Processed(Current(t), a)
               /\ tab' = [tab EXCEPT ![t].step = "answered", ![t].answer = a]
    BY DEF ServerAnswers
  <1>3. PICK c \in Commands : c = Current(t)
    BY <1>1
  <1>4. /\ ServerSound'
        /\ \A d \in Commands : decision[d] # "none" => decision'[d] = decision[d]
        /\ \A d \in Commands : d # c => decision'[d] = decision[d]
        /\ a \in Decisions => decision'[c] = a
        /\ log' = log \/ log' = Append(log, c)
    BY <1>2, <1>3, ServerStep DEF Base
  <1>5. "answered" \in Steps /\ a \in Answers
    BY DEF Steps, Answers
  <1>6. PICK x : x = [step |-> "answered", items |-> tab[t].items, answer |-> a]
    OBVIOUS
  <1>7. tab' = [tab EXCEPT ![t] = x]
    <2>1. tab \in [Tabs -> TabStates] /\ tab[t] \in TabStates
      BY DEF Base
    <2>2. tab' = [tab EXCEPT ![t] = [tab[t] EXCEPT !.step = "answered", !.answer = a]]
      BY <1>2, <2>1
    <2>3. [tab[t] EXCEPT !.step = "answered", !.answer = a]
             = [step |-> "answered", items |-> tab[t].items, answer |-> a]
      BY <1>5, <2>1, StepAndAnswer, ZenonT(30)
    <2> QED
      BY <1>6, <2>2, <2>3
  <1>8. x \in TabStates /\ tab' \in [Tabs -> TabStates]
    <2>1. x \in TabStates
      BY <1>5, <1>6, TabFields DEF TabStates
    <2> QED
      BY <1>7, <2>1 DEF Base
  <1>9. queue \in Seq(Records) /\ queue' = queue
    BY DEF Base, ServerAnswers
  <1>10. ASSUME NEW u \in Tabs
         PROVE  Sound(tab[u])'
    <2>1. CASE u = t
      <3>1. tab'[u] = x
        BY <1>7, <2>1 DEF Base
      <3>2. Sound(tab[t])
        BY TabFields
      <3> QED
        BY <1>1, <1>3, <1>4, <1>6, <1>9, <3>1, <3>2 DEF Sound, Current
    <2>2. CASE u # t
      <3>1. PICK y \in TabStates : y = tab[u]
        BY DEF Base
      <3>2. tab'[u] = y /\ Sound(y)
        BY <1>7, <2>2, <3>1 DEF Base
      <3>3. Sound(y)'
        BY <1>4, <1>9, <3>2, SoundPersists DEF Base
      <3> QED
        BY <3>2, <3>3 DEF Sound
    <2> QED
      BY <2>1, <2>2
  <1>11. shown' \in [Tabs -> Nat] /\ \A u \in Tabs : shown'[u] <= Len(log')
    <2>1. Len(log) \in Nat /\ Len(log') \in Nat /\ Len(log) <= Len(log')
      BY <1>4 DEF Base, ServerSound
    <2>2. shown' = shown /\ shown \in [Tabs -> Nat] /\ \A u \in Tabs : shown[u] <= Len(log)
      BY DEF Base, ServerAnswers
    <2> QED
      BY <2>1, <2>2
  <1>12. \A d \in Commands : Sent(d)' => d \in DOMAIN queue'
    BY <1>1, <1>3, <1>4, <1>9 DEF Base, Sent, ServerAnswers
  <1>13. SettledAgreesWithServer'
    <2>1. DOMAIN queue \subseteq Commands
      BY FaultsAssumption DEF Base, Commands
    <2>2. \A d \in Decisions : d # "none"
      BY DEF Decisions
    <2> QED
      BY <1>4, <1>9, <2>1, <2>2 DEF Base, SettledAgreesWithServer, Decisions
  <1> QED
    BY <1>4, <1>8, <1>9, <1>10, <1>11, <1>12, <1>13 DEF Base, ServerAnswers

LEMMA OrphanBase ==
    ASSUME Base, NEW c \in Commands, ServerProcessesOrphan(c)
    PROVE  Base'
  <1>1. PICK a : Processed(c, a)
    BY DEF ServerProcessesOrphan
  <1>2. /\ ServerSound'
        /\ \A d \in Commands : decision[d] # "none" => decision'[d] = decision[d]
        /\ \A d \in Commands : d # c => decision'[d] = decision[d]
        /\ log' = log \/ log' = Append(log, c)
    BY <1>1, ServerStep DEF Base
  <1>3. /\ queue \in Seq(Records) /\ queue' = queue /\ tab' = tab /\ shown' = shown
        /\ online' = online /\ orphans' = orphans \ {c} /\ c \in orphans
    BY DEF Base, ServerProcessesOrphan, clientVars
  <1>4. ASSUME NEW u \in Tabs
        PROVE  Sound(tab[u])'
    <2>1. PICK y \in TabStates : y = tab[u]
      BY DEF Base
    <2>2. tab'[u] = y /\ Sound(y)
      BY <1>3, <2>1 DEF Base
    <2>3. Sound(y)'
      BY <1>2, <1>3, <2>2, SoundPersists DEF Base
    <2> QED
      BY <2>2, <2>3 DEF Sound
  <1>5. \A u \in Tabs : shown'[u] <= Len(log')
    <2>1. Len(log) \in Nat /\ Len(log') \in Nat /\ Len(log) <= Len(log')
      BY <1>2 DEF Base, ServerSound
    <2>2. shown \in [Tabs -> Nat] /\ \A u \in Tabs : shown[u] <= Len(log)
      BY DEF Base
    <2> QED
      BY <1>3, <2>1, <2>2
  <1>6. \A d \in Commands : Sent(d)' => d \in DOMAIN queue'
    BY <1>2, <1>3 DEF Base, Sent
  <1>7. SettledAgreesWithServer'
    <2>1. DOMAIN queue \subseteq Commands
      BY FaultsAssumption DEF Base, Commands
    <2> QED
      BY <1>2, <1>3, <2>1 DEF Base, SettledAgreesWithServer, Decisions
  <1> QED
    BY <1>2, <1>3, <1>4, <1>5, <1>6, <1>7 DEF Base

\* A trigger leaves a tab that is running alone, and starts one that is not.
LEMMA TriggeredSound ==
    ASSUME Base, NEW u \in Tabs
    PROVE  Triggered(u) \in TabStates /\ Sound(Triggered(u))
  <1>1. CASE tab[u].step = "idle"
    BY <1>1, SoundStates DEF Triggered, Sound
  <1>2. CASE tab[u].step # "idle"
    <2>1. Triggered(u) = tab[u]
      BY <1>2 DEF Triggered
    <2> QED
      BY <2>1, TabFields DEF Sound
  <1> QED
    BY <1>1, <1>2

LEMMA EnqueueBase ==
    ASSUME Base, NEW t \in Tabs, Enqueue(t)
    PROVE  Base'
  <1> DEFINE r == [status |-> "pending", attempted |-> FALSE, receipt |-> "none"]
  <1>1. r \in Records /\ r.status = "pending" /\ r.receipt = "none"
    BY DEF Records
  <1>2. queue' = Append(queue, r) /\ Len(queue) < MaxCommands
    BY DEF Enqueue
  <1> HIDE DEF r
  <1>3. /\ queue \in Seq(Records) /\ queue' \in Seq(Records)
        /\ Len(queue) \in Nat /\ Len(queue') = Len(queue) + 1 /\ Len(queue') <= MaxCommands
        /\ DOMAIN queue' = DOMAIN queue \union {Len(queue) + 1}
        /\ \A c \in DOMAIN queue : queue'[c] = queue[c]
        /\ queue'[Len(queue) + 1] = r
    BY <1>1, <1>2, FaultsAssumption DEF Base
  <1>4. UNCHANGED <<shown, online, orphans, decision, log>>
    BY DEF Enqueue, serverVars
  <1>5. /\ tab' \in [Tabs -> TabStates]
        /\ \A u \in Tabs : tab'[u] = tab[u] \/ tab'[u] = Triggered(u)
    BY TriggeredSound DEF Base, Enqueue
  <1>6. ASSUME NEW u \in Tabs
        PROVE  Sound(tab[u])'
    <2>1. PICK y \in TabStates : y = tab'[u]
      BY <1>5
    <2>2. Sound(y)
      BY <1>5, <2>1, TriggeredSound, TabFields DEF Sound
    <2>3. Sound(y)'
      BY <1>3, <1>4, <2>2, SoundPersists DEF Base
    <2> QED
      BY <2>1, <2>3 DEF Sound
  <1>7. ServerSound' /\ \A c \in Commands : Sent(c)' => c \in DOMAIN queue'
    BY <1>3, <1>4 DEF Base, ServerSound, Sent
  <1>8. SettledAgreesWithServer'
    BY <1>1, <1>3, <1>4 DEF Base, SettledAgreesWithServer, Decisions
  <1> QED
    BY <1>3, <1>4, <1>5, <1>6, <1>7, <1>8 DEF Base

LEMMA GoOnlineBase ==
    ASSUME Base, GoOnline
    PROVE  Base'
  <1>1. UNCHANGED <<queue, shown, orphans, decision, log>> /\ online' = TRUE
    BY DEF GoOnline, serverVars
  <1>2. /\ tab' \in [Tabs -> TabStates]
        /\ \A u \in Tabs : tab'[u] = Triggered(u)
    BY TriggeredSound DEF GoOnline
  <1>3. ASSUME NEW u \in Tabs
        PROVE  Sound(tab[u])'
    <2>1. PICK y \in TabStates : y = tab'[u]
      BY <1>2
    <2>2. Sound(y)
      BY <1>2, <2>1, TriggeredSound DEF Sound
    <2> QED
      BY <1>1, <2>1, <2>2 DEF Sound
  <1>4. ServerSound' /\ SettledAgreesWithServer'
    BY <1>1 DEF Base, ServerSound, SettledAgreesWithServer
  <1> QED
    BY <1>1, <1>2, <1>3, <1>4 DEF Base, Sent

LEMMA QuietBase ==
    ASSUME Base, UNCHANGED <<queue, tab, shown, orphans, decision, log>>, online' \in BOOLEAN
    PROVE  Base'
  BY DEF Base, Sound, ServerSound, Sent, SettledAgreesWithServer

LEMMA BaseStep ==
    ASSUME Base, [Next]_vars
    PROVE  Base'
  <1>1. ASSUME NEW t \in Tabs, NotAuthenticated(t) \/ ServerRefuses(t) \/ DeliveryFails(t)
        PROVE  Base'
    <2>1. tab[t].step \in Busy
      BY <1>1 DEF NotAuthenticated, ServerRefuses, DeliveryFails, Busy
    <2>2. PICK a \in {"auth_unavailable", "terminal_error", "retryable_error"} :
             tab' = [tab EXCEPT ![t].step = "answered", ![t].answer = a]
      BY <1>1 DEF NotAuthenticated, ServerRefuses, DeliveryFails
    <2> QED
      BY <1>1, <2>1, <2>2, FailureBase DEF NotAuthenticated, ServerRefuses, DeliveryFails
  <1>2. ASSUME NEW t \in Tabs, Settle(t)
        PROVE  Base'
    BY <1>2, HandleErrorBase, FetchAfterAcceptedBase, MarkSyncedBase, MarkRefusedBase,
       FetchAfterRefusedBase DEF Settle
  <1>3. CASE GoOffline
    BY <1>3, QuietBase DEF GoOffline, serverVars
  <1>4. CASE UNCHANGED vars
    <2>1. online' \in BOOLEAN
      BY <1>4 DEF vars, Base
    <2> QED
      BY <1>4, <2>1, QuietBase DEF vars
  <1> QED
    BY <1>1, <1>2, <1>3, <1>4, EnqueueBase, ReloadBase, ListQueueBase, RecordAttemptBase,
       DispatchBase, ServerAnswersBase, GoOnlineBase, OrphanBase DEF Next

LEMMA BaseInit ==
    ASSUME Init
    PROVE  Base
  <1>1. IdleTab \in TabStates /\ Sound(IdleTab)
    BY DEF IdleTab, TabStates, Sound, Steps, Answers, Busy
  <1>2. tab \in [Tabs -> TabStates] /\ \A t \in Tabs : tab[t] = IdleTab
    BY <1>1 DEF Init
  <1>3. \A t \in Tabs : Sound(tab[t])
    BY <1>1, <1>2 DEF Sound
  <1>4. ServerSound
    BY DEF Init, ServerSound, Decisions
  <1> QED
    BY <1>2, <1>3, <1>4, FaultsAssumption DEF Init, Base, Sent, SettledAgreesWithServer

\* The part of the invariant that any number of tabs keeps.
THEOREM BaseInvariant == Spec => []Base
  BY BaseInit, BaseStep, PTL DEF Spec

\* Records, cycles, views, orphaned requests and the server's log have their types,
\* for any number of tabs: a cycle that is busy has an item to be busy with, and the
\* server accepts no command twice.
THEOREM TypeCorrectness == Spec => []TypeOK
  <1>1. Base => TypeOK
    <2> SUFFICES ASSUME Base PROVE TypeOK
      OBVIOUS
    <2>1. IsInjective(log)
      BY DEF Base, ServerSound, IsInjective
    <2>2. shown \in [Tabs -> 0..Len(log)]
      BY DEF Base, ServerSound
    <2>3. ASSUME NEW t \in Tabs
          PROVE  /\ tab[t].step \in Steps
                 /\ tab[t].items \in Seq(Commands)
                 /\ tab[t].answer \in Answers
                 /\ tab[t].step \in {"sending", "waiting", "answered", "loaded"}
                       => tab[t].items # <<>>
      BY TabFields DEF Sound, Busy
    <2> QED
      BY <2>1, <2>2, <2>3 DEF Base, ServerSound, TypeOK
  <1> QED
    BY <1>1, BaseInvariant, PTL

\* Whatever is lost, repeated, cut off or done by another tab, a record that is
\* synced was accepted and one that carries a receipt carries the server's decision.
THEOREM SettledAgrees == Spec => []SettledAgreesWithServer
  <1>1. Base => SettledAgreesWithServer
    BY DEF Base
  <1> QED
    BY <1>1, BaseInvariant, PTL

-----------------------------------------------------------------------------
(***************************************************************************)
(* One tab: what a step does to the records and to what is still to send   *)
(***************************************************************************)

\* Every record keeps its status.
Quiet ==
    /\ DOMAIN queue' = DOMAIN queue
    /\ \A c \in DOMAIN queue : queue'[c].status = queue[c].status

\* A pending record is added.
Grows ==
    /\ DOMAIN queue' = DOMAIN queue \union {Len(queue) + 1}
    /\ \A c \in DOMAIN queue : queue'[c].status = queue[c].status
    /\ queue'[Len(queue) + 1].status = "pending"

\* The tab settles its current record and has it behind it.
Settles(t) ==
    /\ tab[t].items # <<>>
    /\ tab[t].step \in {"answered", "loaded"}
    /\ DOMAIN queue' = DOMAIN queue
    /\ queue'[Current(t)].status # "pending"
    /\ queue'[Current(t)].status = "synced" =>
          tab[t].step = "loaded" /\ log' = log /\ shown' = shown
    /\ \A c \in DOMAIN queue : c # Current(t) => queue'[c].status = queue[c].status
    /\ Remaining(tab'[t]) = Tail(tab[t].items)

Advances(t) ==
    \/ Quiet /\ Remaining(tab'[t]) = <<>>
    \/ Quiet /\ Remaining(tab'[t]) = Remaining(tab[t])
    \/ queue' = queue /\ Remaining(tab'[t]) = PendingItems
    \/ Grows /\ Remaining(tab'[t]) \in {<<>>, Remaining(tab[t])}
    \/ Settles(t)

\* Where a tab's state is replaced, it is the new state.
LEMMA NewState ==
    ASSUME Base, NEW t \in Tabs
    PROVE  /\ \A x : tab' = [tab EXCEPT ![t] = x] => tab'[t] = x
           /\ Stop(t) => Remaining(tab'[t]) = <<>> /\ tab'[t].step = "idle"
           /\ Continue(t) => /\ Remaining(tab'[t]) = Tail(tab[t].items)
                             /\ tab'[t].step = "next"
           /\ \A s \in Steps : GoTo(t, s) => /\ tab'[t].step = s
                                             /\ tab'[t].items = tab[t].items
                                             /\ tab'[t].answer = tab[t].answer
  <1>1. \A x : tab' = [tab EXCEPT ![t] = x] => tab'[t] = x
    BY DEF Base
  <1>2. ASSUME Stop(t) PROVE Remaining(tab'[t]) = <<>> /\ tab'[t].step = "idle"
    <2>1. tab'[t] = IdleTab
      BY <1>2 DEF Base, Stop
    <2> QED
      BY <2>1 DEF IdleTab, Remaining
  <1>3. ASSUME Continue(t)
        PROVE  Remaining(tab'[t]) = Tail(tab[t].items) /\ tab'[t].step = "next"
    BY <1>1, <1>3 DEF Continue, Remaining
  <1>4. ASSUME NEW s \in Steps, GoTo(t, s)
        PROVE  /\ tab'[t].step = s /\ tab'[t].items = tab[t].items
               /\ tab'[t].answer = tab[t].answer
    <2>1. tab' = [tab EXCEPT ![t] =
                    [step |-> s, items |-> tab[t].items, answer |-> tab[t].answer]]
      BY <1>4, TabMoves
    <2>2. tab'[t] = [step |-> s, items |-> tab[t].items, answer |-> tab[t].answer]
      BY <2>1 DEF Base
    <2> QED
      BY <2>2
  <1> QED
    BY <1>1, <1>2, <1>3, <1>4

LEMMA UpdateOne ==
    ASSUME Base, NEW c \in DOMAIN queue, NEW s \in Statuses, NEW r \in Receipts,
           Update(c, s, r)
    PROVE  /\ DOMAIN queue' = DOMAIN queue
           /\ queue'[c].status = s
           /\ \A d \in DOMAIN queue : d # c => queue'[d].status = queue[d].status
  BY UpdateEffect DEF Base

\* The current record of a tab that is not past it is pending.
LEMMA CurrentPending ==
    ASSUME Base, NEW t \in Tabs, Ahead(Remaining(tab[t])),
           tab[t].step \in {"sending", "waiting", "answered", "loaded"}
    PROVE  /\ tab[t].items # <<>> /\ Remaining(tab[t]) = tab[t].items
           /\ Current(t) \in DOMAIN queue /\ queue[Current(t)].status = "pending"
           /\ \A c \in DOMAIN queue : c < Current(t) => queue[c].status # "pending"
  <1>1. /\ tab[t].items # <<>> /\ Remaining(tab[t]) = tab[t].items
        /\ Current(t) \in DOMAIN queue
    BY BusyHasItem DEF Busy, Remaining
  <1>2. 1 \in DOMAIN tab[t].items /\ Current(t) = tab[t].items[1]
    BY <1>1, CurrentType
  <1>3. queue[Current(t)].status = "pending"
    BY <1>1, <1>2 DEF Ahead
  <1>4. ASSUME NEW c \in DOMAIN queue, c < Current(t), queue[c].status = "pending"
        PROVE  FALSE
    <2>1. DOMAIN queue \subseteq Nat
      BY DEF Base
    <2>2. tab[t].items \in Seq(Commands)
      BY TabFields
    <2>3. ASSUME NEW n \in DOMAIN tab[t].items, tab[t].items[n] = c
          PROVE  FALSE
      <3>1. n \in Nat /\ n >= 1
        BY <2>2
      <3>2. n # 1
        BY <1>1, <1>2, <1>4, <2>1, <2>3
      <3>3. Current(t) < c
        BY <1>1, <1>2, <2>3, <3>1, <3>2 DEF Ahead
      <3> QED
        BY <1>1, <1>4, <2>1, <3>3
    <2>4. Current(t) < c
      BY <1>1, <1>2, <1>4, <2>3 DEF Ahead
    <2> QED
      BY <1>1, <1>4, <2>1, <2>4
  <1> QED
    BY <1>1, <1>3, <1>4

LEMMA SettleAdvances ==
    ASSUME Base, NEW t \in Tabs, Ahead(Remaining(tab[t])), Settle(t)
    PROVE  Advances(t)
  <1>1. ASSUME HandleError(t) PROVE Advances(t)
    <2>1. /\ tab[t].items # <<>> /\ Current(t) \in DOMAIN queue
          /\ queue[Current(t)].status = "pending" /\ tab[t].step = "answered"
      BY <1>1, CurrentPending DEF HandleError
    <2>2. CASE queue' = [queue EXCEPT ![Current(t)].status = "pending"] /\ Stop(t)
      <3>1. DOMAIN queue' = DOMAIN queue
        BY <2>2 DEF Base
      <3>2. Quiet
        BY <2>1, <2>2, <3>1, OneField DEF Quiet
      <3> QED
        BY <2>2, <3>2, NewState DEF Advances
    <2>3. CASE Update(Current(t), "rejected", "none") /\ Continue(t)
      <3>1. "rejected" \in Statuses /\ "none" \in Receipts
        BY DEF Statuses, Receipts
      <3>2. Settles(t)
        BY <2>1, <2>3, <3>1, UpdateOne, NewState DEF Settles
      <3> QED
        BY <3>2 DEF Advances
    <2> QED
      BY <1>1, <2>2, <2>3 DEF HandleError
  <1>2. ASSUME FetchAfterAccepted(t) PROVE Advances(t)
    <2>1. /\ Current(t) \in DOMAIN queue /\ queue[Current(t)].status = "pending"
          /\ Remaining(tab[t]) = tab[t].items
      BY <1>2, CurrentPending DEF FetchAfterAccepted
    <2>2. CASE GoTo(t, "loaded") /\ queue' = queue
      <3>1. Remaining(tab'[t]) = tab[t].items
        BY <2>2, NewState DEF Remaining, Steps
      <3> QED
        BY <2>1, <2>2, <3>1 DEF Advances, Quiet
    <2>3. CASE Update(Current(t), "pending", "accepted") /\ Stop(t)
      <3>1. "pending" \in Statuses /\ "accepted" \in Receipts
        BY DEF Statuses, Receipts, Decisions
      <3>2. Quiet
        BY <2>1, <2>3, <3>1, UpdateOne DEF Quiet
      <3> QED
        BY <2>3, <3>2, NewState DEF Advances
    <2> QED
      BY <1>2, <2>2, <2>3 DEF FetchAfterAccepted
  <1>3. ASSUME MarkSynced(t) PROVE Advances(t)
    <2>1. /\ tab[t].items # <<>> /\ Current(t) \in DOMAIN queue /\ tab[t].step = "loaded"
      BY <1>3, CurrentPending DEF MarkSynced
    <2>2. "synced" \in Statuses /\ "accepted" \in Receipts
      BY DEF Statuses, Receipts, Decisions
    <2>3. Settles(t)
      BY <1>3, <2>1, <2>2, UpdateOne, NewState DEF Settles, MarkSynced, serverVars
    <2> QED
      BY <2>3 DEF Advances
  <1>4. ASSUME MarkRefused(t) PROVE Advances(t)
    <2>1. /\ tab[t].items # <<>> /\ Current(t) \in DOMAIN queue /\ tab[t].step = "answered"
      BY <1>4, CurrentPending DEF MarkRefused
    <2>2. PICK s \in {"rejected", "conflict"} :
             /\ Update(Current(t), s, s)
             /\ GoTo(t, "refetch_and_continue") \/ GoTo(t, "refetch_and_stop")
      BY <1>4 DEF MarkRefused
    <2>3. s \in Statuses /\ s \in Receipts /\ s # "pending" /\ s # "synced"
      BY DEF Statuses, Receipts, Decisions
    <2>4. Remaining(tab'[t]) = Tail(tab[t].items)
      BY <2>2, NewState DEF Remaining, Steps
    <2>5. Settles(t)
      BY <2>1, <2>2, <2>3, <2>4, UpdateOne DEF Settles
    <2> QED
      BY <2>5 DEF Advances
  <1>5. ASSUME FetchAfterRefused(t) PROVE Advances(t)
    <2>1. Quiet
      BY <1>5 DEF FetchAfterRefused, Quiet
    <2>2. CASE Continue(t)
      <3>1. Remaining(tab[t]) = Tail(tab[t].items)
        BY <1>5 DEF FetchAfterRefused, Remaining
      <3> QED
        BY <2>1, <2>2, <3>1, NewState DEF Advances
    <2>3. CASE Stop(t)
      BY <2>1, <2>3, NewState DEF Advances
    <2> QED
      BY <1>5, <2>2, <2>3 DEF FetchAfterRefused
  <1> QED
    BY <1>1, <1>2, <1>3, <1>4, <1>5 DEF Settle

\* An answer, or the start of a request, leaves the items as they are.
LEMMA AnswerAdvances ==
    ASSUME Base, NEW t \in Tabs, tab[t].step \in {"sending", "waiting"},
           NEW s \in {"waiting", "answered"}, NEW a \in Answers, queue' = queue,
           tab' = [tab EXCEPT ![t] = [step |-> s, items |-> tab[t].items, answer |-> a]]
    PROVE  Advances(t) /\ tab'[t].step = s
  <1>1. tab'[t] = [step |-> s, items |-> tab[t].items, answer |-> a]
    BY DEF Base
  <1>2. tab'[t].step = s /\ tab'[t].items = tab[t].items
    BY <1>1
  <1>3. Remaining(tab'[t]) = Remaining(tab[t])
    BY <1>2 DEF Remaining
  <1> QED
    BY <1>2, <1>3 DEF Advances, Quiet

\* A double EXCEPT on a tab, as a new state.
LEMMA AnswerMove ==
    ASSUME Base, NEW t \in Tabs, NEW a, a \in Answers,
           tab' = [tab EXCEPT ![t].step = "answered", ![t].answer = a]
    PROVE  tab' = [tab EXCEPT ![t] =
                     [step |-> "answered", items |-> tab[t].items, answer |-> a]]
  <1>1. tab \in [Tabs -> TabStates] /\ tab[t] \in TabStates
    BY DEF Base
  <1>2. tab' = [tab EXCEPT ![t] = [tab[t] EXCEPT !.step = "answered", !.answer = a]]
    BY <1>1
  <1>3. [tab[t] EXCEPT !.step = "answered", !.answer = a]
           = [step |-> "answered", items |-> tab[t].items, answer |-> a]
    <2>1. \A b \in Answers : [tab[t] EXCEPT !.step = "answered", !.answer = b]
                                = [step |-> "answered", items |-> tab[t].items, answer |-> b]
      <3>1. "answered" \in Steps
        BY DEF Steps
      <3> QED
        BY <1>1, <3>1, StepAndAnswer, ZenonT(30)
    <2> QED
      BY <2>1
  <1> QED
    BY <1>2, <1>3

\* A trigger gives a tab that was idle nothing to send yet.
LEMMA TriggeredRemaining ==
    ASSUME NEW t \in Tabs
    PROVE  Remaining(Triggered(t)) \in {<<>>, Remaining(tab[t])}
  <1>1. Remaining(StartingTab) = <<>>
    BY DEF Remaining, StartingTab, IdleTab
  <1> QED
    BY <1>1 DEF Triggered

LEMMA OtherAdvances ==
    ASSUME Base, NEW t \in Tabs, Tabs = {t}, [Next]_vars, ~Settle(t)
    PROVE  Advances(t)
  <1>1. ASSUME Enqueue(t) PROVE Advances(t)
    <2> DEFINE r == [status |-> "pending", attempted |-> FALSE, receipt |-> "none"]
    <2>1. r \in Records /\ r.status = "pending"
      BY DEF Records
    <2>2. queue \in Seq(Records) /\ queue' = Append(queue, r)
      BY <1>1 DEF Base, Enqueue
    <2> HIDE DEF r
    <2>3. Grows
      BY <2>1, <2>2 DEF Grows
    <2>4. tab'[t] = tab[t] \/ tab'[t] = Triggered(t)
      BY <1>1 DEF Base, Enqueue
    <2>5. Remaining(tab'[t]) \in {<<>>, Remaining(tab[t])}
      BY <2>4, TriggeredRemaining
    <2> QED
      BY <2>3, <2>5 DEF Advances
  <1>2. ASSUME GoOnline PROVE Advances(t)
    <2>1. tab'[t] = Triggered(t) /\ queue' = queue
      BY <1>2 DEF GoOnline
    <2> QED
      BY <2>1, TriggeredRemaining DEF Advances, Quiet
  <1>3. ASSUME Reload(t) PROVE Advances(t)
    <2>1. tab'[t] = (IF online THEN StartingTab ELSE IdleTab) /\ queue' = queue
      BY <1>3 DEF Base, Reload
    <2>2. Remaining(tab'[t]) = <<>>
      BY <2>1 DEF Remaining, StartingTab, IdleTab
    <2> QED
      BY <2>1, <2>2 DEF Advances, Quiet
  <1>4. ASSUME ListQueue(t) PROVE Advances(t)
    <2>1. queue' = queue
      BY <1>4 DEF ListQueue
    <2>2. CASE online
      <3>1. tab'[t] = [step |-> "next", answer |-> "none", items |-> PendingItems]
        BY <1>4, <2>2 DEF Base, ListQueue
      <3>2. Remaining(tab'[t]) = PendingItems
        BY <3>1 DEF Remaining
      <3> QED
        BY <2>1, <3>2 DEF Advances
    <2>3. CASE ~online
      BY <1>4, <2>1, <2>3, NewState DEF ListQueue, Advances, Quiet
    <2> QED
      BY <2>2, <2>3
  <1>5. ASSUME RecordAttempt(t) PROVE Advances(t)
    <2>1. CASE online /\ tab[t].items # <<>>
      <3>1. Current(t) \in DOMAIN queue
        BY <2>1, CurrentType
      <3>2. queue' = [queue EXCEPT ![Current(t)].attempted = TRUE] /\ GoTo(t, "sending")
        BY <1>5, <2>1 DEF RecordAttempt
      <3>3. Quiet
        BY <3>1, <3>2, OneField DEF Base, Quiet
      <3>4. tab'[t].step = "sending" /\ tab'[t].items = tab[t].items
        BY <3>2, NewState DEF Steps
      <3>5. Remaining(tab'[t]) = Remaining(tab[t])
        BY <1>5, <3>4 DEF Remaining, RecordAttempt
      <3> QED
        BY <3>3, <3>5 DEF Advances
    <2>2. CASE ~(online /\ tab[t].items # <<>>)
      BY <1>5, <2>2, NewState DEF RecordAttempt, Advances, Quiet
    <2> QED
      BY <2>1, <2>2
  <1>6. ASSUME Dispatch(t) PROVE Advances(t)
    <2>1. tab' = [tab EXCEPT ![t] = [step |-> "waiting", items |-> tab[t].items,
                                     answer |-> tab[t].answer]]
      BY <1>6, TabMoves DEF Dispatch, Steps
    <2>2. tab[t].answer \in Answers
      BY TabFields
    <2> QED
      BY <1>6, <2>1, <2>2, AnswerAdvances DEF Dispatch
  <1>7. ASSUME NotAuthenticated(t) \/ ServerAnswers(t) \/ ServerRefuses(t)
                  \/ DeliveryFails(t)
        PROVE  Advances(t)
    <2>1. tab[t].step \in {"sending", "waiting"} /\ queue' = queue
      BY <1>7 DEF NotAuthenticated, ServerAnswers, ServerRefuses, DeliveryFails
    <2>2. PICK a \in Answers : tab' = [tab EXCEPT ![t].step = "answered", ![t].answer = a]
      BY <1>7 DEF NotAuthenticated, ServerAnswers, ServerRefuses, DeliveryFails,
                  Answers, Decisions
    <2> QED
      BY <2>1, <2>2, AnswerMove, AnswerAdvances
  <1>8. ASSUME queue' = queue, tab' = tab PROVE Advances(t)
    BY <1>8 DEF Advances, Quiet
  <1>9. ASSUME GoOffline \/ (\E c \in Commands : ServerProcessesOrphan(c)) \/ UNCHANGED vars
        PROVE  queue' = queue /\ tab' = tab
    BY <1>9 DEF GoOffline, ServerProcessesOrphan, clientVars, vars
  <1> QED
    BY <1>1, <1>2, <1>3, <1>4, <1>5, <1>6, <1>7, <1>8, <1>9 DEF Next

LEMMA EveryStepAdvances ==
    ASSUME Base, NEW t \in Tabs, Tabs = {t}, Ahead(Remaining(tab[t])), [Next]_vars
    PROVE  Advances(t)
  BY SettleAdvances, OtherAdvances

-----------------------------------------------------------------------------
(***************************************************************************)
(* One tab: nothing pending is skipped                                     *)
(***************************************************************************)

LEMMA AheadQuiet ==
    ASSUME NEW list, Ahead(list), Quiet
    PROVE  Ahead(list)'
  BY DEF Ahead, Quiet

LEMMA AheadEmpty ==
    ASSUME NEW list, list = <<>>
    PROVE  Ahead(list) /\ Ahead(list)'
  BY DEF Ahead

\* A new record comes after everything listed.
LEMMA AheadGrows ==
    ASSUME Base, NEW list, Ahead(list), Grows
    PROVE  Ahead(list)'
  <1>1. /\ DOMAIN queue = 1..Len(queue) /\ Len(queue) \in Nat
        /\ \A c \in DOMAIN queue : c < Len(queue) + 1
    BY DEF Base
  <1>2. \A n \in DOMAIN list : list[n] \in DOMAIN queue
    BY DEF Ahead
  <1> QED
    BY <1>1, <1>2 DEF Ahead, Grows

\* Once the first is settled the rest is what remains.
LEMMA AheadSettles ==
    ASSUME Base, NEW t \in Tabs, Ahead(tab[t].items), Settles(t),
           NEW list, list = Tail(tab[t].items)
    PROVE  Ahead(list)'
  <1> DEFINE old == tab[t].items
  <1>1. /\ old \in Seq(Commands) /\ old # <<>> /\ Len(old) \in Nat
        /\ DOMAIN old = 1..Len(old) /\ Len(old) >= 1
    <2>1. old \in Seq(Commands)
      BY TabFields
    <2>2. old # <<>>
      BY DEF Settles
    <2> HIDE DEF old
    <2> QED
      BY <2>1, <2>2
  <1>2. /\ Current(t) = old[1] /\ 1 \in DOMAIN old
        /\ DOMAIN list = 1..(Len(old) - 1)
        /\ \A n \in 1..(Len(old) - 1) : list[n] = old[n + 1]
    BY <1>1, CurrentType
  <1>3. DOMAIN queue \subseteq Nat
    BY DEF Base
  <1> HIDE DEF old
  <1>4. /\ \A m, n \in DOMAIN old : m < n => old[m] < old[n]
        /\ \A n \in DOMAIN old : old[n] \in DOMAIN queue /\ queue[old[n]].status = "pending"
    BY DEF Ahead, old
  <1>5. ASSUME NEW n \in DOMAIN list
        PROVE  /\ n + 1 \in DOMAIN old /\ list[n] = old[n + 1]
               /\ list[n] # Current(t)
    <2>1. n + 1 \in DOMAIN old /\ 1 < n + 1 /\ list[n] = old[n + 1]
      BY <1>1, <1>2
    <2>2. old[1] < old[n + 1] /\ old[1] \in Nat
      BY <1>2, <1>3, <1>4, <2>1
    <2> QED
      BY <1>2, <2>1, <2>2
  <1>6. \A m, n \in DOMAIN list : m < n => list[m] < list[n]
    <2> TAKE m, n \in DOMAIN list
    <2> HAVE m < n
    <2>1. m + 1 < n + 1
      BY <1>2
    <2> QED
      BY <1>4, <1>5, <2>1
  <1>7. \A n \in DOMAIN list : list[n] \in DOMAIN queue' /\ queue'[list[n]].status = "pending"
    BY <1>4, <1>5 DEF Settles
  <1>8. ASSUME NEW c \in DOMAIN queue', queue'[c].status = "pending"
        PROVE  \/ \E n \in DOMAIN list : list[n] = c
               \/ \A n \in DOMAIN list : list[n] < c
    <2>1. c \in DOMAIN queue /\ c # Current(t) /\ queue[c].status = "pending"
      BY <1>8 DEF Settles
    <2>2. CASE \E n \in DOMAIN old : old[n] = c
      <3>1. PICK n \in DOMAIN old : old[n] = c
        BY <2>2
      <3>2. n # 1
        BY <1>2, <2>1, <3>1
      <3>3. n - 1 \in DOMAIN list /\ list[n - 1] = c
        BY <1>1, <1>2, <3>1, <3>2
      <3> QED
        BY <3>3
    <2>3. CASE \A n \in DOMAIN old : old[n] < c
      BY <1>5, <2>3
    <2> QED
      BY <2>1, <2>2, <2>3 DEF Ahead, old
  <1> QED
    BY <1>6, <1>7, <1>8 DEF Ahead

LEMMA AheadStep ==
    ASSUME Base, NEW t \in Tabs, Ahead(Remaining(tab[t])), Advances(t)
    PROVE  Ahead(Remaining(tab[t]))'
  <1>1. PICK list : list = Remaining(tab'[t])
    OBVIOUS
  <1>2. Ahead(list)'
    <2>1. PICK old : old = Remaining(tab[t])
      OBVIOUS
    <2>2. Ahead(old)
      BY <2>1 DEF Ahead
    <2>3. CASE Quiet /\ list = <<>>
      BY <2>3, AheadEmpty
    <2>4. CASE Quiet /\ list = old
      BY <2>2, <2>4, AheadQuiet
    <2>5. CASE queue' = queue /\ list = PendingItems
      <3>1. Ahead(PendingItems)
        BY PendingItemsListed DEF Base
      <3>2. Ahead(list)
        BY <2>5, <3>1 DEF Ahead
      <3>3. Quiet
        BY <2>5 DEF Quiet
      <3> QED
        BY <3>2, <3>3, AheadQuiet
    <2>6. CASE Grows /\ list \in {<<>>, old}
      BY <2>2, <2>6, AheadGrows, AheadEmpty
    <2>7. CASE Settles(t)
      <3>1. list = Tail(tab[t].items) /\ Remaining(tab[t]) = tab[t].items
        BY <1>1, <2>7 DEF Settles, Remaining
      <3>2. Ahead(tab[t].items)
        BY <3>1
      <3> QED
        BY <2>7, <3>1, <3>2, AheadSettles
    <2> QED
      BY <1>1, <2>1, <2>3, <2>4, <2>5, <2>6, <2>7 DEF Advances
  <1> QED
    BY <1>1, <1>2 DEF Ahead

-----------------------------------------------------------------------------
(***************************************************************************)
(* One tab: what is settled stays settled, what is sent is sent in order   *)
(***************************************************************************)

\* A record that is not pending keeps its status, and a record newly added is pending.
LEMMA StatusStep ==
    ASSUME Base, NEW t \in Tabs, Ahead(Remaining(tab[t])), Advances(t)
    PROVE  /\ \A c \in DOMAIN queue :
                 /\ c \in DOMAIN queue'
                 /\ queue[c].status # "pending" => queue'[c].status = queue[c].status
           /\ \A c \in DOMAIN queue' :
                 c \notin DOMAIN queue => /\ queue'[c].status = "pending"
                                          /\ \A d \in DOMAIN queue : d < c
  <1>1. CASE Quiet \/ queue' = queue
    BY <1>1 DEF Quiet
  <1>2. CASE Grows
    <2>1. \A d \in DOMAIN queue : d < Len(queue) + 1
      BY DEF Base
    <2> QED
      BY <1>2, <2>1 DEF Grows
  <1>3. CASE Settles(t)
    <2>1. Current(t) \in DOMAIN queue /\ queue[Current(t)].status = "pending"
      BY <1>3, CurrentPending DEF Settles
    <2> QED
      BY <1>3, <2>1 DEF Settles
  <1> QED
    BY <1>1, <1>2, <1>3 DEF Advances

\* A record becomes synced only as the current one, once its view has been fetched.
LEMMA SyncedStep ==
    ASSUME Base, NEW t \in Tabs, Advances(t),
           NEW c \in DOMAIN queue', queue'[c].status = "synced"
    PROVE  /\ c \in DOMAIN queue
           /\ queue[c].status # "synced" =>
                 /\ c = Current(t) /\ tab[t].step = "loaded"
                 /\ log' = log /\ shown' = shown
  <1>1. CASE Quiet \/ queue' = queue
    BY <1>1 DEF Quiet
  <1>2. CASE Grows
    BY <1>2 DEF Grows
  <1>3. CASE Settles(t)
    BY <1>3 DEF Settles
  <1> QED
    BY <1>1, <1>2, <1>3 DEF Advances

\* A command is handed to the server only as the one the tab waits for.
LEMMA SentStep ==
    ASSUME Base, NEW t \in Tabs, Tabs = {t}, [Next]_vars,
           NEW d \in Commands, Sent(d)', ~Sent(d)
    PROVE  queue' = queue /\ d = Current(t) /\ tab[t].step = "waiting"
  <1>1. CASE Reload(t) \/ DeliveryFails(t)
    BY <1>1 DEF Reload, DeliveryFails, Sent, serverVars
  <1>2. CASE ServerAnswers(t)
    <2>1. PICK a : Processed(Current(t), a)
      BY <1>2 DEF ServerAnswers
    <2>2. tab[t].step = "waiting" /\ queue' = queue /\ orphans' = orphans
      BY <1>2 DEF ServerAnswers
    <2>3. PICK c \in Commands : c = Current(t)
      BY <2>2, BusyHasItem DEF Busy
    <2>4. d # c => decision'[d] = decision[d]
      BY <2>1, <2>3, ServerStep DEF Base
    <2> QED
      BY <2>2, <2>3, <2>4 DEF Sent
  <1>3. ASSUME NEW c \in Commands, ServerProcessesOrphan(c)
        PROVE  FALSE
    <2>1. PICK a : Processed(c, a)
      BY <1>3 DEF ServerProcessesOrphan
    <2>2. c \in orphans /\ orphans' = orphans \ {c}
      BY <1>3 DEF ServerProcessesOrphan
    <2>3. d # c => decision'[d] = decision[d]
      BY <2>1, ServerStep DEF Base
    <2> QED
      BY <2>2, <2>3 DEF Sent
  <1>4. CASE UNCHANGED <<orphans, decision>>
    BY <1>4 DEF Sent
  <1>5. CASE \/ Enqueue(t) \/ ListQueue(t) \/ RecordAttempt(t) \/ Dispatch(t)
             \/ NotAuthenticated(t) \/ ServerRefuses(t)
    BY <1>4, <1>5 DEF Enqueue, ListQueue, RecordAttempt, Dispatch, NotAuthenticated,
                      ServerRefuses, serverVars
  <1>6. CASE Settle(t)
    BY <1>4, <1>6 DEF Settle, HandleError, FetchAfterAccepted, MarkSynced, MarkRefused,
                      FetchAfterRefused, serverVars
  <1>7. CASE GoOffline \/ GoOnline \/ UNCHANGED vars
    BY <1>4, <1>7 DEF GoOffline, GoOnline, vars, serverVars
  <1> QED
    BY <1>1, <1>2, <1>3, <1>5, <1>6, <1>7 DEF Next

LEMMA SentInOrderStep ==
    ASSUME Base, NEW t \in Tabs, Tabs = {t}, Ahead(Remaining(tab[t])), SentInOrder,
           [Next]_vars
    PROVE  SentInOrder'
  <1> SUFFICES ASSUME NEW d \in Commands, Sent(d)', NEW c \in DOMAIN queue', c < d
               PROVE  queue'[c].status # "pending"
    BY DEF SentInOrder
  <1>1. Advances(t)
    BY EveryStepAdvances
  <1>2. CASE Sent(d)
    <2>1. d \in DOMAIN queue /\ DOMAIN queue \subseteq Nat /\ DOMAIN queue' \subseteq Nat
      <3>1. Base'
        BY BaseStep
      <3> QED
        BY <1>2, <3>1 DEF Base
    <2>2. c \in DOMAIN queue
      <3>1. c \notin DOMAIN queue => d < c
        BY <1>1, <2>1, StatusStep
      <3> QED
        BY <2>1, <3>1
    <2>3. queue[c].status # "pending"
      BY <1>2, <2>2 DEF SentInOrder
    <2> QED
      BY <1>1, <2>2, <2>3, StatusStep
  <1>3. CASE ~Sent(d)
    <2>1. queue' = queue /\ d = Current(t) /\ tab[t].step = "waiting"
      BY <1>3, SentStep
    <2> QED
      BY <2>1, CurrentPending
  <1> QED
    BY <1>2, <1>3

-----------------------------------------------------------------------------
(***************************************************************************)
(* One tab: the view, and the order of the log                             *)
(***************************************************************************)

\* The log grows by a command that was undecided, while nothing else is recorded.
LogGrows ==
    \E c \in Commands : decision[c] = "none" /\ log' = Append(log, c)

LEMMA LogStep ==
    ASSUME Base, NEW t \in Tabs, Tabs = {t}, [Next]_vars
    PROVE  log' = log \/ (LogGrows /\ queue' = queue /\ shown' = shown)
  <1>1. ASSUME NEW c \in Commands, NEW a, Processed(c, a)
        PROVE  log' = log \/ LogGrows
    BY <1>1, ServerStep DEF Base, LogGrows
  <1>2. CASE ServerAnswers(t)
    <2>1. Current(t) \in Commands
      BY <1>2, BusyHasItem DEF ServerAnswers, Busy
    <2> QED
      BY <1>1, <1>2, <2>1 DEF ServerAnswers
  <1>3. CASE \E c \in Commands : ServerProcessesOrphan(c)
    BY <1>1, <1>3 DEF ServerProcessesOrphan, clientVars
  <1>4. CASE \/ Enqueue(t) \/ Reload(t) \/ ListQueue(t) \/ RecordAttempt(t) \/ Dispatch(t)
             \/ NotAuthenticated(t) \/ ServerRefuses(t) \/ DeliveryFails(t)
    BY <1>4 DEF Enqueue, Reload, ListQueue, RecordAttempt, Dispatch, NotAuthenticated,
                ServerRefuses, DeliveryFails, serverVars
  <1>5. CASE Settle(t)
    BY <1>5 DEF Settle, HandleError, FetchAfterAccepted, MarkSynced, MarkRefused,
                FetchAfterRefused, serverVars
  <1>6. CASE GoOffline \/ GoOnline \/ UNCHANGED vars
    BY <1>6 DEF GoOffline, GoOnline, vars, serverVars
  <1> QED
    BY <1>2, <1>3, <1>4, <1>5, <1>6 DEF Next

\* The tab shows what it showed, or the present state of the log.
LEMMA ShownStep ==
    ASSUME Base, NEW t \in Tabs, Tabs = {t}, [Next]_vars
    PROVE  shown'[t] = shown[t] \/ (shown'[t] = Len(log) /\ log' = log)
  <1> DEFINE fetched == shown' = [shown EXCEPT ![t] = Len(log)] /\ log' = log
  <1>1. fetched => shown'[t] = Len(log) /\ log' = log
    BY DEF Base
  <1> HIDE DEF fetched
  <1>2. CASE Reload(t) \/ Settle(t)
    <2>1. shown' = shown \/ fetched
      BY <1>2 DEF fetched, Reload, Settle, HandleError, FetchAfterAccepted, MarkSynced,
                  MarkRefused, FetchAfterRefused, serverVars
    <2> QED
      BY <1>1, <2>1
  <1>3. CASE \/ Enqueue(t) \/ ListQueue(t) \/ RecordAttempt(t) \/ Dispatch(t)
             \/ NotAuthenticated(t) \/ ServerRefuses(t) \/ DeliveryFails(t)
             \/ ServerAnswers(t)
    BY <1>3 DEF Enqueue, ListQueue, RecordAttempt, Dispatch, NotAuthenticated,
                ServerRefuses, DeliveryFails, ServerAnswers
  <1>4. CASE \/ GoOffline \/ GoOnline \/ UNCHANGED vars
             \/ \E c \in Commands : ServerProcessesOrphan(c)
    BY <1>4 DEF GoOffline, GoOnline, ServerProcessesOrphan, vars, clientVars
  <1> QED
    BY <1>2, <1>3, <1>4 DEF Next

\* A tab that has fetched the view for an accepted command has just done so, or is
\* where it was.
LEMMA LoadedStep ==
    ASSUME Base, NEW t \in Tabs, Tabs = {t}, [Next]_vars, tab'[t].step = "loaded"
    PROVE  \/ shown'[t] = Len(log) /\ log' = log
           \/ tab'[t] = tab[t] /\ shown' = shown
  <1>1. StartingTab.step # "loaded" /\ IdleTab.step # "loaded"
    BY DEF StartingTab, IdleTab
  <1>2. Triggered(t).step = "loaded" => Triggered(t) = tab[t]
    BY <1>1 DEF Triggered
  <1>3. CASE Enqueue(t)
    <2>1. (tab'[t] = tab[t] \/ tab'[t] = Triggered(t)) /\ shown' = shown
      BY <1>3 DEF Base, Enqueue
    <2> QED
      BY <1>2, <2>1
  <1>4. CASE GoOnline
    <2>1. tab'[t] = Triggered(t) /\ shown' = shown
      BY <1>4 DEF GoOnline
    <2> QED
      BY <1>2, <2>1
  <1>5. ~Reload(t)
    <2>1. Reload(t) => tab'[t] = (IF online THEN StartingTab ELSE IdleTab)
      BY DEF Base, Reload
    <2> QED
      BY <1>1, <2>1
  <1>6. ~Stop(t) /\ ~Continue(t)
    BY NewState
  <1>7. \A s \in Steps : GoTo(t, s) => s = "loaded"
    BY NewState
  <1>8. ~ListQueue(t)
    <2>1. ASSUME tab' = [tab EXCEPT ![t] = [step |-> "next", answer |-> "none",
                                            items |-> PendingItems]]
          PROVE  FALSE
      <3>1. tab'[t] = [step |-> "next", answer |-> "none", items |-> PendingItems]
        BY <2>1 DEF Base
      <3> QED
        BY <3>1
    <2> QED
      BY <1>6, <2>1 DEF ListQueue
  <1>9. ~RecordAttempt(t) /\ ~Dispatch(t)
    BY <1>6, <1>7 DEF RecordAttempt, Dispatch, Steps
  <1>10. ASSUME NEW a \in Answers,
                tab' = [tab EXCEPT ![t].step = "answered", ![t].answer = a]
         PROVE  FALSE
    <2>1. tab' = [tab EXCEPT ![t] =
                    [step |-> "answered", items |-> tab[t].items, answer |-> a]]
      BY <1>10, AnswerMove
    <2>2. tab'[t] = [step |-> "answered", items |-> tab[t].items, answer |-> a]
      BY <2>1, NewState
    <2> QED
      BY <2>2
  <1>11. /\ ~NotAuthenticated(t) /\ ~ServerAnswers(t) /\ ~ServerRefuses(t)
         /\ ~DeliveryFails(t)
    BY <1>10 DEF NotAuthenticated, ServerAnswers, ServerRefuses, DeliveryFails,
                 Answers, Decisions
  <1>12. CASE Settle(t)
    <2>1. ~HandleError(t) /\ ~MarkSynced(t) /\ ~FetchAfterRefused(t)
      BY <1>6 DEF HandleError, MarkSynced, FetchAfterRefused
    <2>2. ~MarkRefused(t)
      BY <1>7 DEF MarkRefused, Steps
    <2>3. shown' = [shown EXCEPT ![t] = Len(log)] /\ log' = log
      BY <1>6, <1>12, <2>1, <2>2 DEF Settle, FetchAfterAccepted, serverVars
    <2> QED
      BY <2>3 DEF Base
  <1>13. ASSUME GoOffline \/ (\E c \in Commands : ServerProcessesOrphan(c)) \/ UNCHANGED vars
         PROVE  tab' = tab /\ shown' = shown
    BY <1>13 DEF GoOffline, ServerProcessesOrphan, clientVars, vars
  <1> QED
    BY <1>3, <1>4, <1>5, <1>8, <1>9, <1>11, <1>12, <1>13 DEF Next

\* What is in the log was decided; so what is added was not there.
LEMMA Logged ==
    ASSUME Base, LogGrows
    PROVE  /\ DOMAIN log' = DOMAIN log \union {Len(log) + 1} /\ Len(log) \in Nat
           /\ DOMAIN log = 1..Len(log)
           /\ \A n \in DOMAIN log : log'[n] = log[n]
           /\ log'[Len(log) + 1] \in Commands
           /\ decision[log'[Len(log) + 1]] = "none"
  BY DEF Base, ServerSound, LogGrows

LEMMA InOrderStep ==
    ASSUME Base, NEW t \in Tabs, Tabs = {t}, Ahead(Remaining(tab[t])), SentInOrder,
           InOrder, [Next]_vars
    PROVE  InOrder'
  <1> SUFFICES ASSUME NEW m \in DOMAIN log', NEW n \in DOMAIN log', log'[m] < log'[n],
                      log'[m] \in DOMAIN queue', queue'[log'[m]].status = "synced"
               PROVE  m < n
    BY DEF InOrder
  <1>1. Advances(t)
    BY EveryStepAdvances
  <1>2. CASE LogGrows /\ queue' = queue
    <2>1. m # Len(log) + 1
      BY <1>2, Logged DEF Base, SettledAgreesWithServer
    <2>2. CASE n = Len(log) + 1
      BY <1>2, <2>1, <2>2, Logged
    <2>3. CASE n # Len(log) + 1
      BY <1>2, <2>1, <2>3, Logged DEF InOrder
    <2> QED
      BY <2>2, <2>3
  <1>3. CASE log' = log
    <2>1. log[m] \in DOMAIN queue
      BY <1>1, <1>3, SyncedStep
    <2>2. CASE queue[log[m]].status = "synced"
      BY <1>3, <2>1, <2>2 DEF InOrder
    <2>3. CASE queue[log[m]].status # "synced"
      <3>1. queue[log[m]].status = "pending"
        BY <1>1, <1>3, <2>1, <2>3, StatusStep
      <3>2. log[n] \in Commands /\ decision[log[n]] = "accepted"
        BY <1>3 DEF Base, ServerSound
      <3>3. Sent(log[n])
        BY <3>2 DEF Sent
      <3> QED
        BY <1>3, <2>1, <3>1, <3>2, <3>3 DEF SentInOrder
    <2> QED
      BY <2>2, <2>3
  <1> QED
    BY <1>2, <1>3, LogStep

LEMMA VisibleStep ==
    ASSUME Base, NEW t \in Tabs, Tabs = {t}, Ahead(Remaining(tab[t])), Visible(t),
           [Next]_vars
    PROVE  Visible(t)'
  <1>1. Advances(t)
    BY EveryStepAdvances
  <1>2. /\ log \in Seq(Commands) /\ Len(log) \in Nat /\ DOMAIN log = 1..Len(log)
        /\ shown[t] \in Nat /\ shown[t] <= Len(log)
    BY DEF Base, ServerSound
  <1>3. ASSUME NEW n \in DOMAIN log', NEW c \in Commands, log'[n] = c,
               decision[c] = "accepted"
        PROVE  n \in DOMAIN log /\ log[n] = c
    BY <1>3, LogStep, Logged
  <1>4. shown[t] <= shown'[t] /\ shown'[t] \in Nat
    BY <1>2, ShownStep
  <1>5. ASSUME tab'[t].step = "loaded", NEW n \in DOMAIN log',
               log'[n] = Head(tab'[t].items)
        PROVE  n <= shown'[t]
    <2>1. CASE shown'[t] = Len(log) /\ log' = log
      BY <1>2, <2>1
    <2>2. CASE tab'[t] = tab[t] /\ shown' = shown
      <3>1. tab[t].step = "loaded" /\ Head(tab[t].items) = log'[n]
        BY <1>5, <2>2
      <3>2. Head(tab[t].items) \in Commands
        BY <3>1, BusyHasItem DEF Busy, Current
      <3>3. decision[Head(tab[t].items)] = "accepted"
        BY <3>1, TabFields DEF Sound, Decisions
      <3>4. n \in DOMAIN log /\ log[n] = Head(tab[t].items)
        BY <1>3, <3>1, <3>2, <3>3
      <3> QED
        BY <2>2, <3>1, <3>4 DEF Visible
    <2> QED
      BY <1>5, <2>1, <2>2, LoadedStep
  <1>6. ASSUME NEW c \in DOMAIN queue', queue'[c].status = "synced",
               NEW n \in DOMAIN log', log'[n] = c
        PROVE  n <= shown'[t]
    <2>1. c \in DOMAIN queue
      BY <1>1, <1>6, SyncedStep
    <2>2. c \in Commands
      BY <2>1, FaultsAssumption DEF Base, Commands
    <2>3. CASE queue[c].status = "synced"
      <3>1. decision[c] = "accepted"
        BY <2>1, <2>3 DEF Base, SettledAgreesWithServer
      <3>2. n \in DOMAIN log /\ log[n] = c
        BY <1>3, <1>6, <2>2, <3>1
      <3>3. n <= shown[t]
        BY <2>1, <2>3, <3>2 DEF Visible
      <3> QED
        BY <1>2, <1>4, <3>2, <3>3
    <2>4. CASE queue[c].status # "synced"
      <3>1. /\ c = Current(t) /\ tab[t].step = "loaded"
            /\ log' = log /\ shown' = shown
        BY <1>1, <1>6, <2>4, SyncedStep
      <3> QED
        BY <1>6, <3>1 DEF Visible, Current
    <2> QED
      BY <2>3, <2>4
  <1> QED
    BY <1>5, <1>6 DEF Visible

-----------------------------------------------------------------------------
(***************************************************************************)
(* One tab: the theorems                                                   *)
(***************************************************************************)

OneTab ==
    /\ Base
    /\ \A t \in Tabs : Tabs = {t} =>
          /\ Ahead(Remaining(tab[t]))
          /\ SentInOrder
          /\ Visible(t)
          /\ InOrder

\* The inductive invariant of a tab that has the queue to itself: it sends the
\* pending records from the oldest on, what is sent has nothing pending before it,
\* and what is synced is in its view and in the order of the log.
THEOREM OneTabInvariant == Spec => []OneTab
  <1>1. Init => OneTab
    <2> SUFFICES ASSUME Init, NEW t \in Tabs
                 PROVE  /\ Ahead(Remaining(tab[t]))
                        /\ SentInOrder /\ Visible(t) /\ InOrder
      BY BaseInit DEF OneTab
    <2>1. tab[t] = IdleTab /\ queue = <<>> /\ log = <<>>
      BY DEF Init
    <2>2. Remaining(tab[t]) = <<>> /\ tab[t].step # "loaded"
      BY <2>1 DEF Remaining, IdleTab
    <2>3. Ahead(Remaining(tab[t]))
      BY <2>2, AheadEmpty
    <2>4. SentInOrder /\ Visible(t) /\ InOrder
      BY <2>1, <2>2 DEF SentInOrder, Visible, InOrder
    <2> QED
      BY <2>3, <2>4
  <1>2. OneTab /\ [Next]_vars => OneTab'
    <2> SUFFICES ASSUME OneTab, [Next]_vars, NEW t \in Tabs, Tabs = {t}
                 PROVE  /\ Ahead(Remaining(tab[t]))'
                        /\ SentInOrder' /\ Visible(t)' /\ InOrder'
      BY BaseStep DEF OneTab
    <2>1. /\ Base /\ Ahead(Remaining(tab[t]))
          /\ SentInOrder /\ Visible(t) /\ InOrder
      BY DEF OneTab
    <2>2. Ahead(Remaining(tab[t]))'
      BY <2>1, EveryStepAdvances, AheadStep
    <2> QED
      BY <2>1, <2>2, SentInOrderStep, VisibleStep, InOrderStep
  <1> QED
    BY <1>1, <1>2, PTL DEF Spec

\* Where a command that was accepted is in the log.
LEMMA PositionInLog ==
    ASSUME Base, NEW c \in DOMAIN queue, queue[c].status = "synced"
    PROVE  PositionOf(c) \in DOMAIN log /\ log[PositionOf(c)] = c
  <1>1. c \in Commands
    BY FaultsAssumption DEF Base, Commands
  <1>2. decision[c] = "accepted"
    BY DEF Base, SettledAgreesWithServer
  <1>3. \E n \in DOMAIN log : log[n] = c
    BY <1>1, <1>2 DEF Base, ServerSound
  <1> QED
    BY <1>3 DEF PositionOf

\* With one tab, the user never sees a command as synced in front of a TodayView
\* that does not hold it yet, however deliveries fail, are repeated or are cut off.
THEOREM SyncedIsVisible ==
    ASSUME NEW only \in Tabs, Tabs = {only}
    PROVE  Spec => []SyncedCommandsAreVisible
  <1>1. OneTab => SyncedCommandsAreVisible
    BY PositionInLog DEF OneTab, Visible, SyncedCommandsAreVisible
  <1> QED
    BY <1>1, OneTabInvariant, PTL

\* With one tab, of two synced commands the first one queued is the first the server
\* accepted, for any number of commands and any faults: no retry, replay, reload or
\* late request reverses them.
THEOREM SyncedInOrder ==
    ASSUME NEW only \in Tabs, Tabs = {only}
    PROVE  Spec => []SyncedInQueueOrder
  <1>1. OneTab => SyncedInQueueOrder
    BY PositionInLog DEF OneTab, InOrder, SyncedInQueueOrder
  <1> QED
    BY <1>1, OneTabInvariant, PTL

\* With one tab, a request goes out only when nothing queued before its command is
\* still pending.
THEOREM NothingOvertakes ==
    ASSUME NEW only \in Tabs, Tabs = {only}
    PROVE  Spec => NoOvertaking
  <1>1. OneTab /\ [Next]_vars =>
           [\A t \in Tabs :
               tab[t].step = "sending" /\ tab'[t].step = "waiting" =>
                  \A c \in 1..Current(t) - 1 : queue[c].status # "pending"]_vars
    <2> SUFFICES ASSUME OneTab, tab[only].step = "sending",
                        NEW c \in 1..Current(only) - 1
                 PROVE  queue[c].status # "pending"
      OBVIOUS
    <2>1. /\ Current(only) \in DOMAIN queue
          /\ \A d \in DOMAIN queue : d < Current(only) => queue[d].status # "pending"
      BY CurrentPending DEF OneTab
    <2>2. DOMAIN queue = 1..Len(queue) /\ Len(queue) \in Nat
      BY DEF OneTab, Base
    <2> QED
      BY <2>1, <2>2
  <1> QED
    BY <1>1, OneTabInvariant, PTL DEF Spec, NoOvertaking, Current

\* With one tab, a record once synced, rejected or in conflict stays so.  A second tab
\* breaks this, as the run offline_two_tabs shows.
THEOREM SettledIsFinal ==
    ASSUME NEW only \in Tabs, Tabs = {only}
    PROVE  Spec => SettledStaysSettled
  <1>1. OneTab /\ [Next]_vars =>
           [\A c \in DOMAIN queue :
               queue[c].status # "pending" => queue'[c].status = queue[c].status]_vars
    BY EveryStepAdvances, StatusStep DEF OneTab
  <1> QED
    BY <1>1, OneTabInvariant, PTL DEF Spec, SettledStaysSettled
=============================================================================
