----------------------- MODULE CommandTransactionProofs -----------------------
(***************************************************************************)
(* Proofs, for any number of sessions and every set of Expeditions,        *)
(* commands and users, of the safety properties of CommandTransaction.     *)
(*                                                                         *)
(* The argument is the advisory locks: sessions past "locking" have all of *)
(* theirs (LocksAreTaken), and no two hold the lock of one command or of   *)
(* one Expedition (CommandsApart, ExpeditionsApart).  So the two row locks *)
(* are never waited for, and who waits for an advisory lock waits for a    *)
(* session that has taken more of them.                                    *)
(***************************************************************************)
EXTENDS CommandTransaction, CommandLogProofs

-----------------------------------------------------------------------------
(***************************************************************************)
(* The inductive invariant                                                 *)
(***************************************************************************)

SessionsOK == session \in [Sessions -> Transactions \union {Idle}]

LocksAreTaken ==
    \A s \in Sessions, t \in Transactions : session[s] = t =>
        /\ t.taken <= Len(LocksOf(t.op, t.request))
        /\ t.phase # "locking" => t.taken = Len(LocksOf(t.op, t.request))

CommandsApart ==
    \A s, t \in Sessions :
        /\ s # t /\ Active(s) /\ Active(t)
        /\ session[s].taken >= 1 /\ session[t].taken >= 1
        => session[s].request.command_id # session[t].request.command_id

ExpeditionsApart ==
    \A s, t \in Sessions :
        /\ s # t /\ Active(s) /\ Active(t)
        /\ session[s].taken >= 2 /\ session[t].taken >= 2
        => session[s].request.expedition # session[t].request.expedition

LocksInv == SessionsOK /\ LocksAreTaken /\ CommandsApart /\ ExpeditionsApart

-----------------------------------------------------------------------------
(***************************************************************************)
(* Locks                                                                   *)
(***************************************************************************)

\* Every operation takes the lock of its command first and of its Expedition second;
\* only a wrapper's third lock comes after them.
LEMMA LockOrder ==
    ASSUME NEW op, NEW r
    PROVE  /\ Len(LocksOf(op, r)) \in {2, 3}
           /\ LocksOf(op, r)[1] = <<"command", r.command_id>>
           /\ LocksOf(op, r)[2] = <<"expedition", r.expedition>>
           /\ Len(LocksOf(op, r)) = 3 =>
                 LocksOf(op, r)[3] = <<"invitation-email", r.expedition>>
  <1>1. CASE op = "invite_participant"
    BY <1>1 DEF LocksOf, CommandLock, ExpeditionLock, EmailLock
  <1>2. CASE op # "invite_participant"
    BY <1>2 DEF LocksOf, CommandLock, ExpeditionLock
  <1> QED
    BY <1>1, <1>2

\* The n-th lock of one session is no lock of another but the n-th.
LEMMA LockPlaces ==
    ASSUME NEW op1, NEW r1, NEW n1 \in 1..Len(LocksOf(op1, r1)),
           NEW op2, NEW r2, NEW n2 \in 1..Len(LocksOf(op2, r2)),
           LocksOf(op1, r1)[n1] = LocksOf(op2, r2)[n2]
    PROVE  n1 = n2
  <1>1. /\ Len(LocksOf(op1, r1)) \in {2, 3} /\ Len(LocksOf(op2, r2)) \in {2, 3}
    BY LockOrder
  <1>2. /\ n1 = 1 \/ n1 = 2 \/ (n1 = 3 /\ Len(LocksOf(op1, r1)) = 3)
        /\ n2 = 1 \/ n2 = 2 \/ (n2 = 3 /\ Len(LocksOf(op2, r2)) = 3)
    BY <1>1
  <1>3. /\ LocksOf(op1, r1)[n1] = IF n1 = 1 THEN <<"command", r1.command_id>>
               ELSE IF n1 = 2 THEN <<"expedition", r1.expedition>>
               ELSE <<"invitation-email", r1.expedition>>
        /\ LocksOf(op2, r2)[n2] = IF n2 = 1 THEN <<"command", r2.command_id>>
               ELSE IF n2 = 2 THEN <<"expedition", r2.expedition>>
               ELSE <<"invitation-email", r2.expedition>>
    BY <1>2, LockOrder
  <1>4. \A a, b : /\ <<"command", a>> # <<"expedition", b>>
                  /\ <<"command", a>> # <<"invitation-email", b>>
                  /\ <<"expedition", a>> # <<"invitation-email", b>>
    OBVIOUS
  <1>5. CASE n1 = 1
    BY <1>2, <1>3, <1>4, <1>5
  <1>6. CASE n1 = 2
    BY <1>2, <1>3, <1>4, <1>6
  <1>7. CASE n1 = 3
    BY <1>2, <1>3, <1>4, <1>7
  <1> QED
    BY <1>2, <1>5, <1>6, <1>7

\* A session knows its phase when it is active.
LEMMA ActiveSession ==
    ASSUME SessionsOK, NEW s \in Sessions
    PROVE  /\ Active(s) <=> session[s] \in Transactions
           /\ Active(s) <=> session[s].phase \in Phases
           /\ session[s].phase \in Phases \union {"idle"}
           /\ Active(s) => /\ session[s].request \in Requests
                           /\ session[s].op \in Operations
                           /\ session[s].taken \in Nat
                           /\ session[s].position \in Nat
                           /\ session[s].version \in Nat
  BY DEF SessionsOK, Active, Transactions, Idle, Phases

\* Past "locking" a session has at least the two locks every operation takes.
LEMMA LocksHeld ==
    ASSUME LocksInv, NEW s \in Sessions, session[s].phase \in Phases \ {"locking"}
    PROVE  Active(s) /\ session[s].taken >= 2
  <1>1. Active(s)
    BY ActiveSession DEF LocksInv
  <1>2. session[s].taken = Len(LocksOf(session[s].op, session[s].request))
    BY <1>1, ActiveSession DEF LocksInv, LocksAreTaken
  <1>3. Len(LocksOf(session[s].op, session[s].request)) \in {2, 3}
    BY LockOrder
  <1>4. session[s].taken \in {2, 3}
    BY <1>2, <1>3, Zenon
  <1> QED
    BY <1>1, <1>4

\* The next of a locks is among the b locks that another has.
LEMMA AmongTaken ==
    ASSUME NEW a \in Nat, NEW b \in Nat, NEW l \in {2, 3}, b <= l, a + 1 \in 1..b
    PROVE  a < b /\ b \in 0..3
  OBVIOUS

\* Whoever waits, waits for a session that has taken more locks.
LEMMA WaitersHaveFewerLocks ==
    ASSUME LocksInv, NEW s \in Sessions, NEW t \in Sessions, s # t, WaitsFor(s, t)
    PROVE  /\ Active(s) /\ Active(t)
           /\ session[s].taken \in Nat /\ session[t].taken \in 0..3
           /\ session[s].taken < session[t].taken
  <1>1. CASE WantsLock(s) /\ Holds(t, NextLock(s))
    <2> DEFINE n1 == session[s].taken + 1
    <2>1. Active(s) /\ Active(t)
      BY <1>1, ActiveSession DEF LocksInv, WantsLock, Holds, Phases
    <2>2. session[s].taken \in Nat /\ session[t].taken \in Nat
      BY <2>1, ActiveSession DEF LocksInv
    <2>3. /\ session[t].taken <= Len(LocksOf(session[t].op, session[t].request))
          /\ Len(LocksOf(session[t].op, session[t].request)) \in {2, 3}
          /\ Len(LocksOf(session[s].op, session[s].request)) \in {2, 3}
      BY <2>1, ActiveSession, LockOrder DEF LocksInv, LocksAreTaken
    <2>4. PICK n2 \in 1..session[t].taken :
             NextLock(s) = LocksOf(session[t].op, session[t].request)[n2]
      BY <1>1 DEF Holds
    <2>5. n1 \in 1..Len(LocksOf(session[s].op, session[s].request))
      BY <1>1, <2>2, <2>3 DEF WantsLock
    <2>6. n2 \in 1..Len(LocksOf(session[t].op, session[t].request))
      BY <2>2, <2>3
    <2>7. n1 = n2
      BY <2>4, <2>5, <2>6, LockPlaces DEF NextLock
    <2>8. session[s].taken < session[t].taken /\ session[t].taken \in 0..3
      <3>1. session[s].taken + 1 \in 1..session[t].taken
        BY <2>7
      <3> HIDE DEF n1
      <3> QED
        BY <3>1, <2>2, <2>3, AmongTaken
    <2> QED
      BY <2>1, <2>2, <2>8
  <1>2. CASE /\ session[s].phase \in Phases \ {"locking"}
             /\ session[t].phase \in Phases \ {"locking"}
             /\ session[t].request.expedition = Stream(s)
    BY <1>2, LocksHeld DEF LocksInv, ExpeditionsApart, Stream
  <1> QED
    BY <1>1, <1>2 DEF WaitsFor, HoldsStreamHead, HoldsProjectionHead, Surveys, Phases

\* Nothing climbs for ever below 4.
LEMMA BoundedClimb ==
    ASSUME NEW W, NEW f, W # {},
           \A s \in W : \E t \in W : f[s] \in Nat /\ f[t] \in 0..3 /\ f[s] < f[t]
    PROVE  FALSE
  <1>1. PICK s1 \in W : f[s1] \in 1..3
    OBVIOUS
  <1>2. PICK s2 \in W : f[s2] \in 2..3
    BY <1>1
  <1>3. PICK s3 \in W : f[s3] \in 3..3
    BY <1>2
  <1> QED
    BY <1>3

LEMMA NoCircle == LocksInv => NobodyWaitsInACircle
  <1> SUFFICES ASSUME LocksInv, NEW waiting \in SUBSET Sessions, waiting # {},
                      \A s \in waiting : \E t \in waiting \ {s} : WaitsFor(s, t)
               PROVE  FALSE
    BY DEF NobodyWaitsInACircle
  <1> DEFINE taken == [s \in Sessions |-> session[s].taken]
  <1>1. ASSUME NEW s \in waiting
        PROVE  \E t \in waiting :
                  taken[s] \in Nat /\ taken[t] \in 0..3 /\ taken[s] < taken[t]
    <2>1. PICK t \in waiting \ {s} : WaitsFor(s, t)
      OBVIOUS
    <2>2. taken[s] = session[s].taken /\ taken[t] = session[t].taken
      OBVIOUS
    <2>3. /\ session[s].taken \in Nat /\ session[t].taken \in 0..3
          /\ session[s].taken < session[t].taken
      BY <2>1, WaitersHaveFewerLocks
    <2> HIDE DEF taken
    <2> QED
      BY <2>2, <2>3
  <1> HIDE DEF taken
  <1> QED
    BY <1>1, BoundedClimb

-----------------------------------------------------------------------------
(***************************************************************************)
(* The steps keep the locks apart                                          *)
(***************************************************************************)

\* A session that gets no lock, whatever else it does, takes nothing from the others.
LEMMA NoNewLock ==
    ASSUME LocksInv, NEW s \in Sessions, NEW x,
           session' = [session EXCEPT ![s] = x],
           \/ x = Idle
           \/ x \in Transactions /\ x.phase = "locking" /\ x.taken = 0
           \/ /\ x \in Transactions /\ Active(s)
              /\ x.op = session[s].op /\ x.request = session[s].request
              /\ x.taken = session[s].taken /\ x.taken = Len(LocksOf(x.op, x.request))
    PROVE  LocksInv'
  <1>1. session'[s] = x /\ \A t \in Sessions \ {s} : session'[t] = session[t]
    BY DEF LocksInv, SessionsOK
  <1>2. SessionsOK'
    BY DEF LocksInv, SessionsOK
  <1>3. Idle \notin Transactions
    BY DEF Idle, Transactions, Phases
  <1>4. LocksAreTaken'
    <2> SUFFICES ASSUME NEW r \in Sessions, NEW t \in Transactions, session'[r] = t
                 PROVE  /\ t.taken <= Len(LocksOf(t.op, t.request))
                        /\ t.phase # "locking" => t.taken = Len(LocksOf(t.op, t.request))
      BY DEF LocksAreTaken
    <2>1. CASE r # s
      BY <1>1, <2>1 DEF LocksInv, LocksAreTaken
    <2>2. CASE r = s
      <3>1. Len(LocksOf(t.op, t.request)) \in {2, 3}
        BY LockOrder
      <3> QED
        BY <1>1, <1>3, <2>2, <3>1
    <2> QED
      BY <2>1, <2>2
  <1>5. \A r \in Sessions :
           /\ Active(r)' /\ session'[r].taken >= 1 => /\ Active(r)
                                                     /\ session[r].taken = session'[r].taken
                                                     /\ session[r].request = session'[r].request
    BY <1>1, ActiveSession DEF LocksInv, Active
  <1>6. CommandsApart'
    BY <1>5 DEF LocksInv, CommandsApart
  <1>7. ExpeditionsApart'
    <2>1. \A r \in Sessions : Active(r)' => session'[r].taken \in Nat
      BY <1>2 DEF SessionsOK, Active, Transactions, Idle
    <2>2. \A n \in Nat : n >= 2 => n >= 1
      OBVIOUS
    <2> QED
      BY <1>5, <2>1, <2>2 DEF LocksInv, ExpeditionsApart
  <1> QED
    BY <1>2, <1>4, <1>6, <1>7 DEF LocksInv

LEMMA LocksTake ==
    ASSUME LocksInv, NEW s \in Sessions, TakeLock(s)
    PROVE  LocksInv'
  <1> DEFINE x == [session[s] EXCEPT !.taken = @ + 1]
  <1>1. session[s] \in Transactions /\ session[s].phase = "locking"
    BY ActiveSession DEF LocksInv, TakeLock, WantsLock, Phases
  <1>2. /\ x \in Transactions /\ x.phase = "locking" /\ x.op = session[s].op
        /\ x.request = session[s].request /\ x.taken = session[s].taken + 1
    BY <1>1 DEF Transactions
  <1>3. session' = [session EXCEPT ![s] = x]
    BY <1>1 DEF TakeLock, LocksInv, SessionsOK, Transactions
  <1>4. x.taken <= Len(LocksOf(x.op, x.request)) /\ session[s].taken \in Nat
    <2>1. /\ session[s].taken < Len(LocksOf(session[s].op, session[s].request))
          /\ session[s].taken \in Nat
      BY <1>1 DEF TakeLock, WantsLock, Transactions
    <2>2. Len(LocksOf(x.op, x.request)) \in {2, 3}
      BY LockOrder
    <2>3. session[s].taken < Len(LocksOf(x.op, x.request))
      BY <1>2, <2>1
    <2> QED
      BY <1>2, <2>1, <2>2, <2>3
  <1>5. /\ \A t \in Sessions \ {s} : Active(t) =>
              \A n \in 1..session[t].taken :
                 LocksOf(session[t].op, session[t].request)[n]
                    # LocksOf(session[s].op, session[s].request)[session[s].taken + 1]
    BY DEF TakeLock, Holds, NextLock
  <1>6. /\ session'[s] = x /\ \A t \in Sessions \ {s} : session'[t] = session[t]
        /\ x # Idle
    BY <1>2, <1>3 DEF LocksInv, SessionsOK, Idle, Transactions, Phases
  <1> HIDE DEF x
  <1>7. SessionsOK'
    BY <1>2, <1>3 DEF LocksInv, SessionsOK
  <1>8. LocksAreTaken'
    BY <1>2, <1>4, <1>6 DEF LocksInv, LocksAreTaken
  <1>9. ASSUME NEW t \in Sessions \ {s}, Active(t)'
        PROVE  /\ x.taken >= 1 /\ session'[t].taken >= 1
                    => x.request.command_id # session'[t].request.command_id
               /\ x.taken >= 2 /\ session'[t].taken >= 2
                    => x.request.expedition # session'[t].request.expedition
    <2>1. Active(t) /\ Active(s) /\ session[t].taken \in Nat /\ session'[t] = session[t]
      BY <1>1, <1>6, <1>9, ActiveSession DEF LocksInv, Active
    <2>2. CASE session[s].taken = 0
      <3>1. x.taken = 1 /\ ~(x.taken >= 2)
        BY <1>2, <2>2
      <3>2. session[t].taken >= 1 => 1 \in 1..session[t].taken
        BY <2>1
      <3>3. LocksOf(session[s].op, session[s].request)[session[s].taken + 1]
               = <<"command", session[s].request.command_id>>
        BY <2>2, LockOrder
      <3>4. LocksOf(session[t].op, session[t].request)[1]
               = <<"command", session[t].request.command_id>>
        BY LockOrder
      <3> QED
        BY <1>2, <1>5, <2>1, <3>1, <3>2, <3>3, <3>4
    <2>3. CASE session[s].taken = 1
      <3>1. session[t].taken >= 2 => 2 \in 1..session[t].taken
        BY <2>1
      <3>2. session[s].taken >= 1
        BY <2>3
      <3>3. LocksOf(session[s].op, session[s].request)[session[s].taken + 1]
               = <<"expedition", session[s].request.expedition>>
        BY <2>3, LockOrder
      <3>4. LocksOf(session[t].op, session[t].request)[2]
               = <<"expedition", session[t].request.expedition>>
        BY LockOrder
      <3>5. session[t].taken >= 1
               => session[s].request.command_id # session[t].request.command_id
        BY <2>1, <3>2 DEF LocksInv, CommandsApart
      <3> QED
        BY <1>2, <1>5, <2>1, <3>1, <3>3, <3>4, <3>5
    <2>4. CASE session[s].taken >= 2
      <3>1. session[s].taken >= 1
        BY <1>4, <2>4
      <3> QED
        BY <1>2, <2>1, <2>4, <3>1 DEF LocksInv, CommandsApart, ExpeditionsApart
    <2> QED
      BY <1>4, <2>2, <2>3, <2>4
  <1>10. CommandsApart' /\ ExpeditionsApart'
    BY <1>6, <1>9 DEF LocksInv, CommandsApart, ExpeditionsApart, Active
  <1> QED
    BY <1>7, <1>8, <1>10 DEF LocksInv

\* The shape of a session's step to a later phase, with all its locks.
Moves(s) ==
    \E p \in Phases \ {"locking"}, pos \in Nat, ver \in Nat :
        session' = [session EXCEPT ![s] = At(session[s], p, pos, ver)]

HasAllLocks(s) ==
    /\ session[s] \in Transactions
    /\ session[s].taken = Len(LocksOf(session[s].op, session[s].request))

LEMMA AllLocks ==
    ASSUME LocksInv, NEW s \in Sessions,
           HasLocks(s) \/ session[s].phase \in Phases \ {"locking"}
    PROVE  HasAllLocks(s)
  <1>1. session[s] \in Transactions
    BY ActiveSession DEF LocksInv, HasLocks, Phases
  <1>2. /\ session[s].taken \in Nat
        /\ session[s].taken <= Len(LocksOf(session[s].op, session[s].request))
        /\ session[s].phase # "locking" =>
              session[s].taken = Len(LocksOf(session[s].op, session[s].request))
    BY <1>1 DEF LocksInv, LocksAreTaken, Transactions
  <1>3. Len(LocksOf(session[s].op, session[s].request)) \in {2, 3}
    BY LockOrder
  <1>4. \A a \in Nat, l \in {2, 3} : a <= l /\ ~(a < l) => a = l
    OBVIOUS
  <1> QED
    BY <1>1, <1>2, <1>3, <1>4 DEF HasLocks, WantsLock, HasAllLocks

LEMMA StatementMoves ==
    ASSUME LogTypeOK, LocksInv, NEW s \in Sessions,
           \/ FindNoReceipt(s) \/ Survey(s) \/ AuthorizeActor(s) \/ LockStreamHead(s)
           \/ LockProjectionHead(s) \/ WriteRows(s) \/ Commit(s)
    PROVE  HasAllLocks(s) /\ Moves(s)
  <1>1. HasAllLocks(s)
    BY AllLocks DEF FindNoReceipt, Survey, Surveys, AuthorizeActor, ChecksActor,
       LockStreamHead, LockProjectionHead, WriteRows, Commit, Phases
  <1>2. stream_heads[Stream(s)] \in Nat /\ projection_heads[Stream(s)] \in Nat
    BY <1>1 DEF HasAllLocks, Transactions, Requests, Stream, LogTypeOK
  <1>3. /\ "new" \in Phases \ {"locking"} /\ "surveyed" \in Phases \ {"locking"}
        /\ "authorized" \in Phases \ {"locking"} /\ "positioned" \in Phases \ {"locking"}
        /\ "versioned" \in Phases \ {"locking"} /\ "written" \in Phases \ {"locking"}
        /\ "committed" \in Phases \ {"locking"}
    BY DEF Phases
  <1>4. session[s].position \in Nat /\ session[s].version \in Nat
    BY <1>1 DEF HasAllLocks, Transactions
  <1>5. CASE FindNoReceipt(s) \/ AuthorizeActor(s) \/ WriteRows(s) \/ Commit(s)
    <2>1. PICK p \in Phases \ {"locking"} : Advance(s, p)
      BY <1>3, <1>5 DEF FindNoReceipt, AuthorizeActor, WriteRows, Commit
    <2> QED
      BY <1>1, <1>4, <2>1 DEF Moves, Advance
  <1>6. CASE Survey(s)
    BY <1>1, <1>2, <1>3, <1>6, Zenon DEF Survey, Moves
  <1>7. CASE LockStreamHead(s)
    BY <1>1, <1>2, <1>3, <1>4, <1>7, Zenon DEF LockStreamHead, Moves
  <1>8. CASE LockProjectionHead(s)
    BY <1>1, <1>2, <1>3, <1>4, <1>8, Zenon DEF LockProjectionHead, Moves
  <1> QED
    BY <1>1, <1>5, <1>6, <1>7, <1>8

LEMMA LocksMove ==
    ASSUME LocksInv, NEW s \in Sessions, HasAllLocks(s), Moves(s)
    PROVE  LocksInv'
  <1>1. PICK p \in Phases \ {"locking"}, pos \in Nat, ver \in Nat :
           session' = [session EXCEPT ![s] = At(session[s], p, pos, ver)]
    BY DEF Moves
  <1> DEFINE x == At(session[s], p, pos, ver)
  <1>2. /\ x \in Transactions /\ Active(s)
        /\ x.op = session[s].op /\ x.request = session[s].request
        /\ x.taken = session[s].taken /\ x.taken = Len(LocksOf(x.op, x.request))
    BY ActiveSession DEF HasAllLocks, Transactions, LocksInv, At
  <1>3. session' = [session EXCEPT ![s] = x]
    BY <1>1
  <1> HIDE DEF x
  <1> QED
    BY <1>2, <1>3, NoNewLock

LEMMA LocksBegin ==
    ASSUME LocksInv, NEW s \in Sessions, Begin(s)
    PROVE  LocksInv'
  <1>1. PICK op \in Operations, r \in Requests :
           session' = [session EXCEPT ![s] =
                [phase |-> "locking", op |-> op, request |-> r, taken |-> 0,
                 position |-> 0, version |-> 0]]
    BY DEF Begin
  <1> DEFINE x == [phase |-> "locking", op |-> op, request |-> r, taken |-> 0,
                   position |-> 0, version |-> 0]
  <1>2. x \in Transactions /\ x.phase = "locking" /\ x.taken = 0
    BY DEF Transactions, Phases
  <1>3. session' = [session EXCEPT ![s] = x]
    BY <1>1
  <1> HIDE DEF x
  <1> QED
    BY <1>2, <1>3, NoNewLock

LEMMA LocksInit == Init => LocksInv
  BY DEF Init, LocksInv, SessionsOK, LocksAreTaken, CommandsApart, ExpeditionsApart,
     Active, Idle, Transactions, Phases

LEMMA LocksNext == LogTypeOK /\ LocksInv /\ [Next]_txVars => LocksInv'
  <1> SUFFICES ASSUME LogTypeOK, LocksInv, [Next]_txVars PROVE LocksInv'
    OBVIOUS
  <1>1. ASSUME NEW s \in Sessions, Begin(s) PROVE LocksInv'
    BY <1>1, LocksBegin
  <1>2. ASSUME NEW s \in Sessions, TakeLock(s) PROVE LocksInv'
    BY <1>2, LocksTake
  <1>3. ASSUME NEW s \in Sessions,
               \/ FindNoReceipt(s) \/ Survey(s) \/ AuthorizeActor(s) \/ LockStreamHead(s)
               \/ LockProjectionHead(s) \/ WriteRows(s) \/ Commit(s)
        PROVE  LocksInv'
    BY <1>3, StatementMoves, LocksMove
  <1>4. ASSUME NEW s \in Sessions, Release(s) \/ Decline(s) \/ Rollback(s)
        PROVE  LocksInv'
    BY <1>4, NoNewLock DEF Release, Decline, Rollback, Close
  <1>5. CASE UNCHANGED session
    BY <1>5 DEF LocksInv, SessionsOK, LocksAreTaken, CommandsApart, ExpeditionsApart, Active
  <1> QED
    BY <1>1, <1>2, <1>3, <1>4, <1>5 DEF Next, Statement, txVars

-----------------------------------------------------------------------------
(***************************************************************************)
(* What has been read                                                      *)
(***************************************************************************)

RequestsOK ==
    \A s \in Sessions, t \in Transactions : session[s] = t =>
        /\ WellFormed(t.request)
        /\ (t.request.user = System) <=> (t.request.actor = NoActor)
        /\ t.request.expected + t.request.batch <= MaxPosition
        /\ t.phase \in {"positioned", "versioned", "written"}
              => t.position = t.request.expected

PositionKnown(t) ==
    \/ t.phase \in {"positioned", "versioned", "written"}
    \/ t.phase \in {"surveyed", "authorized"} /\ t.op \in Wrappers

VersionKnown(t) ==
    \/ t.phase \in {"versioned", "written"}
    \/ t.phase \in {"surveyed", "authorized", "positioned"} /\ t.op \in Wrappers

ReadsHold ==
    \A s \in Sessions, t \in Transactions : session[s] = t =>
        /\ t.phase \in Phases \ {"locking", "committed"}
              => receipts[t.request.command_id] = NoReceipt
        /\ PositionKnown(t) => t.position = stream_heads[t.request.expedition]
        /\ VersionKnown(t) => t.version = projection_heads[t.request.expedition]

TransactionInv == LogTypeOK /\ LocksInv /\ RequestsOK /\ ReadsHold

LEMMA ReadsStay == TransactionInv => ReadsStayTrue
  <1> SUFFICES ASSUME TransactionInv, NEW s \in Sessions
               PROVE  /\ Uncommitted(s) => ~HasReceipt(session[s].request)
                      /\ KnowsPosition(s) => session[s].position = stream_heads[Stream(s)]
                      /\ KnowsVersion(s) => session[s].version = projection_heads[Stream(s)]
    BY DEF ReadsStayTrue
  <1>1. CASE ~Active(s)
    BY <1>1 DEF Active, Idle, Uncommitted, KnowsPosition, KnowsVersion, Phases
  <1>2. CASE Active(s)
    <2>1. session[s] \in Transactions
      BY <1>2, ActiveSession DEF TransactionInv, LocksInv
    <2> QED
      BY <2>1 DEF TransactionInv, ReadsHold, Uncommitted, HasReceipt, KnowsPosition,
         KnowsVersion, PositionKnown, VersionKnown, Stream
  <1> QED
    BY <1>1, <1>2

\* A step of one session that writes nothing leaves what the others have read.
LEMMA ReadsOfOthers ==
    ASSUME TransactionInv, UNCHANGED storeVars, NEW s \in Sessions, NEW x,
           session' = [session EXCEPT ![s] = x],
           x \in Transactions =>
              /\ x.phase \in Phases \ {"locking", "committed"}
                    => receipts[x.request.command_id] = NoReceipt
              /\ PositionKnown(x) => x.position = stream_heads[x.request.expedition]
              /\ VersionKnown(x) => x.version = projection_heads[x.request.expedition]
              /\ WellFormed(x.request)
              /\ (x.request.user = System) <=> (x.request.actor = NoActor)
              /\ x.request.expected + x.request.batch <= MaxPosition
              /\ x.phase \in {"positioned", "versioned", "written"}
                    => x.position = x.request.expected
    PROVE  ReadsHold' /\ RequestsOK'
  <1>1. session'[s] = x /\ \A t \in Sessions \ {s} : session'[t] = session[t]
    BY DEF TransactionInv, LocksInv, SessionsOK
  <1>2. /\ receipts' = receipts /\ stream_heads' = stream_heads
        /\ projection_heads' = projection_heads
    BY DEF storeVars, logVars
  <1>3. ReadsHold'
    BY <1>1, <1>2 DEF TransactionInv, ReadsHold, PositionKnown, VersionKnown
  <1>4. RequestsOK'
    BY <1>1 DEF TransactionInv, RequestsOK
  <1> QED
    BY <1>3, <1>4

LEMMA ReadsBegin ==
    ASSUME TransactionInv, NEW s \in Sessions, Begin(s)
    PROVE  ReadsHold' /\ RequestsOK'
  <1>1. PICK op \in Operations, r \in Requests :
           /\ WellFormed(r)
           /\ (r.user = System) <=> (r.actor = NoActor)
           /\ r.expected + r.batch <= MaxPosition
           /\ session' = [session EXCEPT ![s] =
                [phase |-> "locking", op |-> op, request |-> r, taken |-> 0,
                 position |-> 0, version |-> 0]]
    BY DEF Begin
  <1> DEFINE x == [phase |-> "locking", op |-> op, request |-> r, taken |-> 0,
                   position |-> 0, version |-> 0]
  <1>2. x.phase = "locking" /\ x.request = r
    OBVIOUS
  <1>3. session' = [session EXCEPT ![s] = x] /\ UNCHANGED storeVars
    BY <1>1 DEF Begin
  <1> HIDE DEF x
  <1> QED
    BY <1>1, <1>2, <1>3, ReadsOfOthers DEF PositionKnown, VersionKnown

LEMMA ReadsTakeLock ==
    ASSUME TransactionInv, NEW s \in Sessions, TakeLock(s)
    PROVE  ReadsHold' /\ RequestsOK'
  <1> DEFINE x == [session[s] EXCEPT !.taken = @ + 1]
  <1>1. session[s] \in Transactions /\ session[s].phase = "locking"
    BY ActiveSession DEF TransactionInv, LocksInv, TakeLock, WantsLock, Phases
  <1>2. x.phase = "locking" /\ x.request = session[s].request
    BY <1>1 DEF Transactions
  <1>3. session' = [session EXCEPT ![s] = x] /\ UNCHANGED storeVars
    BY <1>1 DEF TakeLock, TransactionInv, LocksInv, SessionsOK, Transactions
  <1>4. /\ WellFormed(session[s].request)
        /\ (session[s].request.user = System) <=> (session[s].request.actor = NoActor)
        /\ session[s].request.expected + session[s].request.batch <= MaxPosition
    BY <1>1 DEF TransactionInv, RequestsOK
  <1> HIDE DEF x
  <1>5. WellFormed(x.request)
    BY <1>2, <1>4
  <1> QED
    BY <1>2, <1>3, <1>4, <1>5, ReadsOfOthers DEF PositionKnown, VersionKnown

\* A statement reads or checks what it claims to know from then on.
LEMMA ReadsStatement ==
    ASSUME TransactionInv, NEW s \in Sessions,
           \/ FindNoReceipt(s) \/ Survey(s) \/ AuthorizeActor(s) \/ LockStreamHead(s)
           \/ LockProjectionHead(s) \/ WriteRows(s)
    PROVE  ReadsHold' /\ RequestsOK'
  <1>1. HasAllLocks(s)
    BY StatementMoves DEF TransactionInv
  <1> DEFINE t == session[s]
  <1>2. t \in Transactions
    BY <1>1 DEF HasAllLocks
  <1>3. /\ WellFormed(t.request)
        /\ (t.request.user = System) <=> (t.request.actor = NoActor)
        /\ t.request.expected + t.request.batch <= MaxPosition
        /\ t.phase \in {"positioned", "versioned", "written"}
              => t.position = t.request.expected
    BY <1>2 DEF TransactionInv, RequestsOK
  <1>4. /\ t.phase \in Phases \ {"locking", "committed"}
              => receipts[t.request.command_id] = NoReceipt
        /\ PositionKnown(t) => t.position = stream_heads[t.request.expedition]
        /\ VersionKnown(t) => t.version = projection_heads[t.request.expedition]
    BY <1>2 DEF TransactionInv, ReadsHold
  <1> DEFINE Kept(x) == x.op = t.op /\ x.request = t.request
  <1>5. ASSUME NEW p, NEW pos, NEW ver
        PROVE  LET x == At(t, p, pos, ver)
               IN  Kept(x) /\ x.phase = p /\ x.position = pos /\ x.version = ver
    BY DEF At
  <1>6. CASE FindNoReceipt(s)
    <2> DEFINE x == At(t, "new", t.position, t.version)
    <2>1. session' = [session EXCEPT ![s] = x] /\ UNCHANGED storeVars
      BY <1>6 DEF FindNoReceipt, Advance
    <2>2. receipts[t.request.command_id] = NoReceipt
      BY <1>6 DEF FindNoReceipt, HasReceipt
    <2>3. Kept(x) /\ x.phase = "new"
      BY <1>5
    <2> HIDE DEF x, t
    <2>4. WellFormed(x.request)
      BY <1>3, <2>3
    <2> QED
      BY <1>3, <2>1, <2>2, <2>3, <2>4, ReadsOfOthers DEF PositionKnown, VersionKnown
  <1>7. CASE Survey(s)
    <2> DEFINE x == At(t, "surveyed", stream_heads[Stream(s)], projection_heads[Stream(s)])
    <2>1. session' = [session EXCEPT ![s] = x] /\ UNCHANGED storeVars
      BY <1>7 DEF Survey
    <2>2. t.phase = "new" /\ Stream(s) = t.request.expedition
      BY <1>7 DEF Survey, Surveys, Stream
    <2>3. /\ Kept(x) /\ x.phase = "surveyed" /\ x.position = stream_heads[Stream(s)]
          /\ x.version = projection_heads[Stream(s)]
      BY <1>5
    <2> HIDE DEF x, t
    <2>4. WellFormed(x.request)
      BY <1>3, <2>3
    <2> QED
      BY <1>3, <1>4, <2>1, <2>2, <2>3, <2>4, ReadsOfOthers DEF Phases
  <1>8. CASE AuthorizeActor(s)
    <2> DEFINE x == At(t, "authorized", t.position, t.version)
    <2>1. session' = [session EXCEPT ![s] = x] /\ UNCHANGED storeVars
      BY <1>8 DEF AuthorizeActor, Advance
    <2>2. t.phase = "surveyed" \/ (t.phase = "new" /\ t.op \notin Wrappers)
      BY <1>8 DEF AuthorizeActor, ChecksActor
    <2>3. /\ Kept(x) /\ x.phase = "authorized" /\ x.position = t.position
          /\ x.version = t.version
      BY <1>5
    <2> HIDE DEF x, t
    <2>4. WellFormed(x.request)
      BY <1>3, <2>3
    <2> QED
      BY <1>3, <1>4, <2>1, <2>2, <2>3, <2>4, ReadsOfOthers
         DEF PositionKnown, VersionKnown, Phases
  <1>9. CASE LockStreamHead(s)
    <2> DEFINE x == At(t, "positioned", stream_heads[Stream(s)], t.version)
    <2>1. session' = [session EXCEPT ![s] = x] /\ UNCHANGED storeVars
      BY <1>9 DEF LockStreamHead
    <2>2. /\ t.phase = "authorized" /\ Stream(s) = t.request.expedition
          /\ t.request.expected = stream_heads[Stream(s)]
      BY <1>9 DEF LockStreamHead, Stream
    <2>3. /\ Kept(x) /\ x.phase = "positioned" /\ x.position = stream_heads[Stream(s)]
          /\ x.version = t.version
      BY <1>5
    <2> HIDE DEF x, t
    <2>4. WellFormed(x.request)
      BY <1>3, <2>3
    <2> QED
      BY <1>3, <1>4, <2>1, <2>2, <2>3, <2>4, ReadsOfOthers DEF VersionKnown, Phases
  <1>10. CASE LockProjectionHead(s)
    <2> DEFINE x == At(t, "versioned", t.position, projection_heads[Stream(s)])
    <2>1. session' = [session EXCEPT ![s] = x] /\ UNCHANGED storeVars
      BY <1>10 DEF LockProjectionHead
    <2>2. t.phase = "positioned" /\ Stream(s) = t.request.expedition
      BY <1>10 DEF LockProjectionHead, Stream
    <2>3. /\ Kept(x) /\ x.phase = "versioned" /\ x.position = t.position
          /\ x.version = projection_heads[Stream(s)]
      BY <1>5
    <2> HIDE DEF x, t
    <2>4. WellFormed(x.request)
      BY <1>3, <2>3
    <2> QED
      BY <1>3, <1>4, <2>1, <2>2, <2>3, <2>4, ReadsOfOthers DEF PositionKnown, Phases
  <1>11. CASE WriteRows(s)
    <2> DEFINE x == At(t, "written", t.position, t.version)
    <2>1. session' = [session EXCEPT ![s] = x] /\ UNCHANGED storeVars
      BY <1>11 DEF WriteRows, Advance
    <2>2. t.phase = "versioned"
      BY <1>11 DEF WriteRows
    <2>3. /\ Kept(x) /\ x.phase = "written" /\ x.position = t.position
          /\ x.version = t.version
      BY <1>5
    <2> HIDE DEF x, t
    <2>4. WellFormed(x.request)
      BY <1>3, <2>3
    <2> QED
      BY <1>3, <1>4, <2>1, <2>2, <2>3, <2>4, ReadsOfOthers
         DEF PositionKnown, VersionKnown, Phases
  <1> QED
    BY <1>6, <1>7, <1>8, <1>9, <1>10, <1>11

\* A commit writes what process_command as one step would write.
LEMMA CommitWrites ==
    ASSUME TransactionInv, NEW s \in Sessions, Commit(s)
    PROVE  /\ session[s] \in Transactions /\ session[s].phase = "written"
           /\ session[s].request \in Requests
           /\ Writes(session[s].request)
           /\ session' = [session EXCEPT ![s] =
                 At(session[s], "committed", session[s].position, session[s].version)]
  <1> DEFINE t == session[s]
             r == session[s].request
  <1>1. t \in Transactions /\ t.phase = "written" /\ r \in Requests
    BY StatementMoves DEF TransactionInv, HasAllLocks, Commit, Transactions
  <1>2. t.position = stream_heads[r.expedition] /\ t.version = projection_heads[r.expedition]
    BY <1>1 DEF TransactionInv, ReadsHold, PositionKnown, VersionKnown
  <1>3. PositionAfter(t) = FinalPosition(r) /\ VersionAfter(t) = FinalVersion(r)
    BY <1>2 DEF PositionAfter, FinalPosition, VersionAfter, FinalVersion
  <1>4. ReceiptOf(t) = NewReceipt(r)
    BY <1>3 DEF ReceiptOf, NewReceipt
  <1>5. RowsOf(t) = NewRows(r)
    BY <1>2 DEF RowsOf, NewRows
  <1>6. DocumentsOf(t) = UpsertedDocuments(r)
    BY <1>3 DEF DocumentsOf, UpsertedDocuments
  <1>7. Writes(r)
    BY <1>3, <1>4, <1>5, <1>6 DEF Commit, Writes
  <1> QED
    BY <1>1, <1>7 DEF Commit, Advance

\* A commit changes nothing that another transaction has read: both would hold the
\* lock of one command or of one Expedition.
LEMMA ReadsCommit ==
    ASSUME TransactionInv, NEW s \in Sessions, Commit(s)
    PROVE  ReadsHold' /\ RequestsOK'
  <1> DEFINE x == At(session[s], "committed", session[s].position, session[s].version)
  <1>1. session'[s] = x /\ \A r \in Sessions \ {s} : session'[r] = session[r]
    BY CommitWrites DEF TransactionInv, LocksInv, SessionsOK
  <1>2. x.phase = "committed" /\ x.request = session[s].request
    BY DEF At
  <1>3. ASSUME NEW r \in Sessions \ {s}, NEW t \in Transactions, session[r] = t,
               t.phase # "locking"
        PROVE  /\ receipts'[t.request.command_id] = receipts[t.request.command_id]
               /\ stream_heads'[t.request.expedition] = stream_heads[t.request.expedition]
               /\ projection_heads'[t.request.expedition]
                     = projection_heads[t.request.expedition]
    <2>1. Active(s) /\ session[s].taken >= 2 /\ session[s].taken \in Nat
      BY CommitWrites, LocksHeld, ActiveSession DEF TransactionInv, LocksInv, Phases
    <2>2. Active(r) /\ t.taken >= 2 /\ t.taken \in Nat
      BY <1>3, LocksHeld DEF TransactionInv, Transactions
    <2>3. session[s].taken >= 1 /\ t.taken >= 1
      BY <2>1, <2>2
    <2>4. /\ t.request.command_id # session[s].request.command_id
          /\ t.request.expedition # session[s].request.expedition
      BY <1>3, <2>1, <2>2, <2>3 DEF TransactionInv, LocksInv, CommandsApart, ExpeditionsApart
    <2>5. t.request.command_id \in CommandIds /\ t.request.expedition \in Expeditions
      BY DEF Transactions, Requests
    <2>6. Writes(session[s].request)
      BY CommitWrites
    <2> QED
      BY <2>4, <2>5, <2>6 DEF Writes, TransactionInv, LogTypeOK
  <1> HIDE DEF x
  <1>4. ReadsHold'
    <2> SUFFICES ASSUME NEW r \in Sessions, NEW t \in Transactions, session'[r] = t
                 PROVE  /\ t.phase \in Phases \ {"locking", "committed"}
                              => receipts'[t.request.command_id] = NoReceipt
                        /\ PositionKnown(t)
                              => t.position = stream_heads'[t.request.expedition]
                        /\ VersionKnown(t)
                              => t.version = projection_heads'[t.request.expedition]
      BY DEF ReadsHold, PositionKnown, VersionKnown
    <2>1. CASE t.phase \in {"locking", "committed"}
      BY <2>1 DEF PositionKnown, VersionKnown
    <2>2. CASE t.phase \notin {"locking", "committed"}
      <3>1. r # s
        BY <1>1, <1>2, <2>2
      <3>2. session[r] = t
        BY <1>1, <3>1
      <3> QED
        BY <1>3, <2>2, <3>1, <3>2 DEF TransactionInv, ReadsHold
    <2> QED
      BY <2>1, <2>2
  <1>5. RequestsOK'
    <2>1. /\ WellFormed(session[s].request)
          /\ (session[s].request.user = System) <=> (session[s].request.actor = NoActor)
          /\ session[s].request.expected + session[s].request.batch <= MaxPosition
      BY CommitWrites DEF TransactionInv, RequestsOK
    <2>2. WellFormed(x.request)
      BY <1>2, <2>1
    <2> QED
      BY <1>1, <1>2, <2>1, <2>2 DEF TransactionInv, RequestsOK
  <1> QED
    BY <1>4, <1>5

-----------------------------------------------------------------------------
(***************************************************************************)
(* Safety                                                                  *)
(***************************************************************************)

LEMMA InvInit == Init => TransactionInv
  <1> SUFFICES ASSUME Init PROVE TransactionInv
    OBVIOUS
  <1>1. LogTypeOK
    BY TypeInit DEF Init
  <1>2. LocksInv
    BY LocksInit
  <1>3. \A s \in Sessions : session[s] \notin Transactions
    BY DEF Init, Transactions, Idle, Phases
  <1> QED
    BY <1>1, <1>2, <1>3 DEF TransactionInv, RequestsOK, ReadsHold

LEMMA InvNext == TransactionInv /\ [Next]_txVars => TransactionInv'
  <1> SUFFICES ASSUME TransactionInv, [Next]_txVars PROVE TransactionInv'
    OBVIOUS
  <1>1. LocksInv'
    BY LocksNext DEF TransactionInv
  <1>2. ASSUME NEW s \in Sessions, Commit(s)
        PROVE  LogTypeOK' /\ ReadsHold' /\ RequestsOK'
    BY <1>2, CommitWrites, TypeWrites, ReadsCommit DEF TransactionInv
  <1>3. UNCHANGED storeVars => LogTypeOK'
    BY DEF TransactionInv, LogTypeOK, storeVars, logVars
  <1>4. ASSUME NEW s \in Sessions, Begin(s)
        PROVE  LogTypeOK' /\ ReadsHold' /\ RequestsOK'
    BY <1>3, <1>4, ReadsBegin DEF Begin
  <1>5. ASSUME NEW s \in Sessions, TakeLock(s)
        PROVE  LogTypeOK' /\ ReadsHold' /\ RequestsOK'
    BY <1>3, <1>5, ReadsTakeLock DEF TakeLock
  <1>6. ASSUME NEW s \in Sessions,
               \/ FindNoReceipt(s) \/ Survey(s) \/ AuthorizeActor(s) \/ LockStreamHead(s)
               \/ LockProjectionHead(s) \/ WriteRows(s)
        PROVE  LogTypeOK' /\ ReadsHold' /\ RequestsOK'
    BY <1>3, <1>6, ReadsStatement DEF FindNoReceipt, Survey, AuthorizeActor, LockStreamHead,
       LockProjectionHead, WriteRows
  <1>7. ASSUME NEW s \in Sessions, Release(s) \/ Decline(s) \/ Rollback(s)
        PROVE  LogTypeOK' /\ ReadsHold' /\ RequestsOK'
    <2>1. session' = [session EXCEPT ![s] = Idle] /\ UNCHANGED storeVars
      BY <1>7 DEF Release, Decline, Rollback, Close
    <2>2. Idle \notin Transactions
      BY DEF Idle, Transactions, Phases
    <2> QED
      BY <1>3, <2>1, <2>2, ReadsOfOthers
  <1>8. ASSUME NEW e \in Expeditions, NEW u \in Users, ChangeActor(e, u), UNCHANGED session
        PROVE  LogTypeOK' /\ ReadsHold' /\ RequestsOK'
    <2>1. LogTypeOK'
      BY <1>8, TypeChangeActor DEF TransactionInv
    <2>2. ReadsHold' /\ RequestsOK'
      BY <1>8 DEF ChangeActor, logVars, TransactionInv, ReadsHold, PositionKnown,
         VersionKnown, RequestsOK
    <2> QED
      BY <2>1, <2>2
  <1>9. ASSUME UNCHANGED txVars
        PROVE  LogTypeOK' /\ ReadsHold' /\ RequestsOK'
    BY <1>3, <1>9 DEF txVars, storeVars, logVars, TransactionInv, ReadsHold, PositionKnown,
       VersionKnown, RequestsOK
  <1>10. LogTypeOK' /\ ReadsHold' /\ RequestsOK'
    BY <1>2, <1>4, <1>5, <1>6, <1>7, <1>8, <1>9 DEF Next, Statement
  <1> QED
    BY <1>1, <1>10 DEF TransactionInv

LEMMA InvAlways == Spec => []TransactionInv
  BY InvInit, InvNext, PTL DEF Spec

\* Tables and transactions keep their types.
THEOREM TransactionTypeCorrect == Spec => []TypeOK
  <1>1. TransactionInv => TypeOK
    BY DEF TransactionInv, LocksInv, SessionsOK, TypeOK
  <1> QED
    BY <1>1, InvAlways, PTL

\* What the statements of a transaction have read of receipts, positions and versions
\* is still so when it writes.
THEOREM ReadsStayTrueAlways == Spec => []ReadsStayTrue
  BY ReadsStay, InvAlways, PTL

\* Sessions never wait for each other in a circle, however many there are.
THEOREM NoDeadlock == Spec => []NobodyWaitsInACircle
  <1>1. TransactionInv => NobodyWaitsInACircle
    BY NoCircle DEF TransactionInv
  <1> QED
    BY <1>1, InvAlways, PTL

-----------------------------------------------------------------------------
(***************************************************************************)
(* A call is one step                                                      *)
(***************************************************************************)

\* At most one session is past the check of an actor in an Expedition, so the actors
\* in their order are well defined.
ActorsOK ==
    /\ actorsInOrder \in [Expeditions -> [Users -> ActorContexts \union {NoActor}]]
    /\ \A e \in Expeditions, u \in Users, s \in Sessions :
          Past(s, e, u) => actorsInOrder[e][u] = session[s].request.actor
    /\ \A e \in Expeditions, u \in Users :
          (\A s \in Sessions : ~Past(s, e, u)) => actorsInOrder[e][u] = actor_contexts[e][u]

LEMMA ActorsInOrder == TransactionInv => ActorsOK
  <1> SUFFICES ASSUME TransactionInv PROVE ActorsOK
    OBVIOUS
  <1>1. ASSUME NEW e, NEW u, NEW s \in Sessions, Past(s, e, u)
        PROVE  /\ Active(s) /\ session[s].taken >= 2
               /\ session[s].request.expedition = e
               /\ session[s].request.actor \in ActorContexts \union {NoActor}
    <2>1. Active(s) /\ session[s].taken >= 2
      BY <1>1, LocksHeld DEF TransactionInv, Past, Phases
    <2>2. session[s].request \in Requests
      BY <2>1, ActiveSession DEF TransactionInv, LocksInv
    <2> QED
      BY <1>1, <2>1, <2>2 DEF Past, Requests
  <1>2. ASSUME NEW e, NEW u, NEW s \in Sessions, NEW r \in Sessions,
               Past(s, e, u), Past(r, e, u)
        PROVE  s = r
    BY <1>1, <1>2 DEF TransactionInv, LocksInv, ExpeditionsApart
  <1>3. ASSUME NEW e \in Expeditions, NEW u \in Users, NEW s \in Sessions, Past(s, e, u)
        PROVE  actorsInOrder[e][u] = session[s].request.actor
    <2>1. (CHOOSE r \in Sessions : Past(r, e, u)) = s
      BY <1>2, <1>3
    <2> QED
      BY <1>3, <2>1 DEF actorsInOrder
  <1>4. ASSUME NEW e \in Expeditions, NEW u \in Users,
               \A s \in Sessions : ~Past(s, e, u)
        PROVE  actorsInOrder[e][u] = actor_contexts[e][u]
    BY <1>4 DEF actorsInOrder
  <1>5. ASSUME NEW e \in Expeditions, NEW u \in Users
        PROVE  actorsInOrder[e][u] \in ActorContexts \union {NoActor}
    <2>1. CASE \E s \in Sessions : Past(s, e, u)
      BY <1>1, <1>3, <2>1
    <2>2. CASE \A s \in Sessions : ~Past(s, e, u)
      <3>1. actor_contexts[e][u] \in ActorContexts \union {NoActor}
        BY DEF TransactionInv, LogTypeOK
      <3> QED
        BY <1>4, <2>2, <3>1
    <2> QED
      BY <2>1, <2>2
  <1>6. actorsInOrder = [e \in Expeditions |-> [u \in Users |-> actorsInOrder[e][u]]]
    BY DEF actorsInOrder
  <1>7. actorsInOrder \in [Expeditions -> [Users -> ActorContexts \union {NoActor}]]
    BY <1>5, <1>6
  <1> QED
    BY <1>3, <1>4, <1>7 DEF ActorsOK

\* Steps that leave the tables and all actors but one are steps of the log.
LEMMA OneActorStep ==
    ASSUME ActorsOK, ActorsOK', UNCHANGED logVars, NEW e0, NEW u0,
           \A e \in Expeditions, u \in Users :
              e # e0 \/ u # u0 => actorsInOrder'[e][u] = actorsInOrder[e][u]
    PROVE  Log!LogNext \/ UNCHANGED Log!storeVars
  <1>1. UNCHANGED Log!logVars
    BY DEF logVars, Log!logVars
  <1>2. /\ actorsInOrder \in [Expeditions -> [Users -> ActorContexts \union {NoActor}]]
        /\ actorsInOrder' \in [Expeditions -> [Users -> ActorContexts \union {NoActor}]]
    BY DEF ActorsOK
  <1>3. CASE /\ e0 \in Expeditions /\ u0 \in Users
             /\ actorsInOrder'[e0][u0] # actorsInOrder[e0][u0]
    <2>1. actorsInOrder'
             = [actorsInOrder EXCEPT ![e0] = [@ EXCEPT ![u0] = actorsInOrder'[e0][u0]]]
      BY <1>2, <1>3
    <2>2. actorsInOrder'[e0][u0] \in ActorContexts \union {NoActor}
      BY <1>2, <1>3
    <2>3. Log!ChangeActor(e0, u0)
      BY <1>1, <1>3, <2>1, <2>2 DEF Log!ChangeActor
    <2> QED
      BY <1>3, <2>3 DEF Log!LogNext
  <1>4. CASE ~ /\ e0 \in Expeditions /\ u0 \in Users
               /\ actorsInOrder'[e0][u0] # actorsInOrder[e0][u0]
    <2>1. \A e \in Expeditions, u \in Users :
             actorsInOrder'[e][u] = actorsInOrder[e][u]
      BY <1>4
    <2>2. \A e \in Expeditions : actorsInOrder'[e] = actorsInOrder[e]
      BY <1>2, <2>1
    <2>3. actorsInOrder' = actorsInOrder
      BY <1>2, <2>2
    <2> QED
      BY <1>1, <2>3 DEF Log!storeVars
  <1> QED
    BY <1>3, <1>4

\* A session's own step is about the actor of its request only.
LEMMA SessionStep ==
    ASSUME ActorsOK, ActorsOK', SessionsOK, UNCHANGED storeVars,
           NEW s \in Sessions, NEW x, session' = [session EXCEPT ![s] = x], NEW r,
           Active(s) => session[s].request = r,
           x # Idle => x.request = r
    PROVE  Log!LogNext \/ UNCHANGED Log!storeVars
  <1>1. session'[s] = x /\ \A t \in Sessions \ {s} : session'[t] = session[t]
    BY DEF SessionsOK
  <1>2. ASSUME NEW e \in Expeditions, NEW u \in Users,
               e # r.expedition \/ u # r.user
        PROVE  actorsInOrder'[e][u] = actorsInOrder[e][u]
    <2>1. ~Past(s, e, u)
      BY <1>2 DEF Past, Active, Idle
    <2>2. ~Past(s, e, u)'
      BY <1>1, <1>2 DEF Past, Idle
    <2>3. \A t \in Sessions \ {s} : Past(t, e, u)' <=> Past(t, e, u)
      BY <1>1 DEF Past
    <2>4. CASE \E t \in Sessions : Past(t, e, u)
      <3>1. PICK t \in Sessions \ {s} : Past(t, e, u) /\ Past(t, e, u)'
        BY <2>1, <2>3, <2>4
      <3>2. actorsInOrder[e][u] = session[t].request.actor
        BY <3>1 DEF ActorsOK
      <3>3. actorsInOrder'[e][u] = session'[t].request.actor
        BY <3>1 DEF ActorsOK
      <3> QED
        BY <1>1, <3>2, <3>3
    <2>5. CASE ~\E t \in Sessions : Past(t, e, u)
      <3>1. actorsInOrder[e][u] = actor_contexts[e][u]
        BY <2>5 DEF ActorsOK
      <3>2. \A t \in Sessions : ~Past(t, e, u)'
        BY <2>2, <2>3, <2>5
      <3>3. actorsInOrder'[e][u] = actor_contexts'[e][u]
        BY <3>2 DEF ActorsOK
      <3> QED
        BY <3>1, <3>3 DEF storeVars
    <2> QED
      BY <2>4, <2>5
  <1>3. UNCHANGED logVars
    BY DEF storeVars
  <1> QED
    BY <1>2, <1>3, OneActorStep

\* The commit is the step of the log: what it decided on is still so, and its actor
\* is, in the order chosen, still the actor.
LEMMA CommitIsPersist ==
    ASSUME TransactionInv, ActorsOK, ActorsOK', NEW s \in Sessions, Commit(s)
    PROVE  Log!LogNext
  <1>1. PICK t \in Transactions, r \in Requests : session[s] = t /\ t.request = r
    BY CommitWrites
  <1>2. /\ t.phase = "written" /\ Writes(r)
        /\ session' = [session EXCEPT ![s] = At(t, "committed", t.position, t.version)]
    BY <1>1, CommitWrites
  <1>3. r.expedition \in Expeditions /\ r.user \in Principals /\ r.command_id \in CommandIds
    BY DEF Requests
  <1>4. /\ WellFormed(r)
        /\ (r.user = System) <=> (r.actor = NoActor)
        /\ r.expected + r.batch <= MaxPosition
        /\ t.position = r.expected
    BY <1>1, <1>2 DEF TransactionInv, RequestsOK
  <1>5. receipts[r.command_id] = NoReceipt /\ t.position = stream_heads[r.expedition]
    BY <1>1, <1>2 DEF TransactionInv, ReadsHold, PositionKnown, Phases
  <1>6. Log!ActorMatches(r)
    <2>1. CASE r.user = System
      BY <1>4, <2>1 DEF Log!ActorMatches
    <2>2. CASE r.user # System
      <3>1. r.user \in Users
        BY <1>3, <2>2 DEF Principals
      <3>2. Past(s, r.expedition, r.user)
        BY <1>1, <1>2 DEF Past
      <3>3. actorsInOrder[r.expedition][r.user] = r.actor
        BY <1>1, <1>3, <3>1, <3>2 DEF ActorsOK
      <3> QED
        BY <1>4, <2>2, <3>3 DEF Log!ActorMatches
    <2> QED
      BY <2>1, <2>2
  <1>7. Log!Persists(r)
    <2>1. Log!WellFormed(r)
      BY <1>4 DEF WellFormed, Log!WellFormed
    <2> QED
      BY <1>4, <1>5, <1>6, <2>1 DEF Log!Persists, Log!HasReceipt
  <1>8. actorsInOrder' = actorsInOrder
    <2>1. At(t, "committed", t.position, t.version).phase = "committed"
             /\ At(t, "committed", t.position, t.version).request = r
      BY <1>1 DEF At
    <2>2. \A q \in Sessions :
             /\ session'[q].request = session[q].request
             /\ q # s => session'[q] = session[q]
      BY <1>1, <1>2, <2>1 DEF TransactionInv, LocksInv, SessionsOK
    <2>3. session'[s].phase = "committed"
      BY <1>2, <2>1 DEF TransactionInv, LocksInv, SessionsOK
    <2>4. ASSUME NEW e \in Expeditions, NEW u \in Users, NEW q \in Sessions
          PROVE  Past(q, e, u)' <=> Past(q, e, u)
      BY <1>1, <1>2, <2>2, <2>3 DEF Past
    <2>5. ASSUME NEW e \in Expeditions, NEW u \in Users
          PROVE  actorsInOrder'[e][u] = actorsInOrder[e][u]
      <3>1. CASE \E q \in Sessions : Past(q, e, u)
        <4>1. PICK q \in Sessions : Past(q, e, u) /\ Past(q, e, u)'
          BY <2>4, <3>1
        <4>2. actorsInOrder[e][u] = session[q].request.actor
          BY <4>1 DEF ActorsOK
        <4>3. actorsInOrder'[e][u] = session'[q].request.actor
          BY <4>1 DEF ActorsOK
        <4> QED
          BY <2>2, <4>2, <4>3
      <3>2. CASE ~\E q \in Sessions : Past(q, e, u)
        <4>1. actorsInOrder[e][u] = actor_contexts[e][u]
          BY <3>2 DEF ActorsOK
        <4>2. \A q \in Sessions : ~Past(q, e, u)'
          BY <2>4, <3>2
        <4>3. actorsInOrder'[e][u] = actor_contexts'[e][u]
          BY <4>2 DEF ActorsOK
        <4> QED
          BY <1>2, <4>1, <4>3 DEF Writes
      <3> QED
        BY <3>1, <3>2
    <2>6. /\ actorsInOrder \in [Expeditions -> [Users -> ActorContexts \union {NoActor}]]
          /\ actorsInOrder' \in [Expeditions -> [Users -> ActorContexts \union {NoActor}]]
      BY DEF ActorsOK
    <2>7. \A e \in Expeditions : actorsInOrder'[e] = actorsInOrder[e]
      BY <2>5, <2>6
    <2> QED
      BY <2>6, <2>7
  <1>9. /\ Log!FinalPosition(r) = FinalPosition(r) /\ Log!FinalVersion(r) = FinalVersion(r)
        /\ Log!NewRows(r) = NewRows(r)
    BY DEF Log!FinalPosition, FinalPosition, Log!FinalVersion, FinalVersion,
       Log!NewRows, NewRows, Log!EventId, EventId
  <1>10. Log!NewReceipt(r) = NewReceipt(r)
    BY <1>9 DEF Log!NewReceipt, NewReceipt, Log!RequestHash, RequestHash
  <1>11. Log!UpsertedDocuments(r) = UpsertedDocuments(r)
    BY <1>9 DEF Log!UpsertedDocuments, UpsertedDocuments
  <1>12. Log!Persist(r)
    BY <1>2, <1>7, <1>8, <1>9, <1>10, <1>11 DEF Writes, Log!Persist
  <1>13. Log!FinalPosition(r) <= MaxPosition
    BY <1>4, <1>5, <1>9 DEF FinalPosition
  <1>14. r \in Log!Requests
    BY DEF Requests, Log!Requests, Principals, Log!Principals
  <1> QED
    BY <1>12, <1>13, <1>14 DEF Log!LogNext

LEMMA LogInitially == Init /\ ActorsOK => Log!LogInit
  BY DEF Init, LogInit, Log!LogInit, ActorsOK

LEMMA TransactionSteps ==
    TransactionInv /\ ActorsOK /\ ActorsOK' /\ [Next]_txVars => [Log!LogNext]_(Log!storeVars)
  <1> SUFFICES ASSUME TransactionInv, ActorsOK, ActorsOK', [Next]_txVars
               PROVE  Log!LogNext \/ UNCHANGED Log!storeVars
    OBVIOUS
  <1>1. SessionsOK
    BY DEF TransactionInv, LocksInv
  <1>2. ASSUME NEW s \in Sessions, Begin(s)
        PROVE  Log!LogNext \/ UNCHANGED Log!storeVars
    <2>1. PICK op \in Operations, r \in Requests :
             session' = [session EXCEPT ![s] =
                [phase |-> "locking", op |-> op, request |-> r, taken |-> 0,
                 position |-> 0, version |-> 0]]
      BY <1>2 DEF Begin
    <2> DEFINE x == [phase |-> "locking", op |-> op, request |-> r, taken |-> 0,
                     position |-> 0, version |-> 0]
    <2>2. /\ session' = [session EXCEPT ![s] = x] /\ x.request = r
          /\ ~Active(s) /\ UNCHANGED storeVars
      BY <1>2, <2>1 DEF Begin, Active
    <2> HIDE DEF x
    <2> QED
      BY <1>1, <2>2, SessionStep
  <1>3. ASSUME NEW s \in Sessions, TakeLock(s)
        PROVE  Log!LogNext \/ UNCHANGED Log!storeVars
    <2> DEFINE x == [session[s] EXCEPT !.taken = @ + 1]
    <2>1. session[s] \in Transactions
      BY <1>1, <1>3, ActiveSession DEF TakeLock, WantsLock, Phases
    <2>2. /\ session' = [session EXCEPT ![s] = x] /\ UNCHANGED storeVars
          /\ x.request = session[s].request
      BY <1>1, <1>3, <2>1 DEF TakeLock, SessionsOK, Transactions
    <2> HIDE DEF x
    <2> QED
      BY <1>1, <2>2, SessionStep
  <1>4. ASSUME NEW s \in Sessions,
               \/ FindNoReceipt(s) \/ Survey(s) \/ AuthorizeActor(s) \/ LockStreamHead(s)
               \/ LockProjectionHead(s) \/ WriteRows(s)
        PROVE  Log!LogNext \/ UNCHANGED Log!storeVars
    <2>1. Moves(s)
      BY <1>4, StatementMoves DEF TransactionInv
    <2>2. PICK p \in Phases \ {"locking"}, pos \in Nat, ver \in Nat :
             session' = [session EXCEPT ![s] = At(session[s], p, pos, ver)]
      BY <2>1 DEF Moves
    <2> DEFINE x == At(session[s], p, pos, ver)
    <2>3. session' = [session EXCEPT ![s] = x] /\ x.request = session[s].request
      BY <2>2 DEF At
    <2>4. UNCHANGED storeVars
      BY <1>4 DEF FindNoReceipt, Survey, AuthorizeActor, LockStreamHead,
         LockProjectionHead, WriteRows
    <2> HIDE DEF x
    <2> QED
      BY <1>1, <2>3, <2>4, SessionStep
  <1>5. ASSUME NEW s \in Sessions, Commit(s)
        PROVE  Log!LogNext \/ UNCHANGED Log!storeVars
    BY <1>5, CommitIsPersist
  <1>6. ASSUME NEW s \in Sessions, Release(s) \/ Decline(s) \/ Rollback(s)
        PROVE  Log!LogNext \/ UNCHANGED Log!storeVars
    BY <1>1, <1>6, SessionStep DEF Release, Decline, Rollback, Close
  <1>7. ASSUME NEW e0 \in Expeditions, NEW u0 \in Users, ChangeActor(e0, u0),
               UNCHANGED session
        PROVE  Log!LogNext \/ UNCHANGED Log!storeVars
    <2>1. UNCHANGED logVars
      BY <1>7 DEF ChangeActor
    <2>2. ASSUME NEW e \in Expeditions, NEW u \in Users, e # e0 \/ u # u0
          PROVE  actorsInOrder'[e][u] = actorsInOrder[e][u]
      <3>1. actor_contexts'[e][u] = actor_contexts[e][u]
        BY <1>7, <2>2 DEF ChangeActor, TransactionInv, LogTypeOK
      <3>2. \A s \in Sessions : Past(s, e, u)' <=> Past(s, e, u)
        BY <1>7 DEF Past
      <3>3. CASE \E s \in Sessions : Past(s, e, u)
        BY <1>7, <3>2, <3>3 DEF ActorsOK
      <3>4. CASE ~\E s \in Sessions : Past(s, e, u)
        BY <3>1, <3>2, <3>4 DEF ActorsOK
      <3> QED
        BY <3>3, <3>4
    <2> QED
      BY <2>1, <2>2, OneActorStep
  <1>8. ASSUME UNCHANGED txVars
        PROVE  Log!LogNext \/ UNCHANGED Log!storeVars
    <2>1. UNCHANGED storeVars /\ UNCHANGED session
      BY <1>8 DEF txVars
    <2>2. actorsInOrder' = actorsInOrder
      BY <2>1 DEF actorsInOrder, Past, storeVars
    <2> QED
      BY <2>1, <2>2 DEF storeVars, logVars, Log!storeVars, Log!logVars
  <1> QED
    BY <1>2, <1>3, <1>4, <1>5, <1>6, <1>7, <1>8 DEF Next, Statement

\* To everyone who reads the tables a call of process_command, by itself or in a
\* wrapper, is one step of the log, however sessions interleave: what CommandLog
\* takes as given.
THEOREM TransactionsAreSteps == Spec => ImplementsLog
  <1>1. Spec => []TransactionInv
    BY InvAlways
  <1>2. TransactionInv => ActorsOK
    BY ActorsInOrder
  <1>3. Init /\ ActorsOK => Log!LogInit
    BY LogInitially
  <1>4. TransactionInv /\ ActorsOK /\ ActorsOK' /\ [Next]_txVars
           => [Log!LogNext]_(Log!storeVars)
    BY TransactionSteps
  <1> QED
    BY <1>1, <1>2, <1>3, <1>4, PTL DEF Spec, ImplementsLog, Log!LogSpec
=============================================================================
