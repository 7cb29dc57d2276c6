----------------------------- MODULE OfflineQueue -----------------------------
(***************************************************************************)
(* The storage behind the offline command queue of the Participant's app:  *)
(* IndexedDbCommandQueue and MemoryCommandQueue of frontend/src/           *)
(* application/offline/OfflineCommandQueue.ts.  Module OfflineSync takes   *)
(* the queue for one reliable list; here each call may fail in IndexedDB,  *)
(* and falls back, on its own, to a second queue in the memory of the      *)
(* page.                                                                   *)
(*                                                                         *)
(* The synchronizer that uses the queue is reduced to a cycle that lists,  *)
(* delivers and updates; the server accepts whatever it is sent.           *)
(***************************************************************************)
EXTENDS Naturals, Sequences, SequencesExt

CONSTANTS
    MaxCommands,  \* bound: commands the user enqueues
    MaxFaults,    \* bound: calls of IndexedDB that fail
    MaxClock,     \* bound: readings of the device clock
    MaxPages,     \* bound: times the app is opened
    Absent

Commands == 1..MaxCommands

VARIABLES
    disk,     \* the object store of IndexedDB, by command
    memory,   \* the fallback queue of the page
    clock,    \* the device clock
    faults,   \* calls that have failed so far
    queued,   \* commands the page has reported as queued
    items,    \* what the running cycle still has to deliver
    sent,     \* commands the server has received
    page      \* which opening of the app this is

vars == <<disk, memory, clock, faults, queued, items, sent, page>>

Records == [created_at: 1..MaxClock, status: {"pending", "synced"}]

TypeOK ==
    /\ disk \in [Commands -> Records \union {Absent}]
    /\ memory \in [Commands -> Records \union {Absent}]
    /\ clock \in 1..MaxClock /\ faults \in 0..MaxFaults /\ page \in 1..MaxPages
    /\ queued \subseteq Commands /\ sent \subseteq Commands
    /\ items \in Seq(Commands)

Empty == [c \in Commands |-> Absent]

Init ==
    /\ disk = Empty /\ memory = Empty
    /\ clock = 1 /\ faults = 0 /\ page = 1
    /\ queued = {} /\ sent = {}
    /\ items = <<>>

-----------------------------------------------------------------------------
(***************************************************************************)
(* The two queues.  withFallback decides for each call which one it        *)
(* reaches: a failure closes nothing, and the next call tries IndexedDB    *)
(* again.                                                                  *)
(***************************************************************************)
Works == UNCHANGED faults

Fails == faults < MaxFaults /\ faults' = faults + 1

NewRecord == [created_at |-> clock, status |-> "pending"]

\* Idempotent: a command that is there already keeps its record.
Enqueued(store, c) == IF store[c] = Absent THEN [store EXCEPT ![c] = NewRecord] ELSE store

\* A record that is not there is not updated, and nobody is told.
MarkedSynced(store, c) ==
    IF store[c] = Absent THEN store ELSE [store EXCEPT ![c].status = "synced"]

Before(store, c, d) ==
    \/ store[c].created_at < store[d].created_at
    \/ store[c].created_at = store[d].created_at /\ c < d

\* The pending records in FIFO order.
Pending(store) ==
    SetToSortSeq({c \in Commands : store[c] # Absent /\ store[c].status = "pending"},
                 LAMBDA c, d : Before(store, c, d))

Enqueue(c) ==
    /\ c \notin queued
    /\ \/ Works /\ disk' = Enqueued(disk, c) /\ UNCHANGED memory
       \/ Fails /\ memory' = Enqueued(memory, c) /\ UNCHANGED disk
    /\ queued' = queued \union {c}
    /\ UNCHANGED <<clock, items, sent, page>>

List ==
    /\ items = <<>>
    /\ \/ Works /\ items' = Pending(disk)
       \/ Fails /\ items' = Pending(memory)
    /\ UNCHANGED <<disk, memory, clock, queued, sent, page>>

Deliver ==
    /\ items # <<>>
    /\ Head(items) \notin sent
    /\ sent' = sent \union {Head(items)}
    /\ UNCHANGED <<disk, memory, clock, faults, queued, items, page>>

Settle ==
    /\ items # <<>>
    /\ Head(items) \in sent
    /\ \/ Works /\ disk' = MarkedSynced(disk, Head(items)) /\ UNCHANGED memory
       \/ Fails /\ memory' = MarkedSynced(memory, Head(items)) /\ UNCHANGED disk
    /\ items' = Tail(items)
    /\ UNCHANGED <<clock, queued, sent, page>>

\* The app is closed and opened: what was in memory is gone.
Reopen ==
    /\ page < MaxPages
    /\ page' = page + 1
    /\ memory' = Empty
    /\ items' = <<>>
    /\ UNCHANGED <<disk, clock, faults, queued, sent>>

\* The device clock moves, also backwards.
SetClock(time) ==
    /\ clock' = time
    /\ UNCHANGED <<disk, memory, faults, queued, items, sent, page>>

Next ==
    \/ \E c \in Commands : Enqueue(c)
    \/ List \/ Deliver \/ Settle \/ Reopen
    \/ \E time \in 1..MaxClock : SetClock(time)

Spec == Init /\ [][Next]_vars

-----------------------------------------------------------------------------
(***************************************************************************)
(* The app lists again and again, delivers what it has listed, and storage *)
(* fails only finitely often.                                              *)
(***************************************************************************)
FairSpec == Spec /\ WF_vars(List) /\ WF_vars(Deliver) /\ WF_vars(Settle)

\* README.md:73 "IndexedDB is the primary offline command queue with idempotent
\* enqueue and in-memory fallback": while the page stays open, a command it has
\* reported as queued is delivered, from IndexedDB or from the fallback.
QueuedIsDelivered ==
    \A c \in Commands, n \in 1..MaxPages :
        (c \in queued /\ page = n) ~> (c \in sent \/ page # n)
=============================================================================
