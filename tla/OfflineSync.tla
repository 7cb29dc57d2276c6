------------------------------ MODULE OfflineSync ------------------------------
(***************************************************************************)
(* The Participant app's side of command delivery:                         *)
(* frontend/src/application/offline/OfflineCommandQueue.ts, the            *)
(* synchronizer OfflineCommandSynchronizer.ts and its triggers in App.tsx, *)
(* against a server that decides each command at most once (module         *)
(* ExactlyOnceLedger, which CommandLog implements).                        *)
(*                                                                         *)
(* A tab is one JavaScript runtime.  It runs one cycle at a time, and the  *)
(* cycle gives way at every await: to the user who enqueues, to the        *)
(* network, to the browser's online and offline events, to the end of the  *)
(* page.  The queue lives in IndexedDB, survives the page, and is shared   *)
(* by the tabs of the origin.                                              *)
(***************************************************************************)
EXTENDS Naturals, Sequences, FiniteSets, SequencesExt

CONSTANTS
    Tabs,
    MaxCommands,  \* bound: commands the user ever creates
    Faults        \* what may go wrong in a run, a subset of AllFaults

AllFaults == {"offline", "network", "authentication", "terminal", "conflict",
              "projection", "reload"}

ASSUME FaultsAssumption == MaxCommands \in Nat /\ Faults \subseteq AllFaults

\* Numbered in the order (created_at, local_id) of the queue.
Commands == 1..MaxCommands

Decisions == {"accepted", "rejected"}

Records ==
    [status: {"pending", "synced", "rejected", "conflict"},
     attempted: BOOLEAN,
     receipt: Decisions \union {"conflict", "none"}]

VARIABLES
    queue,     \* the records of IndexedDB, in FIFO order
    tab,       \* where each tab's cycle is, and what it still has to send
    shown,     \* version of the TodayView each tab displays
    online,
    orphans,   \* requests the client has given up and the server may still get
    decision,  \* what the server has decided
    log        \* the commands accepted by the server, in order

vars == <<queue, tab, shown, online, orphans, decision, log>>
clientVars == <<queue, tab, shown, online>>
serverVars == <<decision, log>>

Steps == {"idle", "starting", "next", "sending", "waiting", "answered", "loaded",
          "refetch_and_continue", "refetch_and_stop"}

Answers == Decisions \union {"conflict", "retryable_error", "auth_unavailable",
                             "terminal_error", "none"}

IdleTab == [step |-> "idle", items |-> <<>>, answer |-> "none"]
StartingTab == [IdleTab EXCEPT !.step = "starting"]

TypeOK ==
    /\ queue \in Seq(Records) /\ Len(queue) <= MaxCommands
    /\ \A t \in Tabs :
          /\ tab[t].step \in Steps
          /\ tab[t].items \in Seq(Commands)
          /\ tab[t].answer \in Answers
          /\ tab[t].step \in {"sending", "waiting", "answered", "loaded"}
                => tab[t].items # <<>>
    /\ shown \in [Tabs -> 0..Len(log)]
    /\ online \in BOOLEAN
    /\ orphans \subseteq Commands
    /\ decision \in [Commands -> Decisions \union {"none"}]
    /\ log \in Seq(Commands) /\ IsInjective(log)

Init ==
    /\ queue = <<>>
    /\ tab = [t \in Tabs |-> IdleTab]
    /\ shown = [t \in Tabs |-> 0]
    /\ online = TRUE
    /\ orphans = {}
    /\ decision = [c \in Commands |-> "none"]
    /\ log = <<>>

-----------------------------------------------------------------------------
(***************************************************************************)
(* The server                                                              *)
(***************************************************************************)

\* A decided command is replayed; an undecided one is decided now, or meets a
\* conflict, which leaves no trace.
Processed(c, outcome) ==
    \/ /\ decision[c] # "none"
       /\ outcome = decision[c]
       /\ UNCHANGED serverVars
    \/ /\ decision[c] = "none"
       /\ outcome \in Decisions
       /\ decision' = [decision EXCEPT ![c] = outcome]
       /\ log' = IF outcome = "accepted" THEN Append(log, c) ELSE log
    \/ /\ decision[c] = "none"
       /\ outcome = "conflict" /\ "conflict" \in Faults
       /\ UNCHANGED serverVars

\* A request nobody waits for any more arrives after all.
ServerProcessesOrphan(c) ==
    /\ c \in orphans
    /\ orphans' = orphans \ {c}
    /\ \E outcome \in Decisions \union {"conflict"} : Processed(c, outcome)
    /\ UNCHANGED clientVars

-----------------------------------------------------------------------------
(***************************************************************************)
(* Triggers                                                                *)
(***************************************************************************)

\* sync(): a second caller gets the promise of the cycle that is running.
Triggered(t) == IF tab[t].step = "idle" THEN StartingTab ELSE tab[t]

\* The user acts; the record is stored, then the tab calls sync() if it is online.
Enqueue(t) ==
    /\ Len(queue) < MaxCommands
    /\ queue' = Append(queue, [status |-> "pending", attempted |-> FALSE,
                               receipt |-> "none"])
    /\ tab' = IF online THEN [tab EXCEPT ![t] = Triggered(t)] ELSE tab
    /\ UNCHANGED <<shown, online, orphans, serverVars>>

GoOffline ==
    /\ "offline" \in Faults
    /\ online
    /\ online' = FALSE
    /\ UNCHANGED <<queue, tab, shown, orphans, serverVars>>

GoOnline ==
    /\ ~online
    /\ online' = TRUE
    /\ tab' = [t \in Tabs |-> Triggered(t)]
    /\ UNCHANGED <<queue, shown, orphans, serverVars>>

Current(t) == Head(tab[t].items)

\* The page is closed at any moment and opened again, with a fresh TodayView; what
\* it was waiting for may still reach the server.
Reload(t) ==
    /\ "reload" \in Faults
    /\ orphans' = IF tab[t].step = "waiting" THEN orphans \union {Current(t)}
                                             ELSE orphans
    /\ tab' = [tab EXCEPT ![t] = IF online THEN StartingTab ELSE IdleTab]
    /\ shown' = [shown EXCEPT ![t] = Len(log)]
    /\ UNCHANGED <<queue, online, serverVars>>

-----------------------------------------------------------------------------
(***************************************************************************)
(* One cycle: run()                                                        *)
(***************************************************************************)

Stop(t) == tab' = [tab EXCEPT ![t] = IdleTab]

\* Mutant of Continue: the next record is sent without looking whether there is one.
ContinueUnchecked(t) ==
    tab' = [tab EXCEPT ![t] = [step |-> "sending", items |-> Tail(tab[t].items),
                               answer |-> "none"]]

Continue(t) ==
    tab' = [tab EXCEPT ![t] = [step |-> "next", items |-> Tail(tab[t].items),
                               answer |-> "none"]]

GoTo(t, step) == tab' = [tab EXCEPT ![t].step = step]

Update(c, status, receipt) ==
    queue' = [queue EXCEPT ![c].status = status, ![c].receipt = receipt]

\* The pending records in FIFO order.
PendingItems ==
    LET pending == {c \in DOMAIN queue : queue[c].status = "pending"}
    IN  CHOOSE list \in [1..Cardinality(pending) -> pending] :
           \A m, n \in DOMAIN list : m < n => list[m] < list[n]

\* Mutants of ListQueue: newest first, without the filter, or each record only once.
Listing(t, list) ==
    /\ tab[t].step = "starting"
    /\ IF online
       THEN tab' = [tab EXCEPT ![t] = [step |-> "next", answer |-> "none", items |-> list]]
       ELSE Stop(t)
    /\ UNCHANGED <<queue, shown, online, orphans, serverVars>>

ListNewestFirst(t) ==
    Listing(t, Reverse(PendingItems))

ListEverything(t) == Listing(t, [n \in 1..Len(queue) |-> n])

ListUnattempted(t) ==
    Listing(t, SelectSeq([n \in 1..Len(queue) |-> n],
                         LAMBDA c : queue[c].status = "pending" /\ ~queue[c].attempted))

\* The queue is listed once; records that are not pending then are passed over.
ListQueue(t) ==
    /\ tab[t].step = "starting"
    /\ IF online
       THEN tab' = [tab EXCEPT ![t] =
               [step |-> "next", answer |-> "none", items |-> PendingItems]]
       ELSE Stop(t)
    /\ UNCHANGED <<queue, shown, online, orphans, serverVars>>

RecordAttempt(t) ==
    /\ tab[t].step = "next"
    /\ IF online /\ tab[t].items # <<>>
       THEN /\ queue' = [queue EXCEPT ![Current(t)].attempted = TRUE]
            /\ GoTo(t, "sending")
       ELSE /\ Stop(t)
            /\ UNCHANGED queue
    /\ UNCHANGED <<shown, online, orphans, serverVars>>

Dispatch(t) ==
    /\ tab[t].step = "sending"
    /\ GoTo(t, "waiting")
    /\ UNCHANGED <<queue, shown, online, orphans, serverVars>>

\* There is no session before the request, or the gateway answers 401.
NotAuthenticated(t) ==
    /\ tab[t].step \in {"sending", "waiting"}
    /\ "authentication" \in Faults
    /\ tab' = [tab EXCEPT ![t].step = "answered", ![t].answer = "auth_unavailable"]
    /\ UNCHANGED <<queue, shown, online, orphans, serverVars>>

ServerAnswers(t) ==
    /\ tab[t].step = "waiting"
    /\ \E outcome \in Decisions \union {"conflict"} :
          /\ Processed(Current(t), outcome)
          /\ tab' = [tab EXCEPT ![t].step = "answered", ![t].answer = outcome]
    /\ UNCHANGED <<queue, shown, online, orphans>>

\* A public error that is not retryable: validation, permission, membership.
ServerRefuses(t) ==
    /\ tab[t].step = "waiting"
    /\ "terminal" \in Faults
    /\ tab' = [tab EXCEPT ![t].step = "answered", ![t].answer = "terminal_error"]
    /\ UNCHANGED <<queue, shown, online, orphans, serverVars>>

\* The connection breaks, or a retryable error comes back: the request may not have
\* arrived, may have been processed, or may be processed later.
DeliveryFails(t) ==
    /\ tab[t].step = "waiting"
    /\ "network" \in Faults
    /\ orphans' = orphans \union {Current(t)}
    /\ tab' = [tab EXCEPT ![t].step = "answered", ![t].answer = "retryable_error"]
    /\ UNCHANGED <<queue, shown, online, serverVars>>

\* Mutant of HandleError: the cycle goes on after a retryable error.
HandleErrorAndGoOn(t) ==
    /\ tab[t].step = "answered"
    /\ tab[t].answer \in {"auth_unavailable", "retryable_error", "terminal_error"}
    /\ Update(Current(t), IF tab[t].answer = "terminal_error" THEN "rejected"
                                                              ELSE "pending", "none")
    /\ Continue(t)
    /\ UNCHANGED <<shown, online, orphans, serverVars>>

HandleError(t) ==
    /\ tab[t].step = "answered"
    /\ LET c == Current(t)
       IN  \/ /\ tab[t].answer \in {"auth_unavailable", "retryable_error"}
              /\ queue' = [queue EXCEPT ![c].status = "pending"]
              /\ Stop(t)
           \/ /\ tab[t].answer = "terminal_error"
              /\ Update(c, "rejected", "none")
              /\ Continue(t)
    /\ UNCHANGED <<shown, online, orphans, serverVars>>

\* Mutant of FetchAfterAccepted: a failed fetch is passed over.
FetchIfPossible(t) ==
    /\ tab[t].step = "answered"
    /\ tab[t].answer = "accepted"
    /\ \/ shown' = [shown EXCEPT ![t] = Len(log)]
       \/ "projection" \in Faults /\ UNCHANGED shown
    /\ GoTo(t, "loaded")
    /\ UNCHANGED <<queue, online, orphans, serverVars>>

\* Accepted: the view is fetched first; only then is the command synced.
FetchAfterAccepted(t) ==
    /\ tab[t].step = "answered"
    /\ tab[t].answer = "accepted"
    /\ \/ /\ shown' = [shown EXCEPT ![t] = Len(log)]
          /\ GoTo(t, "loaded")
          /\ UNCHANGED queue
       \/ /\ "projection" \in Faults
          /\ Update(Current(t), "pending", "accepted")
          /\ Stop(t)
          /\ UNCHANGED shown
    /\ UNCHANGED <<online, orphans, serverVars>>

MarkSynced(t) ==
    /\ tab[t].step = "loaded"
    /\ Update(Current(t), "synced", "accepted")
    /\ Continue(t)
    /\ UNCHANGED <<shown, online, orphans, serverVars>>

\* Mutant of MarkRefused: whatever is not accepted counts as rejected.
MarkAnyRefusalRejected(t) ==
    /\ tab[t].step = "answered"
    /\ tab[t].answer \in {"rejected", "conflict"}
    /\ Update(Current(t), "rejected", "rejected")
    /\ GoTo(t, "refetch_and_continue")
    /\ UNCHANGED <<shown, online, orphans, serverVars>>

\* Rejected or conflict: the record is settled first, then the view is fetched.
MarkRefused(t) ==
    /\ tab[t].step = "answered"
    /\ \/ /\ tab[t].answer = "rejected"
          /\ Update(Current(t), "rejected", "rejected")
          /\ GoTo(t, "refetch_and_continue")
       \/ /\ tab[t].answer = "conflict"
          /\ Update(Current(t), "conflict", "conflict")
          /\ GoTo(t, "refetch_and_stop")
    /\ UNCHANGED <<shown, online, orphans, serverVars>>

FetchAfterRefused(t) ==
    /\ tab[t].step \in {"refetch_and_continue", "refetch_and_stop"}
    /\ \/ /\ shown' = [shown EXCEPT ![t] = Len(log)]
          /\ IF tab[t].step = "refetch_and_continue" THEN Continue(t) ELSE Stop(t)
       \/ /\ "projection" \in Faults
          /\ Stop(t)
          /\ UNCHANGED shown
    /\ UNCHANGED <<queue, online, orphans, serverVars>>

Settle(t) ==
    \/ HandleError(t) \/ FetchAfterAccepted(t) \/ MarkSynced(t)
    \/ MarkRefused(t) \/ FetchAfterRefused(t)

Next ==
    \/ \E t \in Tabs :
          \/ Enqueue(t) \/ Reload(t)
          \/ ListQueue(t) \/ RecordAttempt(t) \/ Dispatch(t) \/ NotAuthenticated(t)
          \/ ServerAnswers(t) \/ ServerRefuses(t) \/ DeliveryFails(t)
          \/ Settle(t)
    \/ GoOffline \/ GoOnline
    \/ \E c \in Commands : ServerProcessesOrphan(c)

Spec == Init /\ [][Next]_vars

-----------------------------------------------------------------------------
(***************************************************************************)
(* Safety                                                                  *)
(***************************************************************************)

PositionOf(c) == CHOOSE n \in DOMAIN log : log[n] = c

\* What the queue says is settled is what the server decided: a synced command was
\* accepted, a command rejected with a receipt was rejected, whatever was lost,
\* repeated or cut off in between.
SettledAgreesWithServer ==
    \A c \in DOMAIN queue :
        /\ queue[c].status = "synced" => decision[c] = "accepted"
        /\ queue[c].receipt \in Decisions => queue[c].receipt = decision[c]

\* A synced command no longer shows as pending, so its effect must be in the view:
\* every tab that displays the queue displays a TodayView at least as new as the
\* acceptance.
SyncedCommandsAreVisible ==
    \A t \in Tabs, c \in DOMAIN queue :
        queue[c].status = "synced" => PositionOf(c) <= shown[t]

\* Commands take effect in the order the user gave them: of two synced commands the
\* first one queued was accepted first, across retries, reloads and replays.
SyncedInQueueOrder ==
    \A c, d \in DOMAIN queue :
        c < d /\ queue[c].status = "synced" /\ queue[d].status = "synced"
            => PositionOf(c) < PositionOf(d)

\* A request is sent only when everything queued before it is settled.
NoOvertaking ==
    [][\A t \in Tabs :
          tab[t].step = "sending" /\ tab'[t].step = "waiting" =>
             \A c \in 1..Current(t) - 1 : queue[c].status # "pending"]_vars

\* docs/architecture/offline-command-sync.md: "Automatic retry is allowed only for
\* records still `pending`", terminal states are not silently reset: a settled
\* record never becomes pending again, nor changes to another outcome.
SettledStaysSettled ==
    [][\A c \in DOMAIN queue :
          queue[c].status # "pending" => queue'[c].status = queue[c].status]_vars

-----------------------------------------------------------------------------
(***************************************************************************)
(* Liveness                                                                *)
(***************************************************************************)

\* The JavaScript runtime runs what is ready, and a request that is not lost is
\* answered.
RuntimeFairness ==
    \A t \in Tabs :
        /\ WF_vars(ListQueue(t)) /\ WF_vars(RecordAttempt(t))
        /\ WF_vars(Dispatch(t) \/ NotAuthenticated(t))
        /\ WF_vars(ServerAnswers(t) \/ ServerRefuses(t) \/ DeliveryFails(t))
        /\ WF_vars(Settle(t))

\* Faults do not last: again and again the app is opened while it has nothing to do,
\* the device is online, a token is there, an answer arrives, a view is fetched.
FaultsPass ==
    /\ WF_vars(GoOnline)
    /\ \A t \in Tabs :
          /\ WF_vars(tab[t].step = "idle" /\ Reload(t))
          /\ SF_vars(online /\ ListQueue(t))
          /\ SF_vars(online /\ tab[t].items # <<>> /\ RecordAttempt(t))
          /\ SF_vars(Dispatch(t))
          /\ SF_vars(ServerAnswers(t))
          /\ SF_vars(FetchAfterAccepted(t) /\ shown'[t] = Len(log)
                                           /\ tab'[t].step = "loaded")
          /\ SF_vars(MarkSynced(t))
          /\ SF_vars(MarkRefused(t))

FairSpec == Spec /\ RuntimeFairness
PatientSpec == FairSpec /\ FaultsPass

\* No command is forgotten: each one the user queued is eventually synced, rejected
\* or in conflict.
QueuedCommandsSettle ==
    \A c \in Commands :
        Len(queue) >= c ~> (Len(queue) >= c /\ queue[c].status # "pending")

\* docs/decisions/ADR-016 lists as a trigger of synchronization "an offline command
\* is enqueued online": such a command is eventually sent.
EnqueuedOnlineIsSent ==
    \A c \in Commands :
        (Len(queue) >= c /\ online)
           ~> (Len(queue) >= c /\ (~online \/ queue[c].attempted))
=============================================================================
