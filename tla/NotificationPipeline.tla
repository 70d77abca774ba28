------------------------ MODULE NotificationPipeline ------------------------
(***************************************************************************)
(* From event logs to delivered notifications: EventLogsService writes one *)
(* row per recipient, and NotificationJobService, a cron handler started   *)
(* every minute whether or not its previous run has ended, turns each      *)
(* active log into one notification per listener and then sends the oldest *)
(* pending notifications.  Every action is the work between two awaits of  *)
(* one run of the handler; nothing is in a transaction.                    *)
(***************************************************************************)
EXTENDS Naturals, Sequences, FiniteSets

CONSTANTS
  Logs,       \* event logs: one per event and recipient
  Listeners,  \* active event listeners of the event, each with its channel
  Outcome,    \* Outcome[l][k]: what rendering l for listener k comes to
  Limit,      \* getPendingNotifications(limit): the size of a batch
  NoLog,
  Jobs,       \* runs of handleNotificationJob that can be under way at once
  MaxNotes,   \* bound: rows of the notifications table
  MaxFaults   \* bound: overlapping runs, failed awaits and crashes of the server

(* "skip": the channel is not supported or the recipient switched it off;  *)
(* "missing": a required template variable has no value.                   *)
Outcomes == {"skip", "missing", "ready"}

ASSUME PipelineAssumption ==
  /\ NoLog \notin Logs
  /\ Outcome \in [Logs -> [Listeners -> Outcomes]]
  /\ Limit \in Nat \ {0}
  /\ MaxNotes \in Nat /\ MaxFaults \in Nat

VARIABLES
  logs,      \* event_logs.status: "absent", "active" (0) or "processed" (1)
  notes,     \* the notifications table, in the order of created_at
  job,       \* the runs of the cron handler
  faults     \* how many runs overlapped another, awaits failed, servers crashed

vars == <<logs, notes, job, faults>>

Statuses == {"pending", "sent", "failed"}

(* attempts: the statuses of the row's notification_logs; delivered: how   *)
(* often the channel took it; tried: a channel was asked, or cannot be.    *)
Note(l, k, status) ==
  [log |-> l, listener |-> k, status |-> status, attempts |-> {},
   delivered |-> 0, tried |-> status = "failed"]

(* The local variables of a run: eventLogs not yet handled, the log at     *)
(* hand, its listeners not yet handled, the pending notifications fetched, *)
(* the notification at hand and the result of dispatcher.send.             *)
Idle == [pc |-> "idle", todo |-> {}, log |-> NoLog, left |-> {},
         batch |-> {}, note |-> 0, result |-> "pending"]

Pending == {n \in DOMAIN notes : notes[n].status = "pending"}

(* Mutant: a batch is the first `limit` places, whether they are taken or not. *)
OldestPlaces(ns) == 1 .. Limit

(* order: createdAt ASC, take: limit *)
Oldest(ns)     == {n \in ns : Cardinality({m \in ns : m < n}) < Limit}
IsFirst(n, ns) == n \in ns /\ \A m \in ns : n <= m

(* The listeners an event log obliges the pipeline to serve. *)
Due == [l \in Logs |-> {k \in Listeners : Outcome[l][k] # "skip"}]

(* The run goes on with one of the event logs ls, or to the notifications;    *)
(* what the loop over listeners skips leaves no trace, so only those due are  *)
(* left to do.                                                                *)
NextLog(ls) ==
  IF ls = {} THEN {[Idle EXCEPT !.pc = "fetch"]}
  ELSE {[Idle EXCEPT !.pc = "listeners", !.todo = ls \ {l}, !.log = l, !.left = Due[l]] :
          l \in ls}

(* The run goes on with the notifications ns, or ends with the last of them. *)
GoOn(ns) == IF ns = {} THEN Idle ELSE [Idle EXCEPT !.pc = "send", !.batch = ns]

At(j, pc) == job[j].pc = pc

Init ==
  /\ logs = [l \in Logs |-> "absent"]
  /\ notes = <<>>
  /\ job = [j \in Jobs |-> Idle]
  /\ faults = 0

-----------------------------------------------------------------------------
(* createEventLogByEventName: one iteration of its loop over recipients;   *)
(* the loop may end after any of them, with the caller's request.          *)
CreateEventLog(l) ==
  /\ logs[l] = "absent"
  /\ logs' = [logs EXCEPT ![l] = "active"]
  /\ UNCHANGED <<notes, job, faults>>

(* The cron job does not wait for its previous run to end. *)
Overlap ==
  IF \A i \in Jobs : At(i, "idle") THEN UNCHANGED faults
  ELSE faults < MaxFaults /\ faults' = faults + 1

(* Mutant: the run reads the logs of every status. *)
TickAll(j) ==
  /\ At(j, "idle")
  /\ \E next \in NextLog({l \in Logs : logs[l] # "absent"}) :
       job' = [job EXCEPT ![j] = next]
  /\ Overlap
  /\ UNCHANGED <<logs, notes>>

(* The cron expression fires; the run reads the logs of status 0. *)
Tick(j) ==
  /\ At(j, "idle")
  /\ \E next \in NextLog({l \in Logs : logs[l] = "active"}) :
       job' = [job EXCEPT ![j] = next]
  /\ Overlap
  /\ UNCHANGED <<logs, notes>>

(* notificationsService.create: no check for a row made by an earlier or   *)
(* an overlapping run.                                                     *)
CreateNotification(j) ==
  /\ At(j, "listeners") /\ Len(notes) < MaxNotes
  /\ \E k \in job[j].left :
       IF Outcome[job[j].log][k] = "missing"
          THEN /\ notes' = Append(notes, Note(job[j].log, k, "failed"))
               /\ job' = [job EXCEPT ![j].left = @ \ {k}, ![j].pc = "explain",
                                     ![j].note = Len(notes) + 1]
          ELSE /\ notes' = Append(notes, Note(job[j].log, k, "pending"))
               /\ job' = [job EXCEPT ![j].left = @ \ {k}]
  /\ UNCHANGED <<logs, faults>>

(* The notification_logs row of a notification that cannot be rendered. *)
ExplainFailure(j) ==
  /\ At(j, "explain")
  /\ notes' = [notes EXCEPT ![job[j].note].attempts = @ \cup {"failed"}]
  /\ job' = [job EXCEPT ![j].pc = "listeners", ![j].note = 0]
  /\ UNCHANGED <<logs, faults>>

(* Mutant: the log is marked inside the loop over its listeners. *)
MarkProcessedInLoop(j) ==
  /\ At(j, "listeners")
  /\ logs' = [logs EXCEPT ![job[j].log] = "processed"]
  /\ \E next \in IF job[j].left = {} THEN NextLog(job[j].todo) ELSE {job[j]} :
       job' = [job EXCEPT ![j] = next]
  /\ UNCHANGED <<notes, faults>>

(* eventLogsService.update(..., status: 1), after the last listener. *)
MarkProcessed(j) ==
  /\ At(j, "listeners") /\ job[j].left = {}
  /\ logs' = [logs EXCEPT ![job[j].log] = "processed"]
  /\ \E next \in NextLog(job[j].todo) : job' = [job EXCEPT ![j] = next]
  /\ UNCHANGED <<notes, faults>>

-----------------------------------------------------------------------------
(* getPendingNotifications, after the last log. *)
FetchPending(j) ==
  /\ At(j, "fetch")
  /\ job' = [job EXCEPT ![j] = GoOn(Oldest(Pending))]
  /\ UNCHANGED <<logs, notes, faults>>

(* dispatcher.send: the outside world answers; every error of a sender is  *)
(* the result "failed".  The row is not read again before it is sent.      *)
Send(j) ==
  /\ At(j, "send")
  /\ \E n \in DOMAIN notes, result \in {"sent", "failed"} :
       /\ IsFirst(n, job[j].batch)
       /\ notes' = [notes EXCEPT ![n].tried = TRUE,
                                 ![n].delivered = IF result = "sent" THEN @ + 1 ELSE @]
       /\ job' = [job EXCEPT ![j].pc = "log", ![j].batch = @ \ {n},
                             ![j].note = n, ![j].result = result]
  /\ UNCHANGED <<logs, faults>>

(* Mutant: the attempt is logged as the row's status before the attempt. *)
LogOldStatus(j) ==
  /\ At(j, "log")
  /\ notes' = [notes EXCEPT ![job[j].note].attempts = @ \cup {notes[job[j].note].status}]
  /\ job' = [job EXCEPT ![j].pc = "status"]
  /\ UNCHANGED <<logs, faults>>

(* notificationLogsService.create *)
LogAttempt(j) ==
  /\ At(j, "log")
  /\ notes' = [notes EXCEPT ![job[j].note].attempts = @ \cup {job[j].result}]
  /\ job' = [job EXCEPT ![j].pc = "status"]
  /\ UNCHANGED <<logs, faults>>

(* notificationsService.updateStatus: an unconditional update *)
UpdateStatus(j) ==
  /\ At(j, "status")
  /\ notes' = [notes EXCEPT ![job[j].note].status = job[j].result]
  /\ job' = [job EXCEPT ![j] = GoOn(job[j].batch)]
  /\ UNCHANGED <<logs, faults>>

-----------------------------------------------------------------------------
Fault ==
  /\ faults < MaxFaults
  /\ faults' = faults + 1
  /\ UNCHANGED <<logs, notes>>

(* Mutant: the loop's catch gives the log up. *)
PrepareFailsForGood(j) ==
  /\ job[j].pc \in {"listeners", "explain"} /\ faults < MaxFaults
  /\ \E next \in NextLog(job[j].todo) : job' = [job EXCEPT ![j] = next]
  /\ logs' = [logs EXCEPT ![job[j].log] = "processed"]
  /\ faults' = faults + 1
  /\ UNCHANGED notes

(* An await rejects while a log is prepared: the loop's catch leaves the   *)
(* log as it is and goes on with the next one.                             *)
PrepareFails(j) ==
  /\ job[j].pc \in {"listeners", "explain"}
  /\ \E next \in NextLog(job[j].todo) : job' = [job EXCEPT ![j] = next]
  /\ Fault

(* An await rejects while a notification is sent: the channel lookup       *)
(* before the send, or one of the two writes after it.                     *)
SendFails(j) ==
  /\ \/ /\ At(j, "send")
        /\ \E n \in DOMAIN notes :
             IsFirst(n, job[j].batch) /\ job' = [job EXCEPT ![j] = GoOn(job[j].batch \ {n})]
     \/ /\ job[j].pc \in {"log", "status"}
        /\ job' = [job EXCEPT ![j] = GoOn(job[j].batch)]
  /\ Fault

(* The server process ends with all its runs. *)
Crash ==
  /\ \E j \in Jobs : ~At(j, "idle")
  /\ job' = [j \in Jobs |-> Idle]
  /\ Fault

Prepare(j) == CreateNotification(j) \/ ExplainFailure(j) \/ MarkProcessed(j)
Deliver(j) == FetchPending(j) \/ Send(j) \/ LogAttempt(j) \/ UpdateStatus(j)
Fails(j)   == PrepareFails(j) \/ SendFails(j)

Next ==
  \/ \E l \in Logs : CreateEventLog(l)
  \/ \E j \in Jobs : Tick(j) \/ Prepare(j) \/ Deliver(j) \/ Fails(j)
  \/ Crash

(* The cron fires for ever and a run goes on until it ends or fails. *)
Fairness == \A j \in Jobs : WF_vars(Tick(j)) /\ WF_vars(Prepare(j) \/ Deliver(j))

Spec     == Init /\ [][Next]_vars
FairSpec == Spec /\ Fairness

-----------------------------------------------------------------------------
Copies(l, k) == {n \in DOMAIN notes : notes[n].log = l /\ notes[n].listener = k}

NoteSet == [log : Logs, listener : Listeners, status : Statuses,
            attempts : SUBSET Statuses, delivered : Nat, tried : BOOLEAN]
JobSet  == [pc : {"idle", "listeners", "explain", "fetch", "send", "log", "status"},
            todo : SUBSET Logs, log : Logs \cup {NoLog}, left : SUBSET Listeners,
            batch : SUBSET (1 .. MaxNotes), note : 0 .. MaxNotes,
            result : Statuses]

(* Type invariant: what a run holds in its local variables exists. *)
TypeOK ==
  /\ logs \in [Logs -> {"absent", "active", "processed"}]
  /\ notes \in Seq(NoteSet) /\ Len(notes) <= MaxNotes
  /\ job \in [Jobs -> JobSet]
  /\ faults \in 0 .. MaxFaults
  /\ \A j \in Jobs :
       /\ job[j].batch \cup ({job[j].note} \ {0}) \subseteq DOMAIN notes
       /\ job[j].pc \in {"listeners", "explain"} => job[j].log \in Logs
       /\ job[j].pc \in {"explain", "log", "status"} => job[j].note # 0

(* handleNotificationJob never comes back to a processed log, so when a log   *)
(* is marked every listener due for it has its notification, whichever runs   *)
(* overlapped and whatever failed while it was prepared.                      *)
ProcessedMeansNoted ==
  \A l \in Logs : logs[l] = "processed" => \A k \in Due[l] : Copies(l, k) # {}

(* A notification reads 'sent' only if its channel took it and the            *)
(* notification_logs row of that attempt says so, although two runs may work  *)
(* on one row and each write may fail.                                        *)
SentIsAudited ==
  \A n \in DOMAIN notes : notes[n].status = "sent" =>
    notes[n].delivered > 0 /\ "sent" \in notes[n].attempts

(* Until two runs overlap or an await fails, a listener gets one notification *)
(* per log and its channel delivers it at most once.                          *)
OnceIfNoFault ==
  faults = 0 =>
    /\ \A l \in Logs, k \in Listeners : Cardinality(Copies(l, k)) <= 1
    /\ \A n \in DOMAIN notes : notes[n].delivered <= 1

(* Delivery is at least once: with overlapping runs, duplicates, batches and  *)
(* failed awaits, no obligation of an event log is forgotten or taken back.   *)
StageOf(l, k) ==
  IF \E n \in Copies(l, k) : notes[n].tried THEN "attempted"
  ELSE IF Copies(l, k) # {} THEN "noted"
  ELSE IF logs[l] # "absent" THEN "owed" ELSE "none"

Delivery == INSTANCE DeliveryContract WITH
  Due   <- Due,
  stage <- [l \in Logs |-> [k \in Due[l] |-> StageOf(l, k)]]

(* The pipeline implements the contract of DeliveryContract, liveness         *)
(* included: what an event log owes is attempted in the end.                  *)
ImplementsDelivery == Delivery!Spec
=============================================================================
