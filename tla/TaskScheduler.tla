---------------------------- MODULE TaskScheduler ----------------------------
(***************************************************************************)
(* scheduled_tasks and the BullMQ queue 'task-scheduler'.  A shift is a    *)
(* row with an assignee: scheduleFromShifts inserts it and enqueues a      *)
(* start and an end job, whose ids are the tokens of the row.  A window is *)
(* a row without an assignee: scheduleTaskWindow inserts it, enqueues      *)
(* nothing, and may attach a process of the workflow engine to it.         *)
(*                                                                         *)
(* Every write to a row names it by its id only: the status column has as  *)
(* many writers as there are actors (requests, the worker, the handler of  *)
(* failed jobs, the engine's host adapter), and none of them checks what   *)
(* it overwrites.  Each action is what one actor does between two awaits.  *)
(***************************************************************************)
EXTENDS Naturals, FiniteSets

CONSTANTS
  Shifts,       \* rows scheduleFromShifts inserts
  Windows,      \* rows scheduleTaskWindow inserts
  Workers,      \* workers of the queue, one job at a time each
  NoRow,
  MaxAttempts,  \* attempts: 5
  MaxOps,       \* bound: requests, and calls of the host adapter
  MaxFaults     \* bound: rejected awaits and crashes

Rows  == Shifts \cup Windows
Kinds == {"start", "end"}
JobOf == [row : Shifts, kind : Kinds]
NoJob == [row |-> NoRow, kind |-> "none"]

ASSUME SchedulerAssumption ==
  /\ Shifts \cap Windows = {}
  /\ NoRow \notin Shifts
  /\ MaxAttempts \in Nat \ {0}
  /\ MaxOps \in Nat /\ MaxFaults \in Nat

VARIABLES
  row,       \* scheduled_tasks: status and is_active
  setup,     \* how far scheduleFromShifts has come with a shift
  job,       \* the queue: the state of each job and its failed attempts
  worker,    \* what each worker is doing
  saves,     \* reschedule and cancel requests between findOne and UPDATE
  failing,   \* rows whose 'failed' listener is still to run
  process,   \* the process attached to a window
  ops, faults,
  revived    \* history: rows a stale save has set active again

vars == <<row, setup, job, worker, saves, failing, process, ops, faults, revived>>

(* 'expired' is never written. *)
Statuses == {"scheduled", "queued", "running", "completed", "failed",
             "cancelled", "paused"}
Absent   == [status |-> "absent", active |-> FALSE]
RowSet   == [status : Statuses, active : BOOLEAN]

(* A request that saves an entity, with the columns that differed from the    *)
(* table when save reloaded the row; requests that read alike are one.        *)
SaveSet == [row : Rows, entity : RowSet, pc : {"save", "update"},
            diff : [status : BOOLEAN, active : BOOLEAN]]
Cancelled   == [status |-> "cancelled", active |-> FALSE]
NoDiff      == [status |-> FALSE, active |-> FALSE]
DiffOf(e, t) == [status |-> e.status # t.status, active |-> e.active # t.active]

(* "none": not added, or completed and removed (removeOnComplete); a job that *)
(* has failed for good stays in the queue (removeOnFail: false).              *)
JobSet    == [state : {"none", "waiting", "active", "failed"},
              failures : 0 .. MaxAttempts, stalled : BOOLEAN]
NoTrace   == [state |-> "none", failures |-> 0, stalled |-> FALSE]
JustAdded == [state |-> "waiting", failures |-> 0, stalled |-> FALSE]
WorkerSet == [job : JobOf \cup {NoJob},
              pc : {"idle", "read", "run", "defer", "requeue", "complete", "emit"}]
Idle      == [job |-> NoJob, pc |-> "idle"]

Exists(r) == row[r] # Absent
At(w, pc) == worker[w].pc = pc
Row(w)    == worker[w].job.row
JobAt(w)  == job[worker[w].job]

(* Mutant: a job being worked on is added once more, as the worker intends. *)
AddedAgain(j) == [job EXCEPT ![j] = JustAdded]

(* queue.add: a job id that the queue knows is ignored. *)
Added(j) == IF job[j].state = "none"
            THEN [job EXCEPT ![j] = JustAdded] ELSE job

Job(r, k)       == [row |-> r, kind |-> k]
SetStatus(r, s) == row' = [row EXCEPT ![r].status = s]

Init ==
  /\ row = [r \in Rows |-> Absent]
  /\ setup = [r \in Shifts |-> "none"]
  /\ job = [j \in JobOf |-> NoTrace]
  /\ worker = [w \in Workers |-> Idle]
  /\ saves = {} /\ failing = {}
  /\ process = [r \in Windows |-> "none"]
  /\ ops = 0 /\ faults = 0 /\ revived = {}

-----------------------------------------------------------------------------
(* Requests. *)

CreateActive(r) ==
  /\ ~Exists(r)
  /\ row' = [row EXCEPT ![r] = [status |-> "scheduled", active |-> TRUE]]
  /\ IF r \in Shifts THEN setup' = [setup EXCEPT ![r] = "row"] ELSE UNCHANGED setup
  /\ UNCHANGED <<job, worker, saves, failing, process, ops, faults, revived>>

(* Mutant: the end job is forgotten. *)
EnqueueStart(r, k) ==
  /\ setup[r] = (IF k = "start" THEN "row" ELSE "start")
  /\ setup' = [setup EXCEPT ![r] = k]
  /\ job' = IF k = "start" THEN Added(Job(r, k)) ELSE job
  /\ UNCHANGED <<row, worker, saves, failing, process, ops, faults, revived>>

(* scheduleFromShifts enqueues the start job, then the end job. *)
Enqueue(r, k) ==
  /\ setup[r] = (IF k = "start" THEN "row" ELSE "start")
  /\ setup' = [setup EXCEPT ![r] = k]
  /\ job' = Added(Job(r, k))
  /\ UNCHANGED <<row, worker, saves, failing, process, ops, faults, revived>>

(* markQueued, though a job without delay may have run before. *)
MarkQueued(r) ==
  /\ setup[r] = "end"
  /\ setup' = [setup EXCEPT ![r] = "done"]
  /\ SetStatus(r, "queued")
  /\ UNCHANGED <<job, worker, saves, failing, process, ops, faults, revived>>

Request(r) == Exists(r) /\ ops < MaxOps /\ ops' = ops + 1

(* pauseUntil and resume of ScheduledTasksService: neither touches is_active *)
(* or the queue.                                                             *)
PauseOrResume(r) ==
  /\ Request(r)
  /\ \E s \in {"paused", "scheduled"} : SetStatus(r, s)
  /\ UNCHANGED <<setup, job, worker, saves, failing, process, faults, revived>>

(* findOne of reschedule, which changes times only, and of cancel. *)
FindForSave(r) ==
  /\ Request(r)
  /\ \E e \in {row[r], Cancelled} :
       saves' = saves \cup {[row |-> r, entity |-> e, pc |-> "save", diff |-> NoDiff]}
  /\ UNCHANGED <<row, setup, job, worker, failing, process, faults, revived>>

(* save selects the row once more and compares ... *)
Reload(c) ==
  /\ c \in saves /\ c.pc = "save"
  /\ saves' = (saves \ {c}) \cup
       {[c EXCEPT !.pc = "update", !.diff = DiffOf(c.entity, row[c.row])]}
  /\ UNCHANGED <<row, setup, job, worker, failing, process, ops, faults, revived>>

(* ... and then updates the columns that differed, also those the request did *)
(* not mean to change.                                                        *)
Updated(c) == [status |-> IF c.diff.status THEN c.entity.status ELSE row[c.row].status,
               active |-> IF c.diff.active THEN c.entity.active ELSE row[c.row].active]

Update(c) ==
  /\ c \in saves /\ c.pc = "update"
  /\ saves' = saves \ {c}
  /\ row' = [row EXCEPT ![c.row] = Updated(c)]
  /\ revived' = IF ~row[c.row].active /\ Updated(c).active THEN revived \cup {c.row} ELSE revived
  /\ UNCHANGED <<setup, job, worker, failing, process, ops, faults>>

-----------------------------------------------------------------------------
(* The host adapter, inside the engine's transactions. *)

(* attachProcessIfEnabled of a new window; onProcessStarted links it. *)
AttachProcess(r) ==
  /\ process[r] = "none" /\ Request(r)
  /\ process' = [process EXCEPT ![r] = "active"]
  /\ SetStatus(r, "scheduled")
  /\ UNCHANGED <<setup, job, worker, saves, failing, faults, revived>>

(* mapEngineStateToScheduledTaskStatus *)
EngineStatus == {"scheduled", "queued", "running", "completed", "paused", "cancelled"}

StepStateChanged(r) ==
  /\ process[r] = "active" /\ Request(r)
  /\ \E s \in EngineStatus : SetStatus(r, s)
  /\ UNCHANGED <<setup, job, worker, saves, failing, process, faults, revived>>

ProcessCompleted(r) ==
  /\ process[r] = "active" /\ Request(r)
  /\ process' = [process EXCEPT ![r] = "completed"]
  /\ row' = [row EXCEPT ![r] = [status |-> "completed", active |-> FALSE]]
  /\ UNCHANGED <<setup, job, worker, saves, failing, faults, revived>>

-----------------------------------------------------------------------------
(* The worker. *)

Take(w) ==
  /\ At(w, "idle")
  /\ \E j \in JobOf :
       /\ job[j].state = "waiting"
       /\ job' = [job EXCEPT ![j].state = "active"]
       /\ worker' = [worker EXCEPT ![w] = [job |-> j, pc |-> "read"]]
  /\ UNCHANGED <<row, setup, saves, failing, process, ops, faults, revived>>

(* The handler returns: the job is completed and removed. *)
Finish(w) ==
  /\ worker' = [worker EXCEPT ![w] = Idle]
  /\ job' = [job EXCEPT ![worker[w].job] = NoTrace]

(* Mutant: the handlers trust the token alone. *)
ReadAnyRow(w) ==
  /\ At(w, "read")
  /\ \E pc \in IF worker[w].job.kind = "end" THEN {"complete"} ELSE {"run", "defer"} :
       worker' = [worker EXCEPT ![w].pc = pc]
  /\ UNCHANGED <<row, setup, job, saves, failing, process, ops, faults, revived>>

(* findOne and the checks; the tokens of a row never change.  A start job     *)
(* goes on to run the task or, when the assignee's calendar is closed, to     *)
(* defer it.                                                                  *)
ReadRow(w) ==
  /\ At(w, "read")
  /\ IF ~row[Row(w)].active THEN Finish(w)
     ELSE /\ \E pc \in IF worker[w].job.kind = "end" THEN {"complete"} ELSE {"run", "defer"} :
               worker' = [worker EXCEPT ![w].pc = pc]
          /\ UNCHANGED job
  /\ UNCHANGED <<row, setup, saves, failing, process, ops, faults, revived>>

MarkRunning(w) ==
  /\ At(w, "run")
  /\ SetStatus(Row(w), "running")
  /\ worker' = [worker EXCEPT ![w].pc = "emit"]
  /\ UNCHANGED <<setup, job, saves, failing, process, ops, faults, revived>>

(* Mutant: the row is completed and stays active. *)
MarkCompletedActive(w) ==
  /\ At(w, "complete")
  /\ SetStatus(Row(w), "completed")
  /\ worker' = [worker EXCEPT ![w].pc = "emit"]
  /\ UNCHANGED <<setup, job, saves, failing, process, ops, faults, revived>>

MarkCompleted(w) ==
  /\ At(w, "complete")
  /\ row' = [row EXCEPT ![Row(w)] = [status |-> "completed", active |-> FALSE]]
  /\ worker' = [worker EXCEPT ![w].pc = "emit"]
  /\ UNCHANGED <<setup, job, saves, failing, process, ops, faults, revived>>

PauseForCalendar(w) ==
  /\ At(w, "defer")
  /\ SetStatus(Row(w), "paused")
  /\ worker' = [worker EXCEPT ![w].pc = "requeue"]
  /\ UNCHANGED <<setup, job, saves, failing, process, ops, faults, revived>>

(* queue.add(task.start, jobId: token), while the job of that id is active. *)
Requeue(w) ==
  /\ At(w, "requeue")
  /\ job' = Added(worker[w].job)
  /\ worker' = [worker EXCEPT ![w].pc = "emit"]
  /\ UNCHANGED <<row, setup, saves, failing, process, ops, faults, revived>>

(* The event of the run is written and the handler returns. *)
EmitEvent(w) ==
  /\ At(w, "emit") /\ Finish(w)
  /\ UNCHANGED <<row, setup, saves, failing, process, ops, faults, revived>>

(* The 'failed' listener: whatever has become of the row, and although the    *)
(* job may be tried again.                                                    *)
OnFailed(r) ==
  /\ r \in failing
  /\ failing' = failing \ {r}
  /\ SetStatus(r, "failed")
  /\ UNCHANGED <<setup, job, worker, saves, process, ops, faults, revived>>

-----------------------------------------------------------------------------
(* Faults. *)

Fault == faults < MaxFaults /\ faults' = faults + 1

(* Mutant: a failed job is removed from the queue. *)
AttemptFailsRemoved(w) ==
  /\ Fault /\ ~At(w, "idle")
  /\ job' = [job EXCEPT ![worker[w].job] = NoTrace]
  /\ failing' = failing \cup {Row(w)}
  /\ worker' = [worker EXCEPT ![w] = Idle]
  /\ UNCHANGED <<row, setup, saves, process, ops, revived>>

(* An await of a handler rejects: the attempt has failed. *)
AttemptFails(w) ==
  /\ Fault /\ ~At(w, "idle")
  /\ job' = [job EXCEPT ![worker[w].job].failures = @ + 1,
                        ![worker[w].job].state =
                           IF JobAt(w).failures + 1 < MaxAttempts THEN "waiting" ELSE "failed"]
  /\ failing' = failing \cup {Row(w)}
  /\ worker' = [worker EXCEPT ![w] = Idle]
  /\ UNCHANGED <<row, setup, saves, process, ops, revived>>

(* An await of scheduleFromShifts rejects: the shift is left as it is. *)
RequestFails(r) ==
  /\ Fault /\ setup[r] \in {"row", "start", "end"}
  /\ setup' = [setup EXCEPT ![r] = "left"]
  /\ UNCHANGED <<row, job, worker, saves, failing, process, ops, revived>>

(* The server dies.  Its active jobs stall: the queue hands a job out again   *)
(* once and fails it when it stalls a second time (maxStalledCount: 1).       *)
Crash ==
  /\ Fault
  /\ setup' = [r \in Shifts |->
                 IF setup[r] \in {"row", "start", "end"} THEN "left" ELSE setup[r]]
  /\ job' = [j \in JobOf |->
               IF job[j].state # "active" THEN job[j]
               ELSE [job[j] EXCEPT !.stalled = TRUE,
                                   !.state = IF job[j].stalled
                                             THEN "failed" ELSE "waiting"]]
  /\ failing' = {j.row : j \in {i \in JobOf : job[i].state = "active" /\ job[i].stalled}}
  /\ worker' = [w \in Workers |-> Idle]
  /\ saves' = {}
  /\ UNCHANGED <<row, process, ops, revived>>

-----------------------------------------------------------------------------
Handle(w) ==
  \/ Take(w) \/ ReadRow(w) \/ MarkRunning(w) \/ MarkCompleted(w)
  \/ PauseForCalendar(w) \/ Requeue(w) \/ EmitEvent(w)

Next ==
  \/ \E r \in Rows :
       \/ CreateActive(r) \/ PauseOrResume(r) \/ OnFailed(r) \/ FindForSave(r)
  \/ \E r \in Shifts :
       MarkQueued(r) \/ RequestFails(r) \/ \E k \in Kinds : Enqueue(r, k)
  \/ \E c \in saves : Reload(c) \/ Update(c)
  \/ \E r \in Windows : AttachProcess(r) \/ StepStateChanged(r) \/ ProcessCompleted(r)
  \/ \E w \in Workers : Handle(w) \/ AttemptFails(w)
  \/ Crash

(* Workers take the jobs that are due, for a delay ends; an awaited call      *)
(* returns.  Users, processes and faults owe nothing.                         *)
Fairness ==
  /\ \A w \in Workers : WF_vars(Handle(w))
  /\ WF_vars(\E r \in Shifts : MarkQueued(r) \/ \E k \in Kinds : Enqueue(r, k))

Spec     == Init /\ [][Next]_vars
FairSpec == Spec /\ Fairness

-----------------------------------------------------------------------------
(* Type invariant, with the queue's lock: an active job has one worker. *)
TypeOK ==
  /\ row \in [Rows -> RowSet \cup {Absent}]
  /\ setup \in [Shifts -> {"none", "row", "start", "end", "done", "left"}]
  /\ job \in [JobOf -> JobSet]
  /\ worker \in [Workers -> WorkerSet]
  /\ saves \subseteq SaveSet
  /\ failing \subseteq Rows
  /\ process \in [Windows -> {"none", "active", "completed"}]
  /\ ops \in 0 .. MaxOps /\ faults \in 0 .. MaxFaults
  /\ revived \subseteq Rows
  /\ \A j \in JobOf :
       (job[j].state = "active") <=> (\E w \in Workers : worker[w].job = j)
  /\ \A v, w \in Workers : worker[v].job = worker[w].job /\ ~At(v, "idle") => v = w

(* An active shift whose jobs have been enqueued still has its end job to     *)
(* come, or that job has failed for good: no cancellation, retry, stall or    *)
(* early run of it uses the job up and leaves the shift active.  Excepted is  *)
(* a shift that a stale reschedule has set active again.                      *)
EndJobNotWasted ==
  \A r \in Shifts :
    setup[r] = "done" /\ row[r].active /\ r \notin revived =>
      job[Job(r, "end")].state # "none"

(* A shift that reads completed is inactive, so that it neither blocks its    *)
(* assignee's calendar nor runs again, unless a stale reschedule has set it   *)
(* active: one that found it active, then reloaded it while a cancellation    *)
(* had it inactive, writes is_active alone, and whoever writes the status     *)
(* meanwhile leaves a row that no single writer has written.                  *)
CompletedIsInactive ==
  \A r \in Shifts :
    row[r].status = "completed" /\ row[r].active => r \in revived

(* Inactive, with no request or handler under way that has seen it active and *)
(* will act on it.                                                            *)
Settled(r) ==
  /\ Exists(r) /\ ~row[r].active
  /\ \A c \in saves : c.row = r /\ c.entity.active => c.pc = "update" /\ ~c.diff.active
  /\ \A w \in Workers : Row(w) = r =>
       ~(worker[w].pc \in {"run", "defer", "complete"})

(* A cancelled or completed row stays so: once everybody who saw it active is *)
(* done with it, it is never active again and no worker starts it.            *)
SettledStaysSettled == [][\A r \in Rows : Settled(r) => Settled(r)']_vars

(* A shift whose jobs have been enqueued is settled in the end, unless its    *)
(* end job fails for good or a stale save revives it.                         *)
EndJobSettles ==
  \A r \in Shifts :
    setup[r] = "done" ~> \/ ~row[r].active
                         \/ job[Job(r, "end")].state = "failed"
                         \/ r \in revived

(* task.processor.ts:28 "If calendar is closed at run time, defers the job to *)
(* the next valid slot": an active shift that was paused for its calendar has *)
(* its start job in the queue once the worker that deferred it is done.  The  *)
(* worker adds the job under its own id while it is active, which the queue   *)
(* ignores.  (Without requests and faults only the calendar pauses a shift.)  *)
DeferredStartIsQueued ==
  \A r \in Shifts :
    row[r] = [status |-> "paused", active |-> TRUE] =>
      job[Job(r, "start")].state \in {"waiting", "active"}
=============================================================================
