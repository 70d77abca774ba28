------------------------ MODULE TaskSchedulerProofs ------------------------
(***************************************************************************)
(* Proofs about TaskScheduler for any shifts, windows and workers, and any *)
(* number of attempts, requests and faults.  The queue's lock (an active   *)
(* job has exactly one worker) carries the rest: an end job leaves the     *)
(* queue only through a worker that found its shift inactive or has made   *)
(* it so.                                                                  *)
(***************************************************************************)
EXTENDS TaskScheduler, TLAPS

(* A worker is idle exactly when it holds no job.                          *)
WorkersHoldJobs == \A w \in Workers : At(w, "idle") <=> worker[w].job = NoJob

(* A job that can still be worked on has an attempt left.                  *)
RetriesLeft ==
  \A j \in JobOf : job[j].state \in {"waiting", "active"} => job[j].failures < MaxAttempts

QueueInv == TypeOK /\ WorkersHoldJobs /\ RetriesLeft

(* A shift that is being set up, and a job in the queue, have a row.       *)
RowsAreThere ==
  /\ \A r \in Shifts : setup[r] # "none" => Exists(r)
  /\ \A j \in JobOf : job[j].state # "none" => Exists(j.row)

(* Each handler works on jobs of its own kind.                             *)
HandlersKeepKind ==
  \A w \in Workers :
    /\ worker[w].pc \in {"run", "defer", "requeue"} => worker[w].job.kind = "start"
    /\ At(w, "complete") => worker[w].job.kind = "end"

(* When the handler of an end job has written, its shift is inactive.      *)
EndHandlerSettles ==
  \A w \in Workers :
    At(w, "emit") /\ worker[w].job.kind = "end" =>
      ~row[Row(w)].active \/ Row(w) \in revived

(* EndJobNotWasted, from the moment the end job is enqueued.               *)
EndJobKept ==
  \A r \in Shifts :
    setup[r] \in {"end", "done"} /\ row[r].active /\ r \notin revived =>
      job[Job(r, "end")].state # "none"

(* A request works on a row that is there.                                 *)
SavesHaveRows == \A c \in saves : Exists(c.row)

(* A shift that is inactive, or was at a time and has been revived since.  *)
Over(r) == ~row[r].active \/ r \in revived

(* A shift that a request has read as completed is over.                   *)
CompletedWhenRead ==
  \A c \in saves : c.row \in Shifts /\ c.entity.status = "completed" => Over(c.row)

SchedulerInv ==
  /\ QueueInv
  /\ RowsAreThere
  /\ HandlersKeepKind
  /\ EndHandlerSettles
  /\ EndJobKept
  /\ CompletedIsInactive
  /\ SavesHaveRows
  /\ CompletedWhenRead

-----------------------------------------------------------------------------
(* Facts about the types.                                                  *)

(* A job is never the placeholder of an idle worker.                       *)
LEMMA NoJobIsNone == NoJob \notin JobOf
BY SchedulerAssumption DEF NoJob, JobOf, Kinds

(* What SetStatus writes is a row, and keeps is_active.                    *)
LEMMA SetStatusType ==
  ASSUME row \in [Rows -> RowSet \cup {Absent}], NEW r, NEW s \in Statuses, SetStatus(r, s)
  PROVE  /\ row' \in [Rows -> RowSet \cup {Absent}]
         /\ \A q \in Rows : row'[q].active = row[q].active
         /\ \A q \in Rows : row'[q] = row[q] \/ (q = r /\ row'[q].status = s)
         /\ \A q \in Rows : row[q] # Absent => row'[q] # Absent
<1>1. \A q \in Rows : row'[q] = IF q = r THEN [row[q] EXCEPT !.status = s] ELSE row[q]
  BY DEF SetStatus
<1>2. \A q \in Rows : row[q] \in RowSet \cup {Absent}
  OBVIOUS
<1>3. \A q \in Rows :
        /\ [row[q] EXCEPT !.status = s] \in RowSet
        /\ [row[q] EXCEPT !.status = s].active = row[q].active
        /\ [row[q] EXCEPT !.status = s].status = s
  <2> SUFFICES ASSUME NEW q \in Rows
               PROVE  /\ [row[q] EXCEPT !.status = s] \in RowSet
                      /\ [row[q] EXCEPT !.status = s].active = row[q].active
                      /\ [row[q] EXCEPT !.status = s].status = s
    OBVIOUS
  <2>1. Absent \in [status : Statuses \cup {"absent"}, active : BOOLEAN]
    BY DEF Absent
  <2>2. row[q] \in [status : Statuses \cup {"absent"}, active : BOOLEAN]
    BY <1>2, <2>1 DEF RowSet
  <2> QED
    BY <2>2 DEF RowSet
<1>4. row' = [q \in Rows |-> row'[q]]
  BY DEF SetStatus
<1>5. Absent \notin RowSet
  BY DEF Absent, RowSet, Statuses
<1>6. \A q \in Rows : row'[q] \in RowSet \cup {Absent}
  BY <1>1, <1>2, <1>3
<1>7. row' \in [Rows -> RowSet \cup {Absent}]
  BY <1>4, <1>6
<1> QED
  BY <1>1, <1>3, <1>5, <1>7

(* What a save writes into a row that is there is a row.                   *)
LEMMA UpdatedType ==
  ASSUME row \in [Rows -> RowSet \cup {Absent}], NEW c \in SaveSet, Exists(c.row)
  PROVE  /\ Updated(c) \in RowSet
         /\ Updated(c).active => row[c.row].active \/ (c.diff.active /\ c.entity.active)
         /\ Updated(c).status \in {c.entity.status, row[c.row].status}
BY DEF SaveSet, Exists, Updated, RowSet

(* A busy worker holds a job that is active.                               *)
LEMMA BusyWorker ==
  ASSUME QueueInv, NEW w \in Workers, ~At(w, "idle")
  PROVE  /\ worker[w].job \in JobOf
         /\ Row(w) \in Shifts
         /\ JobAt(w).state = "active"
         /\ JobAt(w).failures \in Nat /\ JobAt(w).failures < MaxAttempts
         /\ \A v \in Workers : worker[v].job = worker[w].job => v = w
<1>1. worker[w].job \in JobOf
  BY NoJobIsNone DEF QueueInv, TypeOK, WorkersHoldJobs, WorkerSet
<1>2. Row(w) \in Shifts
  BY <1>1 DEF JobOf, Row
<1>3. JobAt(w).state = "active"
  BY <1>1 DEF QueueInv, TypeOK, JobAt
<1>4. JobAt(w).failures \in Nat /\ JobAt(w).failures < MaxAttempts
  BY <1>1, <1>3 DEF QueueInv, TypeOK, RetriesLeft, JobAt, JobSet
<1>5. \A v \in Workers : worker[v].job = worker[w].job => v = w
  BY DEF QueueInv, TypeOK
<1> QED
  BY <1>1, <1>2, <1>3, <1>4, <1>5

-----------------------------------------------------------------------------
(* The queue.                                                              *)

(* Writing to the rows leaves the queue's invariant alone.                 *)
LEMMA QueueKept ==
  ASSUME QueueInv, UNCHANGED <<job, worker>>,
         row' \in [Rows -> RowSet \cup {Absent}],
         setup' \in [Shifts -> {"none", "row", "start", "end", "done", "left"}],
         saves' \subseteq SaveSet, failing' \subseteq Rows,
         process' \in [Windows -> {"none", "active", "completed"}],
         ops' \in 0 .. MaxOps, faults' \in 0 .. MaxFaults, revived' \subseteq Rows
  PROVE  QueueInv'
BY DEF QueueInv, TypeOK, WorkersHoldJobs, RetriesLeft, At

LEMMA InitQueue == Init => QueueInv
<1> SUFFICES ASSUME Init PROVE QueueInv
  OBVIOUS
<1>1. TypeOK
  BY SchedulerAssumption, NoJobIsNone
  DEF Init, TypeOK, RowSet, Absent, JobSet, NoTrace, WorkerSet, Idle, SaveSet, Rows, At
<1>2. WorkersHoldJobs /\ RetriesLeft
  BY DEF Init, WorkersHoldJobs, RetriesLeft, At, Idle, NoTrace
<1> QED
  BY <1>1, <1>2 DEF QueueInv

(* A worker that takes up, moves on with or lets go of a job.              *)
LEMMA TakeKeepsQueue ==
  ASSUME QueueInv, NEW w \in Workers, Take(w)
  PROVE  QueueInv'
<1>1. PICK j \in JobOf :
        /\ job[j].state = "waiting"
        /\ job' = [job EXCEPT ![j].state = "active"]
        /\ worker' = [worker EXCEPT ![w] = [job |-> j, pc |-> "read"]]
  BY DEF Take
<1>2. worker[w].job = NoJob /\ j # NoJob
  BY NoJobIsNone DEF Take, QueueInv, WorkersHoldJobs
<1>3. \A v \in Workers : worker[v].job # j
  BY <1>1 DEF QueueInv, TypeOK
<1>4. \A i \in JobOf : /\ i # j => job'[i] = job[i]
                       /\ job'[i].state = IF i = j THEN "active" ELSE job[i].state
                       /\ job'[i].failures = job[i].failures
  BY <1>1 DEF QueueInv, TypeOK, JobSet
<1>5. \A v \in Workers : worker'[v] = IF v = w THEN [job |-> j, pc |-> "read"] ELSE worker[v]
  BY <1>1 DEF QueueInv, TypeOK
<1>6. job' \in [JobOf -> JobSet]
  BY <1>1 DEF QueueInv, TypeOK, JobSet
<1>7. worker' \in [Workers -> WorkerSet]
  BY <1>1 DEF QueueInv, TypeOK, WorkerSet
<1>8. \A i \in JobOf : (job'[i].state = "active") <=> (\E v \in Workers : worker'[v].job = i)
  BY <1>1, <1>2, <1>3, <1>4, <1>5, NoJobIsNone DEF QueueInv, TypeOK
<1>9. \A u, v \in Workers : worker'[u].job = worker'[v].job /\ worker'[u].pc # "idle" => u = v
  BY <1>3, <1>5 DEF QueueInv, TypeOK, At
<1>10. TypeOK'
  BY <1>6, <1>7, <1>8, <1>9 DEF QueueInv, TypeOK, At, Take
<1>11. WorkersHoldJobs'
  BY <1>2, <1>5 DEF QueueInv, WorkersHoldJobs, At
<1>12. RetriesLeft'
  BY <1>1, <1>4 DEF QueueInv, RetriesLeft
<1> QED
  BY <1>10, <1>11, <1>12 DEF QueueInv

LEMMA GoOnKeepsQueue ==
  ASSUME QueueInv, NEW w \in Workers, ~At(w, "idle"), UNCHANGED job,
         NEW pc \in {"read", "run", "defer", "requeue", "complete", "emit"},
         worker' = [worker EXCEPT ![w].pc = pc],
         row' \in [Rows -> RowSet \cup {Absent}],
         UNCHANGED <<setup, saves, failing, process, ops, faults, revived>>
  PROVE  QueueInv'
<1>1. \A v \in Workers : /\ worker'[v].job = worker[v].job
                         /\ worker'[v].pc = IF v = w THEN pc ELSE worker[v].pc
  BY DEF QueueInv, TypeOK, WorkerSet
<1>2. worker' \in [Workers -> WorkerSet]
  BY DEF QueueInv, TypeOK, WorkerSet
<1>3. TypeOK'
  BY <1>1, <1>2 DEF QueueInv, TypeOK, At
<1>4. WorkersHoldJobs' /\ RetriesLeft'
  BY <1>1 DEF QueueInv, WorkersHoldJobs, RetriesLeft, At
<1> QED
  BY <1>3, <1>4 DEF QueueInv

LEMMA LetGoKeepsQueue ==
  ASSUME QueueInv, NEW w \in Workers, ~At(w, "idle"),
         NEW trace \in JobSet, trace.state # "active",
         trace.state = "waiting" => trace.failures < MaxAttempts,
         worker' = [worker EXCEPT ![w] = Idle],
         job' = [job EXCEPT ![worker[w].job] = trace],
         failing' \subseteq Rows, faults' \in 0 .. MaxFaults,
         UNCHANGED <<row, setup, saves, process, ops, revived>>
  PROVE  QueueInv'
<1> DEFINE j == worker[w].job
<1>1. j \in JobOf /\ \A v \in Workers : worker[v].job = j => v = w
  BY BusyWorker
<1>2. \A i \in JobOf : job'[i] = IF i = j THEN trace ELSE job[i]
  BY DEF QueueInv, TypeOK
<1>3. \A v \in Workers : worker'[v] = IF v = w THEN Idle ELSE worker[v]
  BY DEF QueueInv, TypeOK
<1>4. job' \in [JobOf -> JobSet]
  BY DEF QueueInv, TypeOK
<1>5. worker' \in [Workers -> WorkerSet]
  BY DEF QueueInv, TypeOK, WorkerSet, Idle
<1>6. \A i \in JobOf : (job'[i].state = "active") <=> (\E v \in Workers : worker'[v].job = i)
  BY <1>1, <1>2, <1>3, NoJobIsNone DEF QueueInv, TypeOK, Idle
<1>7. \A u, v \in Workers : worker'[u].job = worker'[v].job /\ worker'[u].pc # "idle" => u = v
  <2> SUFFICES ASSUME NEW u \in Workers, NEW v \in Workers,
                      worker'[u].job = worker'[v].job, worker'[u].pc # "idle"
               PROVE  u = v
    OBVIOUS
  <2>1. u # w /\ worker'[u] = worker[u]
    BY <1>3 DEF Idle
  <2>2. worker[u].job # NoJob
    BY <2>1 DEF QueueInv, WorkersHoldJobs, At
  <2>3. v # w
    BY <1>3, <2>1, <2>2 DEF Idle
  <2> QED
    BY <1>3, <2>1, <2>3 DEF QueueInv, TypeOK, At
<1>8. TypeOK'
  BY <1>4, <1>5, <1>6, <1>7 DEF QueueInv, TypeOK, At
<1>9. WorkersHoldJobs'
  BY <1>3 DEF QueueInv, WorkersHoldJobs, At, Idle
<1>10. RetriesLeft'
  BY <1>2 DEF QueueInv, RetriesLeft
<1> QED
  BY <1>8, <1>9, <1>10 DEF QueueInv

(* An attempt that fails has one attempt less left.                        *)
LEMMA AttemptFailsKeepsQueue ==
  ASSUME QueueInv, NEW w \in Workers, AttemptFails(w)
  PROVE  QueueInv'
<1> DEFINE j     == worker[w].job
           left  == job[j].failures + 1 < MaxAttempts
           trace == [state    |-> IF left THEN "waiting" ELSE "failed",
                     failures |-> job[j].failures + 1,
                     stalled  |-> job[j].stalled]
<1>1. /\ j \in JobOf /\ Row(w) \in Shifts
      /\ job[j].failures \in Nat /\ job[j].failures < MaxAttempts
  BY BusyWorker DEF AttemptFails, JobAt
<1>2. job[j] \in JobSet
  BY <1>1 DEF QueueInv, TypeOK
<1>3. trace \in JobSet /\ trace.state # "active"
  BY <1>1, <1>2, SchedulerAssumption DEF JobSet
<1>4. trace.state = "waiting" => trace.failures < MaxAttempts
  OBVIOUS
<1>5. job' = [job EXCEPT ![j] = trace]
  BY <1>1, <1>2 DEF AttemptFails, JobAt, JobSet, QueueInv, TypeOK
<1>6. failing' \subseteq Rows
  BY <1>1 DEF AttemptFails, QueueInv, TypeOK, Rows
<1>7. faults' \in 0 .. MaxFaults
  BY SchedulerAssumption DEF AttemptFails, Fault, QueueInv, TypeOK
<1> HIDE DEF trace
<1> QED
  BY <1>3, <1>4, <1>5, <1>6, <1>7, LetGoKeepsQueue DEF AttemptFails

(* The worker that adds the job it is working on adds nothing.             *)
LEMMA RequeueIsIgnored ==
  ASSUME QueueInv, NEW w \in Workers, Requeue(w)
  PROVE  job' = job
BY BusyWorker DEF Requeue, Added, At, JobAt

LEMMA EnqueueKeepsQueue ==
  ASSUME QueueInv, NEW r \in Shifts, NEW k \in Kinds, Enqueue(r, k)
  PROVE  QueueInv'
<1> DEFINE j == Job(r, k)
<1>1. j \in JobOf
  BY DEF Job, JobOf
<1>2. setup' \in [Shifts -> {"none", "row", "start", "end", "done", "left"}]
  BY DEF Enqueue, QueueInv, TypeOK, Kinds
<1>3. CASE job[j].state # "none"
  BY <1>2, <1>3, QueueKept DEF Enqueue, Added, QueueInv, TypeOK
<1>4. CASE job[j].state = "none"
  <2> DEFINE trace == JustAdded
  <2>1. trace \in JobSet /\ trace.state = "waiting" /\ trace.failures = 0
    BY SchedulerAssumption DEF JobSet, JustAdded
  <2>2. job' = [job EXCEPT ![j] = trace]
    BY <1>4 DEF Enqueue, Added
  <2> HIDE DEF trace
  <2>3. \A i \in JobOf : job'[i] = IF i = j THEN trace ELSE job[i]
    BY <2>2 DEF QueueInv, TypeOK
  <2>4. job' \in [JobOf -> JobSet]
    BY <2>1, <2>2 DEF QueueInv, TypeOK
  <2>5. \A i \in JobOf : (job'[i].state = "active") <=> (job[i].state = "active")
    BY <1>4, <2>1, <2>3
  <2>6. TypeOK'
    BY <1>2, <2>4, <2>5 DEF QueueInv, TypeOK, Enqueue, At
  <2>7. RetriesLeft'
    BY <2>1, <2>3, SchedulerAssumption DEF QueueInv, RetriesLeft
  <2>8. WorkersHoldJobs'
    BY DEF QueueInv, WorkersHoldJobs, At, Enqueue
  <2> QED
    BY <2>6, <2>7, <2>8 DEF QueueInv
<1> QED
  BY <1>3, <1>4

(* A crash frees every worker and hands every active job back or fails it. *)
LEMMA CrashKeepsQueue ==
  ASSUME QueueInv, Crash
  PROVE  QueueInv'
<1>1. \A j \in JobOf :
        /\ job'[j] \in JobSet
        /\ job'[j].state # "active"
        /\ job'[j].failures = job[j].failures
        /\ job'[j].state = "waiting" => job[j].state \in {"waiting", "active"}
  <2> SUFFICES ASSUME NEW j \in JobOf
               PROVE  /\ job'[j] \in JobSet
                      /\ job'[j].state # "active"
                      /\ job'[j].failures = job[j].failures
                      /\ job'[j].state = "waiting" => job[j].state \in {"waiting", "active"}
    OBVIOUS
  <2>1. job[j] \in JobSet
    BY DEF QueueInv, TypeOK
  <2>2. CASE job[j].state # "active"
    BY <2>1, <2>2 DEF Crash
  <2>3. CASE job[j].state = "active" /\ job[j].stalled
    BY <2>1, <2>3 DEF Crash, JobSet
  <2>4. CASE job[j].state = "active" /\ ~job[j].stalled
    BY <2>1, <2>4 DEF Crash, JobSet
  <2> QED
    BY <2>2, <2>3, <2>4
<1>2. job' = [j \in JobOf |-> job'[j]]
  BY DEF Crash
<1>3. job' \in [JobOf -> JobSet]
  BY <1>1, <1>2
<1>4. worker' \in [Workers -> WorkerSet] /\ \A w \in Workers : worker'[w] = Idle
  BY DEF Crash, WorkerSet, Idle
<1>5. setup' \in [Shifts -> {"none", "row", "start", "end", "done", "left"}]
  BY DEF Crash, QueueInv, TypeOK
<1>6. failing' \subseteq Rows
  BY DEF Crash, JobOf, Rows
<1>7. faults' \in 0 .. MaxFaults
  <2>1. faults < MaxFaults /\ faults' = faults + 1
    BY DEF Crash, Fault
  <2> QED
    BY <2>1, SchedulerAssumption DEF QueueInv, TypeOK
<1>8. saves' \subseteq SaveSet
  BY DEF Crash
<1>9. \A j \in JobOf : (job'[j].state = "active") <=> (\E w \in Workers : worker'[w].job = j)
  BY <1>1, <1>4, NoJobIsNone DEF Idle
<1>10. TypeOK'
  BY <1>3, <1>4, <1>5, <1>6, <1>7, <1>8, <1>9 DEF Crash, QueueInv, TypeOK, At, Idle
<1>11. WorkersHoldJobs'
  BY <1>4 DEF WorkersHoldJobs, At, Idle
<1>12. RetriesLeft'
  BY <1>1 DEF QueueInv, RetriesLeft
<1> QED
  BY <1>10, <1>11, <1>12 DEF QueueInv

(* Every step keeps the queue's invariant.                                 *)
LEMMA QueueStep == QueueInv /\ SavesHaveRows /\ [Next]_vars => QueueInv'
<1> SUFFICES ASSUME QueueInv, SavesHaveRows, [Next]_vars PROVE QueueInv'
  OBVIOUS
<1> USE DEF QueueInv
<1>1. ASSUME NEW r \in Rows, CreateActive(r) PROVE QueueInv'
  <2>1. row' \in [Rows -> RowSet \cup {Absent}]
    BY <1>1 DEF CreateActive, TypeOK, RowSet, Statuses
  <2>2. setup' \in [Shifts -> {"none", "row", "start", "end", "done", "left"}]
    BY <1>1 DEF CreateActive, TypeOK
  <2> QED
    BY <1>1, <2>1, <2>2, QueueKept DEF CreateActive, TypeOK
<1>2. ASSUME NEW r \in Rows, PauseOrResume(r) PROVE QueueInv'
  <2>1. PICK s \in {"paused", "scheduled"} : SetStatus(r, s)
    BY <1>2 DEF PauseOrResume
  <2>2. row' \in [Rows -> RowSet \cup {Absent}]
    BY <2>1, SetStatusType DEF TypeOK, Statuses
  <2>3. ops' \in 0 .. MaxOps
    BY <1>2, SchedulerAssumption DEF PauseOrResume, Request, TypeOK
  <2> QED
    BY <1>2, <2>2, <2>3, QueueKept DEF PauseOrResume, TypeOK
<1>3. ASSUME NEW r \in Rows, OnFailed(r) PROVE QueueInv'
  <2>1. row' \in [Rows -> RowSet \cup {Absent}]
    BY <1>3, SetStatusType DEF OnFailed, TypeOK, Statuses
  <2> QED
    BY <1>3, <2>1, QueueKept DEF OnFailed, TypeOK
<1>4. ASSUME NEW r \in Rows, FindForSave(r) PROVE QueueInv'
  <2>1. row[r] \in RowSet
    BY <1>4 DEF FindForSave, Request, Exists, TypeOK
  <2>2. saves' \subseteq SaveSet
    <3>1. PICK e \in {row[r], Cancelled} :
            saves' = saves \cup {[row |-> r, entity |-> e, pc |-> "save", diff |-> NoDiff]}
      BY <1>4 DEF FindForSave
    <3>2. e \in RowSet
      <4>1. Cancelled \in RowSet
        BY DEF Cancelled, RowSet, Statuses
      <4> QED
        BY <2>1, <3>1, <4>1
    <3>3. [row |-> r, entity |-> e, pc |-> "save", diff |-> NoDiff] \in SaveSet
      BY <3>2 DEF SaveSet, NoDiff
    <3> QED
      BY <3>1, <3>3 DEF TypeOK
  <2>3. ops' \in 0 .. MaxOps
    BY <1>4, SchedulerAssumption DEF FindForSave, Request, TypeOK
  <2> QED
    BY <1>4, <2>2, <2>3, QueueKept DEF FindForSave, TypeOK
<1>5. ASSUME NEW r \in Shifts, MarkQueued(r) PROVE QueueInv'
  <2>1. row' \in [Rows -> RowSet \cup {Absent}]
    BY <1>5, SetStatusType DEF MarkQueued, TypeOK, Statuses
  <2>2. setup' \in [Shifts -> {"none", "row", "start", "end", "done", "left"}]
    BY <1>5 DEF MarkQueued, TypeOK
  <2> QED
    BY <1>5, <2>1, <2>2, QueueKept DEF MarkQueued, TypeOK
<1>6. ASSUME NEW r \in Shifts, RequestFails(r) PROVE QueueInv'
  <2>1. setup' \in [Shifts -> {"none", "row", "start", "end", "done", "left"}]
    BY <1>6 DEF RequestFails, TypeOK
  <2>2. faults' \in 0 .. MaxFaults
    BY <1>6, SchedulerAssumption DEF RequestFails, Fault, TypeOK
  <2> QED
    BY <1>6, <2>1, <2>2, QueueKept DEF RequestFails, TypeOK
<1>7. ASSUME NEW r \in Shifts, NEW k \in Kinds, Enqueue(r, k) PROVE QueueInv'
  BY <1>7, EnqueueKeepsQueue
<1>8. ASSUME NEW c \in saves, Reload(c) \/ Update(c) PROVE QueueInv'
  <2>1. c \in SaveSet
    BY <1>8 DEF TypeOK
  <2>2. CASE Reload(c)
    <3>1. [c EXCEPT !.pc = "update", !.diff = DiffOf(c.entity, row[c.row])] \in SaveSet
      BY <2>1 DEF SaveSet, DiffOf
    <3> QED
      BY <2>2, <3>1, QueueKept DEF Reload, TypeOK
  <2>3. CASE Update(c)
    <3>1. Updated(c) \in RowSet
      BY <2>1, <2>3, UpdatedType DEF SavesHaveRows, Update, TypeOK
    <3>2. row' \in [Rows -> RowSet \cup {Absent}]
      BY <2>3, <3>1 DEF Update, TypeOK
    <3>3. saves' \subseteq SaveSet /\ revived' \subseteq Rows
      BY <2>1, <2>3 DEF Update, TypeOK, SaveSet
    <3> QED
      BY <2>3, <3>2, <3>3, QueueKept DEF Update, TypeOK
  <2> QED
    BY <1>8, <2>2, <2>3
<1>9. ASSUME NEW r \in Windows, AttachProcess(r) PROVE QueueInv'
  <2>1. row' \in [Rows -> RowSet \cup {Absent}]
    BY <1>9, SetStatusType DEF AttachProcess, TypeOK, Statuses
  <2>2. /\ ops' \in 0 .. MaxOps
        /\ process' \in [Windows -> {"none", "active", "completed"}]
    BY <1>9, SchedulerAssumption DEF AttachProcess, Request, TypeOK
  <2> QED
    BY <1>9, <2>1, <2>2, QueueKept DEF AttachProcess, TypeOK
<1>10. ASSUME NEW r \in Windows, StepStateChanged(r) PROVE QueueInv'
  <2>1. PICK s \in EngineStatus : SetStatus(r, s)
    BY <1>10 DEF StepStateChanged
  <2>2. row' \in [Rows -> RowSet \cup {Absent}]
    BY <2>1, SetStatusType DEF TypeOK, Statuses, EngineStatus
  <2>3. ops' \in 0 .. MaxOps
    BY <1>10, SchedulerAssumption DEF StepStateChanged, Request, TypeOK
  <2> QED
    BY <1>10, <2>2, <2>3, QueueKept DEF StepStateChanged, TypeOK
<1>11. ASSUME NEW r \in Windows, ProcessCompleted(r) PROVE QueueInv'
  <2>1. row' \in [Rows -> RowSet \cup {Absent}]
    BY <1>11 DEF ProcessCompleted, TypeOK, RowSet, Statuses
  <2>2. /\ ops' \in 0 .. MaxOps
        /\ process' \in [Windows -> {"none", "active", "completed"}]
    BY <1>11, SchedulerAssumption DEF ProcessCompleted, Request, TypeOK
  <2> QED
    BY <1>11, <2>1, <2>2, QueueKept DEF ProcessCompleted, TypeOK
<1>12. ASSUME NEW w \in Workers, Take(w) PROVE QueueInv'
  BY <1>12, TakeKeepsQueue
<1>13. ASSUME NEW w \in Workers, At(w, "read") \/ At(w, "emit"), Finish(w),
              UNCHANGED <<row, setup, saves, failing, process, ops, faults, revived>>
       PROVE  QueueInv'
  <2>1. NoTrace \in JobSet /\ NoTrace.state = "none"
    BY SchedulerAssumption DEF NoTrace, JobSet
  <2> QED
    BY <1>13, <2>1, LetGoKeepsQueue DEF Finish, At, TypeOK
<1>14. ASSUME NEW w \in Workers, ReadRow(w) PROVE QueueInv'
  <2>1. CASE ~row[Row(w)].active
    BY <1>13, <1>14, <2>1 DEF ReadRow
  <2>2. CASE row[Row(w)].active
    BY <1>14, <2>2, GoOnKeepsQueue DEF ReadRow, At, TypeOK
  <2> QED
    BY <2>1, <2>2
<1>15. ASSUME NEW w \in Workers, MarkRunning(w) \/ PauseForCalendar(w) PROVE QueueInv'
  <2>1. row' \in [Rows -> RowSet \cup {Absent}]
    BY <1>15, SetStatusType DEF MarkRunning, PauseForCalendar, TypeOK, Statuses
  <2> QED
    BY <1>15, <2>1, GoOnKeepsQueue DEF MarkRunning, PauseForCalendar, At
<1>16. ASSUME NEW w \in Workers, MarkCompleted(w) PROVE QueueInv'
  <2>1. row' \in [Rows -> RowSet \cup {Absent}]
    BY <1>16 DEF MarkCompleted, TypeOK, RowSet, Statuses
  <2> QED
    BY <1>16, <2>1, GoOnKeepsQueue DEF MarkCompleted, At
<1>17. ASSUME NEW w \in Workers, Requeue(w) PROVE QueueInv'
  BY <1>17, RequeueIsIgnored, GoOnKeepsQueue DEF Requeue, At, TypeOK
<1>18. ASSUME NEW w \in Workers, EmitEvent(w) PROVE QueueInv'
  BY <1>13, <1>18 DEF EmitEvent
<1>19. ASSUME NEW w \in Workers, AttemptFails(w) PROVE QueueInv'
  BY <1>19, AttemptFailsKeepsQueue
<1>20. CASE Crash
  BY <1>20, CrashKeepsQueue
<1>21. CASE UNCHANGED vars
  BY <1>21, QueueKept DEF vars, TypeOK
<1> QED
  BY <1>1, <1>2, <1>3, <1>4, <1>5, <1>6, <1>7, <1>8, <1>9, <1>10, <1>11, <1>12, <1>14,
     <1>15, <1>16, <1>17, <1>18, <1>19, <1>20, <1>21 DEF Next, Handle

-----------------------------------------------------------------------------
(* The rows.                                                               *)

(* A row that is there stays, and only a stale save sets it active again.  *)
LEMMA RowStep ==
  ASSUME QueueInv, SavesHaveRows, [Next]_vars, NEW r \in Rows
  PROVE  /\ Exists(r) => Exists(r)'
         /\ Exists(r) /\ row'[r].active =>
              \/ row[r].active
              \/ /\ r \in revived'
                 /\ \E c \in saves : c.row = r /\ Update(c) /\ c.diff.active /\ c.entity.active
         /\ revived \subseteq revived'
<1> USE DEF QueueInv
<1>1. Absent \notin RowSet
  BY DEF Absent, RowSet, Statuses
<1>2. ASSUME NEW q \in Rows, NEW s \in Statuses, SetStatus(q, s), UNCHANGED revived
      PROVE  /\ Exists(r) => Exists(r)'
             /\ row'[r].active = row[r].active
             /\ revived \subseteq revived'
  BY <1>2, SetStatusType DEF TypeOK, Exists
<1>3. ASSUME NEW q \in Rows, UNCHANGED revived, ~Exists(q) \/ q # r, CreateActive(q)
      PROVE  Exists(r) => UNCHANGED row[r]
  BY <1>3 DEF CreateActive, TypeOK
<1>4. CASE \E q \in Rows : CreateActive(q)
  <2>1. PICK q \in Rows : CreateActive(q)
    BY <1>4
  <2> QED
    BY <2>1, <1>3 DEF CreateActive, Exists
<1>5. CASE \E q \in Rows : PauseOrResume(q) \/ OnFailed(q)
  <2>1. PICK q \in Rows : PauseOrResume(q) \/ OnFailed(q)
    BY <1>5
  <2>2. \E s \in Statuses : SetStatus(q, s)
    BY <2>1 DEF PauseOrResume, OnFailed, Statuses
  <2> QED
    BY <1>2, <2>1, <2>2 DEF PauseOrResume, OnFailed
<1>6. CASE \E q \in Shifts : MarkQueued(q)
  BY <1>2, <1>6 DEF MarkQueued, Rows, Statuses
<1>7. CASE \E c \in saves : Update(c)
  <2>1. PICK c \in saves : Update(c)
    BY <1>7
  <2>2. c \in SaveSet /\ Exists(c.row)
    BY DEF TypeOK, SavesHaveRows
  <2>3. /\ Updated(c) \in RowSet
        /\ Updated(c).active => row[c.row].active \/ (c.diff.active /\ c.entity.active)
    BY <2>2, UpdatedType DEF TypeOK
  <2>4. row'[r] = IF r = c.row THEN Updated(c) ELSE row[r]
    BY <2>1, <2>2 DEF Update, TypeOK, SaveSet
  <2>5. /\ revived \subseteq revived'
        /\ ~row[c.row].active /\ Updated(c).active => c.row \in revived'
    BY <2>1 DEF Update
  <2> QED
    BY <1>1, <2>1, <2>2, <2>3, <2>4, <2>5 DEF Exists
<1>8. CASE \E q \in Windows : AttachProcess(q)
  BY <1>2, <1>8 DEF AttachProcess, Rows, Statuses
<1>9. CASE \E q \in Windows : StepStateChanged(q)
  <2>1. PICK q \in Windows : StepStateChanged(q)
    BY <1>9
  <2>2. \E s \in Statuses : SetStatus(q, s)
    BY <2>1 DEF StepStateChanged, Statuses, EngineStatus
  <2> QED
    BY <1>2, <2>1, <2>2 DEF StepStateChanged, Rows
<1>10. ASSUME NEW q \in Rows, UNCHANGED revived,
              row' = [row EXCEPT ![q] = [status |-> "completed", active |-> FALSE]]
       PROVE  /\ Exists(r) => Exists(r)'
              /\ row'[r].active => row[r].active
              /\ revived \subseteq revived'
  <2>1. row'[r] = IF r = q THEN [status |-> "completed", active |-> FALSE] ELSE row[r]
    BY <1>10 DEF TypeOK
  <2> QED
    BY <1>10, <2>1 DEF Exists, Absent
<1>11. CASE \E q \in Windows : ProcessCompleted(q)
  BY <1>10, <1>11 DEF ProcessCompleted, Rows
<1>12. ASSUME NEW w \in Workers, MarkRunning(w) \/ PauseForCalendar(w) \/ MarkCompleted(w)
       PROVE  /\ Exists(r) => Exists(r)'
              /\ row'[r].active => row[r].active
              /\ revived \subseteq revived'
  <2>1. Row(w) \in Rows
    BY <1>12, BusyWorker DEF MarkRunning, PauseForCalendar, MarkCompleted, At, Rows
  <2> QED
    BY <1>2, <1>10, <1>12, <2>1 DEF MarkRunning, PauseForCalendar, MarkCompleted, Statuses
<1>13. CASE UNCHANGED <<row, revived>>
  BY <1>13 DEF Exists
<1>14. CASE \E w \in Workers : Handle(w) \/ AttemptFails(w)
  BY <1>12, <1>13, <1>14
  DEF Handle, Take, ReadRow, Requeue, EmitEvent, AttemptFails
<1>15. CASE \/ Crash \/ UNCHANGED vars
            \/ \E q \in Rows : FindForSave(q)
            \/ \E c \in saves : Reload(c)
            \/ \E q \in Shifts : RequestFails(q) \/ \E k \in Kinds : Enqueue(q, k)
  BY <1>13, <1>15 DEF Crash, vars, FindForSave, Reload, RequestFails, Enqueue
<1> QED
  BY <1>4, <1>5, <1>6, <1>7, <1>8, <1>9, <1>11, <1>14, <1>15 DEF Next

(* A job leaves the queue only through a handler that returns, and enters  *)
(* it only when it is enqueued.                                            *)
LEMMA JobStep ==
  ASSUME QueueInv, [Next]_vars, NEW j \in JobOf
  PROVE  /\ job'[j].state = "none" /\ job[j].state # "none" =>
              \E w \in Workers :
                /\ worker[w].job = j
                /\ \/ At(w, "read") /\ ReadRow(w) /\ ~row[Row(w)].active
                   \/ EmitEvent(w)
         /\ job'[j].state # "none" /\ job[j].state = "none" =>
              \E k \in Kinds : j = Job(j.row, k) /\ j.row \in Shifts /\ Enqueue(j.row, k)
<1> USE DEF QueueInv
<1>1. CASE UNCHANGED job
  BY <1>1
<1>2. CASE \E r \in Shifts : \E k \in Kinds : Enqueue(r, k)
  <2>1. PICK r \in Shifts, k \in Kinds : Enqueue(r, k)
    BY <1>2
  <2>2. Job(r, k) \in JobOf /\ Job(r, k).row = r
    BY DEF Job, JobOf
  <2>3. job'[j].state # job[j].state => j = Job(r, k) /\ job'[j].state = "waiting"
    BY <2>1, <2>2 DEF Enqueue, Added, JustAdded, TypeOK
  <2> QED
    BY <2>1, <2>2, <2>3
<1>3. CASE \E w \in Workers : Take(w)
  BY <1>3 DEF Take, TypeOK, JobSet
<1>4. CASE \E w \in Workers : ReadRow(w)
  <2>1. PICK w \in Workers : ReadRow(w)
    BY <1>4
  <2>2. CASE ~row[Row(w)].active
    BY <2>1, <2>2, BusyWorker DEF ReadRow, Finish, NoTrace, At, TypeOK
  <2>3. CASE row[Row(w)].active
    BY <1>1, <2>1, <2>3 DEF ReadRow
  <2> QED
    BY <2>2, <2>3
<1>5. CASE \E w \in Workers : EmitEvent(w)
  <2>1. PICK w \in Workers : EmitEvent(w)
    BY <1>5
  <2>2. job' = [job EXCEPT ![worker[w].job] = NoTrace]
    BY <2>1 DEF EmitEvent, Finish
  <2>3. CASE j = worker[w].job
    BY <2>1, <2>2, <2>3 DEF NoTrace, TypeOK
  <2>4. CASE j # worker[w].job
    BY <2>2, <2>4 DEF TypeOK
  <2> QED
    BY <2>3, <2>4
<1>6. CASE \E w \in Workers : Requeue(w)
  BY <1>1, <1>6, RequeueIsIgnored
<1>7. CASE \E w \in Workers : AttemptFails(w)
  <2>1. PICK w \in Workers : AttemptFails(w)
    BY <1>7
  <2>2. worker[w].job \in JobOf /\ job[worker[w].job].state = "active"
    BY <2>1, BusyWorker DEF AttemptFails, JobAt
  <2>3. j # worker[w].job => job'[j] = job[j]
    BY <2>1, <2>2 DEF AttemptFails, TypeOK
  <2>4. j = worker[w].job => job'[j].state \in {"waiting", "failed"}
    BY <2>1, <2>2 DEF AttemptFails, TypeOK, JobSet
  <2> QED
    BY <2>2, <2>3, <2>4
<1>8. CASE Crash
  <2>1. job[j] \in JobSet
    BY DEF TypeOK
  <2>2. CASE job[j].state # "active"
    BY <1>8, <2>2 DEF Crash
  <2>3. CASE job[j].state = "active"
    BY <1>8, <2>1, <2>3 DEF Crash, JobSet
  <2> QED
    BY <2>2, <2>3
<1>9. CASE \/ \E r \in Rows :
                \/ CreateActive(r) \/ PauseOrResume(r) \/ OnFailed(r)
                \/ FindForSave(r)
           \/ \E r \in Shifts : MarkQueued(r) \/ RequestFails(r)
           \/ \E c \in saves : Reload(c) \/ Update(c)
           \/ \E r \in Windows : AttachProcess(r) \/ StepStateChanged(r) \/ ProcessCompleted(r)
           \/ \E w \in Workers : MarkRunning(w) \/ MarkCompleted(w) \/ PauseForCalendar(w)
           \/ UNCHANGED vars
  BY <1>1, <1>9
  DEF CreateActive, PauseOrResume, OnFailed, FindForSave, MarkQueued, RequestFails, Reload, Update,
      AttachProcess, StepStateChanged, ProcessCompleted, MarkRunning, MarkCompleted,
      PauseForCalendar, vars
<1> QED
  BY <1>2, <1>3, <1>4, <1>5, <1>6, <1>7, <1>8, <1>9 DEF Next, Handle

-----------------------------------------------------------------------------
(* The invariant.                                                          *)

LEMMA RowsAreThereStep == SchedulerInv /\ [Next]_vars => RowsAreThere'
<1> SUFFICES ASSUME SchedulerInv, [Next]_vars PROVE RowsAreThere'
  OBVIOUS
<1>1. \A r \in Rows : Exists(r) => Exists(r)'
  BY RowStep DEF SchedulerInv
<1>2. \A r \in Shifts : setup'[r] # "none" /\ setup[r] = "none" => Exists(r)'
  <2> SUFFICES ASSUME NEW r \in Shifts, setup'[r] # "none", setup[r] = "none"
               PROVE  Exists(r)'
    OBVIOUS
  <2>1. setup \in [Shifts -> {"none", "row", "start", "end", "done", "left"}]
    BY DEF SchedulerInv, QueueInv, TypeOK
  <2>2. CreateActive(r)
    BY <2>1 DEF Next, Handle, CreateActive, PauseOrResume, OnFailed, FindForSave, MarkQueued,
                RequestFails, Enqueue, Reload, Update, AttachProcess, StepStateChanged,
                ProcessCompleted,
                Take, ReadRow, MarkRunning, MarkCompleted, PauseForCalendar, Requeue, EmitEvent,
                AttemptFails, Crash, vars
  <2>3. row'[r] = [status |-> "scheduled", active |-> TRUE]
    BY <2>2 DEF CreateActive, SchedulerInv, QueueInv, TypeOK, Rows
  <2> QED
    BY <2>3 DEF Exists, Absent
<1>3. \A r \in Shifts : setup'[r] # "none" => Exists(r)'
  BY <1>1, <1>2 DEF SchedulerInv, RowsAreThere, Rows
<1>4. \A j \in JobOf : job'[j].state # "none" => Exists(j.row)'
  <2> SUFFICES ASSUME NEW j \in JobOf, job'[j].state # "none"
               PROVE  Exists(j.row)'
    OBVIOUS
  <2>1. j.row \in Rows
    BY DEF JobOf, Rows
  <2>2. CASE job[j].state # "none"
    BY <1>1, <2>1, <2>2 DEF SchedulerInv, RowsAreThere
  <2>3. CASE job[j].state = "none"
    <3>1. PICK k \in Kinds : j.row \in Shifts /\ Enqueue(j.row, k)
      BY <2>3, JobStep DEF SchedulerInv
    <3>2. setup[j.row] # "none"
      BY <3>1 DEF Enqueue
    <3> QED
      BY <1>1, <2>1, <3>1, <3>2 DEF SchedulerInv, RowsAreThere
  <2> QED
    BY <2>2, <2>3
<1> QED
  BY <1>3, <1>4 DEF RowsAreThere

(* What a worker does next depends on what it has done.                    *)
LEMMA WorkerStep ==
  ASSUME QueueInv, [Next]_vars, NEW w \in Workers
  PROVE  \/ UNCHANGED worker[w]
         \/ worker'[w] = Idle
         \/ Take(w) /\ worker'[w].pc = "read"
         \/ ReadRow(w) /\ worker'[w].job = worker[w].job
              /\ worker'[w].pc \in (IF worker[w].job.kind = "end" THEN {"complete"} ELSE {"run", "defer"})
         \/ MarkRunning(w) /\ worker'[w].job = worker[w].job /\ worker'[w].pc = "emit"
         \/ MarkCompleted(w) /\ worker'[w].job = worker[w].job /\ worker'[w].pc = "emit"
         \/ PauseForCalendar(w) /\ worker'[w].job = worker[w].job /\ worker'[w].pc = "requeue"
         \/ Requeue(w) /\ worker'[w].job = worker[w].job /\ worker'[w].pc = "emit"
<1> USE DEF QueueInv
<1>1. worker \in [Workers -> WorkerSet]
  BY DEF TypeOK
<1>2. ASSUME NEW v \in Workers, Handle(v) \/ AttemptFails(v), v # w
      PROVE  UNCHANGED worker[w]
  BY <1>1, <1>2 DEF Handle, Take, ReadRow, Finish, MarkRunning, MarkCompleted, PauseForCalendar,
                    Requeue, EmitEvent, AttemptFails
<1>3. CASE Take(w)
  <2>1. PICK j \in JobOf : worker' = [worker EXCEPT ![w] = [job |-> j, pc |-> "read"]]
    BY <1>3 DEF Take
  <2>2. worker'[w] = [job |-> j, pc |-> "read"]
    BY <1>1, <2>1
  <2> QED
    BY <1>3, <2>2
<1>4. CASE ReadRow(w)
  BY <1>1, <1>4 DEF ReadRow, Finish, WorkerSet
<1>5. CASE MarkRunning(w) \/ MarkCompleted(w) \/ PauseForCalendar(w) \/ Requeue(w)
  BY <1>1, <1>5 DEF MarkRunning, MarkCompleted, PauseForCalendar, Requeue, WorkerSet
<1>6. CASE EmitEvent(w) \/ AttemptFails(w) \/ Crash
  BY <1>1, <1>6 DEF EmitEvent, Finish, AttemptFails, Crash
<1>7. CASE UNCHANGED worker
  BY <1>7
<1>8. CASE \/ \E r \in Rows :
                \/ CreateActive(r) \/ PauseOrResume(r) \/ OnFailed(r)
                \/ FindForSave(r)
           \/ \E r \in Shifts :
                MarkQueued(r) \/ RequestFails(r) \/ \E k \in Kinds : Enqueue(r, k)
           \/ \E c \in saves : Reload(c) \/ Update(c)
           \/ \E r \in Windows : AttachProcess(r) \/ StepStateChanged(r) \/ ProcessCompleted(r)
           \/ UNCHANGED vars
  BY <1>7, <1>8
  DEF CreateActive, PauseOrResume, OnFailed, FindForSave, MarkQueued, RequestFails, Enqueue, Reload,
      Update,
      AttachProcess, StepStateChanged, ProcessCompleted, vars
<1> QED
  BY <1>2, <1>3, <1>4, <1>5, <1>6, <1>8 DEF Next, Handle

LEMMA HandlersStep == SchedulerInv /\ [Next]_vars => HandlersKeepKind' /\ EndHandlerSettles'
<1> SUFFICES ASSUME SchedulerInv, [Next]_vars, NEW w \in Workers
             PROVE  /\ worker'[w].pc \in {"run", "defer", "requeue"} => worker'[w].job.kind = "start"
                    /\ worker'[w].pc = "complete" => worker'[w].job.kind = "end"
                    /\ worker'[w].pc = "emit" /\ worker'[w].job.kind = "end" =>
                         ~row'[worker'[w].job.row].active \/ worker'[w].job.row \in revived'
  BY DEF HandlersKeepKind, EndHandlerSettles, At, Row
<1> USE DEF SchedulerInv, HandlersKeepKind, EndHandlerSettles, At, Row
<1>1. CASE worker'[w] = Idle
  BY <1>1 DEF Idle
<1>2. CASE Take(w) /\ worker'[w].pc = "read"
  BY <1>2
<1>3. CASE /\ ReadRow(w) /\ worker'[w].job = worker[w].job
           /\ worker'[w].pc \in (IF worker[w].job.kind = "end" THEN {"complete"} ELSE {"run", "defer"})
  <2>1. worker[w].job \in JobOf
    BY <1>3, BusyWorker DEF ReadRow
  <2>2. worker[w].job.kind \in {"start", "end"}
    BY <2>1 DEF JobOf, Kinds
  <2> QED
    BY <1>3, <2>2
<1>4. CASE /\ MarkRunning(w) \/ PauseForCalendar(w) \/ Requeue(w)
           /\ worker'[w].job = worker[w].job /\ worker'[w].pc \in {"requeue", "emit"}
  BY <1>4 DEF MarkRunning, PauseForCalendar, Requeue
<1>5. CASE MarkCompleted(w) /\ worker'[w].job = worker[w].job /\ worker'[w].pc = "emit"
  <2>1. Row(w) \in Rows
    BY <1>5, BusyWorker DEF MarkCompleted, Rows
  <2>2. row'[Row(w)] = [status |-> "completed", active |-> FALSE]
    BY <1>5, <2>1 DEF MarkCompleted, QueueInv, TypeOK
  <2> QED
    BY <1>5, <2>2
<1>6. CASE UNCHANGED worker[w]
  <2> SUFFICES ASSUME At(w, "emit"), worker[w].job.kind = "end"
               PROVE  ~row'[Row(w)].active \/ Row(w) \in revived'
    BY <1>6
  <2>1. Row(w) \in Rows /\ worker[w].job \in JobOf /\ job[worker[w].job].state = "active"
    BY BusyWorker DEF Rows, JobAt
  <2>2. Exists(Row(w))
    BY <2>1 DEF RowsAreThere
  <2>3. ~row[Row(w)].active \/ Row(w) \in revived
    OBVIOUS
  <2> HIDE DEF Row
  <2> QED
    BY <2>1, <2>2, <2>3, RowStep
<1> QED
  BY <1>1, <1>2, <1>3, <1>4, <1>5, <1>6, WorkerStep

LEMMA EndJobKeptStep == SchedulerInv /\ [Next]_vars => EndJobKept'
<1> SUFFICES ASSUME SchedulerInv, [Next]_vars, NEW r \in Shifts,
                    setup'[r] \in {"end", "done"}, row'[r].active, r \notin revived'
             PROVE  job'[Job(r, "end")].state # "none"
  BY DEF EndJobKept
<1> DEFINE j == Job(r, "end")
<1>1. j \in JobOf /\ j.row = r /\ j.kind = "end"
  BY DEF Job, JobOf, Kinds
<1>2. setup \in [Shifts -> {"none", "row", "start", "end", "done", "left"}]
  BY DEF SchedulerInv, QueueInv, TypeOK
<1>3. CASE Enqueue(r, "end")
  BY <1>1, <1>3 DEF Enqueue, Added, JustAdded, SchedulerInv, QueueInv, TypeOK
<1>4. CASE setup[r] \in {"end", "done"}
  <2>1. r \in Rows /\ Exists(r)
    BY <1>4 DEF SchedulerInv, RowsAreThere, Rows
  <2>2. row[r].active /\ r \notin revived
    BY <2>1, RowStep DEF SchedulerInv
  <2>3. job[j].state # "none"
    BY <1>4, <2>2 DEF SchedulerInv, EndJobKept
  <2>4. ASSUME NEW w \in Workers, worker[w].job = j,
               (At(w, "read") /\ ~row[Row(w)].active) \/ EmitEvent(w)
        PROVE  FALSE
    BY <1>1, <2>2, <2>4 DEF SchedulerInv, EndHandlerSettles, EmitEvent, Row
  <2> QED
    BY <1>1, <2>3, <2>4, JobStep DEF SchedulerInv
<1>5. setup[r] \in {"end", "done"} \/ Enqueue(r, "end")
  <2>1. CASE UNCHANGED setup
    BY <2>1
  <2>2. CASE \E q \in Shifts : MarkQueued(q) \/ RequestFails(q) \/ \E k \in Kinds : Enqueue(q, k)
    BY <1>2, <2>2 DEF MarkQueued, RequestFails, Enqueue, Kinds
  <2>3. CASE Crash \/ \E q \in Rows : CreateActive(q)
    <3>1. CASE \E q \in Rows : CreateActive(q)
      BY <1>2, <3>1 DEF CreateActive
    <3>2. CASE Crash
      <4>1. setup'[r] = IF setup[r] \in {"row", "start", "end"} THEN "left" ELSE setup[r]
        BY <3>2 DEF Crash
      <4> QED
        BY <1>2, <4>1
    <3> QED
      BY <2>3, <3>1, <3>2
  <2> QED
    BY <2>1, <2>2, <2>3
    DEF Next, Handle, PauseOrResume, OnFailed, FindForSave, Reload, Update, AttachProcess,
        StepStateChanged,
        ProcessCompleted, Take, ReadRow, MarkRunning, MarkCompleted, PauseForCalendar, Requeue,
        EmitEvent, AttemptFails, vars
<1> QED
  BY <1>3, <1>4, <1>5

(* An inactive shift stays so unless it is revived.                        *)
LEMMA OverStays ==
  ASSUME SchedulerInv, [Next]_vars, NEW r \in Rows, Exists(r), Over(r)
  PROVE  Over(r)'
BY RowStep DEF SchedulerInv, Over

LEMMA SavesStep == SchedulerInv /\ [Next]_vars => SavesHaveRows' /\ CompletedWhenRead'
<1> SUFFICES ASSUME SchedulerInv, [Next]_vars, NEW c \in saves'
             PROVE  /\ Exists(c.row)'
                    /\ c.row \in Shifts /\ c.entity.status = "completed" => Over(c.row)'
  BY DEF SavesHaveRows, CompletedWhenRead
<1> USE DEF SchedulerInv, QueueInv
<1>1. ASSUME NEW r \in Rows, Exists(r), c.row = r,
             r \in Shifts /\ c.entity.status = "completed" => Over(r)
      PROVE  /\ Exists(c.row)'
             /\ c.row \in Shifts /\ c.entity.status = "completed" => Over(c.row)'
  BY <1>1, RowStep, OverStays
<1>2. CASE c \in saves
  BY <1>1, <1>2 DEF SavesHaveRows, CompletedWhenRead, TypeOK, SaveSet
<1>3. CASE \E d \in saves : Reload(d) /\ c.row = d.row /\ c.entity = d.entity
  BY <1>1, <1>3 DEF SavesHaveRows, CompletedWhenRead, TypeOK, SaveSet
<1>4. CASE \E q \in Rows : FindForSave(q) /\ c.row = q /\ c.entity \in {row[q], Cancelled}
  <2>1. PICK q \in Rows : FindForSave(q) /\ c.row = q /\ c.entity \in {row[q], Cancelled}
    BY <1>4
  <2>2. Exists(q)
    BY <2>1 DEF FindForSave, Request
  <2>3. q \in Shifts /\ c.entity.status = "completed" => Over(q)
    BY <2>1 DEF CompletedIsInactive, Cancelled, Over
  <2> QED
    BY <1>1, <2>1, <2>2, <2>3
<1>5. \/ c \in saves
      \/ \E d \in saves : Reload(d) /\ c.row = d.row /\ c.entity = d.entity
      \/ \E q \in Rows : FindForSave(q) /\ c.row = q /\ c.entity \in {row[q], Cancelled}
  <2>1. CASE \E q \in Rows : FindForSave(q)
    BY <2>1 DEF FindForSave
  <2>2. CASE \E d \in saves : Reload(d)
    <3>1. PICK d \in saves : Reload(d)
      BY <2>2
    <3>2. d \in SaveSet
      BY DEF TypeOK
    <3>3. c \in saves \/ c = [d EXCEPT !.pc = "update", !.diff = DiffOf(d.entity, row[d.row])]
      BY <3>1 DEF Reload
    <3> QED
      BY <3>1, <3>2, <3>3 DEF SaveSet
  <2>3. CASE saves' \subseteq saves
    BY <2>3
  <2> QED
    BY <2>1, <2>2, <2>3
    DEF Next, Handle, CreateActive, PauseOrResume, OnFailed, MarkQueued, RequestFails, Enqueue,
        Update, AttachProcess, StepStateChanged, ProcessCompleted, Take, ReadRow, MarkRunning,
        MarkCompleted, PauseForCalendar, Requeue, EmitEvent, AttemptFails, Crash, vars
<1> QED
  BY <1>2, <1>3, <1>4, <1>5

LEMMA CompletedStep == SchedulerInv /\ [Next]_vars => CompletedIsInactive'
<1> SUFFICES ASSUME SchedulerInv, [Next]_vars, NEW r \in Shifts, row'[r].status = "completed"
             PROVE  Over(r)'
  BY DEF CompletedIsInactive, Over
<1> USE DEF SchedulerInv, QueueInv
<1>1. r \in Rows
  BY DEF Rows
<1>2. CASE Exists(r) /\ Over(r)
  BY <1>1, <1>2, OverStays
<1>3. CASE row[r].status = "completed"
  <2>1. Exists(r) /\ Over(r)
    BY <1>3 DEF CompletedIsInactive, Over, Exists, Absent
  <2> QED
    BY <1>2, <2>1
<1>4. ASSUME NEW q \in Rows, NEW s \in Statuses, SetStatus(q, s), s # "completed" \/ q \notin Shifts
      PROVE  row[r].status = "completed"
  BY <1>1, <1>4, SetStatusType DEF TypeOK
<1>5. CASE \E q \in Rows : PauseOrResume(q) \/ OnFailed(q)
  <2>1. PICK q \in Rows : PauseOrResume(q) \/ OnFailed(q)
    BY <1>5
  <2>2. \E s \in Statuses : s # "completed" /\ SetStatus(q, s)
    BY <2>1 DEF PauseOrResume, OnFailed, Statuses
  <2> QED
    BY <1>3, <1>4, <2>1, <2>2
<1>6. CASE \E q \in Shifts : MarkQueued(q)
  BY <1>3, <1>4, <1>6 DEF MarkQueued, Rows, Statuses
<1>7. CASE \E q \in Windows : AttachProcess(q) \/ StepStateChanged(q)
  <2>1. PICK q \in Windows : AttachProcess(q) \/ StepStateChanged(q)
    BY <1>7
  <2>2. q \in Rows /\ q \notin Shifts
    BY SchedulerAssumption DEF Rows
  <2>3. \E s \in Statuses : SetStatus(q, s)
    BY <2>1 DEF AttachProcess, StepStateChanged, EngineStatus, Statuses
  <2> QED
    BY <1>3, <1>4, <2>1, <2>2, <2>3
<1>8. CASE \E w \in Workers : MarkRunning(w) \/ PauseForCalendar(w)
  <2>1. PICK w \in Workers : MarkRunning(w) \/ PauseForCalendar(w)
    BY <1>8
  <2>2. Row(w) \in Rows
    BY <2>1, BusyWorker DEF MarkRunning, PauseForCalendar, At, Rows
  <2> QED
    BY <1>3, <1>4, <2>1, <2>2 DEF MarkRunning, PauseForCalendar, Statuses
<1>9. CASE \/ \E q \in Windows : ProcessCompleted(q)
           \/ \E w \in Workers : MarkCompleted(w)
  <2>1. PICK q : row' = [row EXCEPT ![q] = [status |-> "completed", active |-> FALSE]]
    BY <1>9 DEF ProcessCompleted, MarkCompleted
  <2>2. row'[r] = [status |-> "completed", active |-> FALSE] \/ row'[r] = row[r]
    BY <1>1, <2>1 DEF TypeOK
  <2> QED
    BY <1>3, <2>2 DEF Over
<1>10. CASE \E q \in Rows : CreateActive(q)
  <2>1. PICK q \in Rows : CreateActive(q)
    BY <1>10
  <2>2. row'[r] = [status |-> "scheduled", active |-> TRUE] \/ row'[r] = row[r]
    BY <1>1, <2>1 DEF CreateActive, TypeOK
  <2> QED
    BY <1>3, <2>2
<1>11. CASE \E c \in saves : Update(c)
  <2>1. PICK c \in saves : Update(c)
    BY <1>11
  <2>2. c \in SaveSet /\ Exists(c.row)
    BY DEF TypeOK, SavesHaveRows
  <2>3. row'[r] = IF r = c.row THEN Updated(c) ELSE row[r]
    BY <1>1, <2>1, <2>2 DEF Update, TypeOK, SaveSet
  <2>4. r = c.row => Updated(c).status \in {c.entity.status, row[r].status}
    BY <2>2, UpdatedType DEF TypeOK
  <2>5. CASE r = c.row /\ c.entity.status = "completed"
    BY <1>2, <2>2, <2>5 DEF CompletedWhenRead
  <2> QED
    BY <1>3, <2>3, <2>4, <2>5
<1>12. CASE UNCHANGED row
  BY <1>3, <1>12
<1> QED
  BY <1>5, <1>6, <1>7, <1>8, <1>9, <1>10, <1>11, <1>12
  DEF Next, Handle, FindForSave, Reload, RequestFails, Enqueue, Take, ReadRow, Requeue, EmitEvent,
      AttemptFails, Crash, vars

LEMMA InitSchedulerInv == Init => SchedulerInv
<1> SUFFICES ASSUME Init PROVE SchedulerInv
  OBVIOUS
<1>1. QueueInv
  BY InitQueue
<1>2. RowsAreThere
  BY DEF Init, RowsAreThere, NoTrace, Rows
<1>3. HandlersKeepKind /\ EndHandlerSettles
  BY DEF Init, HandlersKeepKind, EndHandlerSettles, At, Idle
<1>4. EndJobKept /\ CompletedIsInactive /\ SavesHaveRows /\ CompletedWhenRead
  BY DEF Init, EndJobKept, CompletedIsInactive, SavesHaveRows, CompletedWhenRead, Absent, Rows
<1> QED
  BY <1>1, <1>2, <1>3, <1>4 DEF SchedulerInv

(* The invariant holds.                                                    *)
LEMMA SchedulerInvariant == Spec => []SchedulerInv
<1>1. SchedulerInv /\ [Next]_vars => SchedulerInv'
  <2> SUFFICES ASSUME SchedulerInv, [Next]_vars PROVE SchedulerInv'
    OBVIOUS
  <2>1. QueueInv'
    BY QueueStep DEF SchedulerInv
  <2> QED
    BY <2>1, RowsAreThereStep, HandlersStep, EndJobKeptStep, SavesStep, CompletedStep DEF SchedulerInv
<1> QED
  BY <1>1, InitSchedulerInv, PTL DEF Spec

-----------------------------------------------------------------------------
(* The theorems.                                                           *)

(* The state of the scheduler is well formed, and the queue's lock holds:  *)
(* a job is active exactly while one worker is handling it.                *)
THEOREM TypeCorrect == Spec => []TypeOK
<1>1. SchedulerInv => TypeOK
  BY DEF SchedulerInv, QueueInv
<1> QED
  BY <1>1, SchedulerInvariant, PTL

(* Whatever is cancelled, retried, stalled or run early, the end job of an *)
(* active shift is not used up before the shift is settled.                *)
THEOREM EndJobIsNotWasted == Spec => []EndJobNotWasted
<1>1. SchedulerInv => EndJobNotWasted
  BY DEF SchedulerInv, EndJobKept, EndJobNotWasted
<1> QED
  BY <1>1, SchedulerInvariant, PTL

(* A completed shift is active only if a stale reschedule has revived it,  *)
(* however its reading, reloading and writing fall between the others'.    *)
THEOREM CompletedShiftsAreInactive == Spec => []CompletedIsInactive
<1>1. SchedulerInv => CompletedIsInactive
  BY DEF SchedulerInv
<1> QED
  BY <1>1, SchedulerInvariant, PTL

(* A cancelled or completed row that everybody has let go of stays so.     *)
THEOREM SettledForGood == Spec => SettledStaysSettled
<1>1. ASSUME SchedulerInv, [Next]_vars, NEW r \in Rows, Settled(r)
      PROVE  Settled(r)'
  <2>1. \A c \in saves : c.row = r => ~(Update(c) /\ c.diff.active /\ c.entity.active)
    BY <1>1 DEF Settled
  <2>2. Exists(r)' /\ ~row'[r].active
    BY <1>1, <2>1, RowStep DEF SchedulerInv, Settled
  <2>3. \A c \in saves' : c.row = r /\ c.entity.active => c.pc = "update" /\ ~c.diff.active
    <3>1. CASE saves' \subseteq saves
      BY <1>1, <3>1 DEF Settled
    <3>2. CASE \E q \in Rows : FindForSave(q)
      BY <1>1, <3>2 DEF FindForSave, Settled, Cancelled
    <3>3. CASE \E c \in saves : Reload(c)
      <4>1. PICK c \in saves : Reload(c)
        BY <3>3
      <4>2. c.row # r \/ ~c.entity.active
        BY <1>1, <4>1 DEF Reload, Settled
      <4>3. DEFINE d == [c EXCEPT !.pc = "update", !.diff = DiffOf(c.entity, row[c.row])]
      <4>4. saves' = (saves \ {c}) \cup {d}
        BY <4>1 DEF Reload
      <4>5. d.row = c.row /\ d.entity = c.entity
        BY <1>1, <4>1 DEF SchedulerInv, QueueInv, TypeOK, SaveSet
      <4>6. \A e \in saves : e.row = r /\ e.entity.active => e.pc = "update" /\ ~e.diff.active
        BY <1>1 DEF Settled
      <4> HIDE DEF d
      <4> QED
        BY <4>2, <4>4, <4>5, <4>6
    <3> QED
      BY <1>1, <3>1, <3>2, <3>3
      DEF Next, Handle, CreateActive, PauseOrResume, OnFailed, MarkQueued, RequestFails, Enqueue,
          Update, AttachProcess, StepStateChanged, ProcessCompleted, Take, ReadRow, MarkRunning,
          MarkCompleted, PauseForCalendar, Requeue, EmitEvent, AttemptFails, Crash, vars
  <2>4. \A w \in Workers : worker'[w].job.row = r => worker'[w].pc \notin {"run", "defer", "complete"}
    <3> SUFFICES ASSUME NEW w \in Workers, worker'[w].job.row = r,
                        worker'[w].pc \in {"run", "defer", "complete"}
                 PROVE  FALSE
      OBVIOUS
    <3>1. ~(ReadRow(w) /\ worker'[w].job = worker[w].job)
      BY <1>1, BusyWorker DEF ReadRow, Finish, Settled, Row, Idle, SchedulerInv, QueueInv, TypeOK
    <3>2. UNCHANGED worker[w]
      BY <1>1, <3>1, WorkerStep DEF Idle, SchedulerInv
    <3> QED
      BY <1>1, <3>2 DEF Settled, Row
  <2> QED
    BY <2>2, <2>3, <2>4 DEF Settled, Row
<1>2. SchedulerInv /\ [Next]_vars => [\A r \in Rows : Settled(r) => Settled(r)']_vars
  BY <1>1
<1> QED
  BY <1>2, SchedulerInvariant, PTL DEF Spec, SettledStaysSettled
============================================================================
