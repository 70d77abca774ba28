---------------------------- MODULE ProcessEngine ----------------------------
(****************************************************************************)
(* The workflow engine of src/src/automation: process instances, their      *)
(* ordered steps, and the transactions that move them.                      *)
(*                                                                          *)
(* StepOrchestratorService runs attemptAdvance, markCompleted and           *)
(* resumeParentAfterChildCallProcess, each in one MySQL transaction that    *)
(* locks the row of its step (SELECT ... FOR UPDATE), reads everything else *)
(* from the snapshot of that moment (InnoDB, REPEATABLE READ), and commits. *)
(* A transaction is therefore two steps of the model: a Begin action, which *)
(* takes the lock and the snapshot, and Commit, which writes.  What happens *)
(* between handlers (an event to deliver, a promise to continue after the   *)
(* commit) lives in memory only and is lost in a Crash.                     *)
(****************************************************************************)
EXTENDS Integers, FiniteSets

CONSTANTS
  Step,           \* ids of process_instance_steps
  Proc,           \* ids of process_instances
  NoStep,         \* "parent_step_id IS NULL"
  ProcOf,         \* the process instance of a step
  Order,          \* step_order, copied from the template
  TaskType,       \* task_type, copied from the template
  Caller,         \* the call_process step that can spawn a process, or NoStep
  HasRequirement, \* steps with mandatory requirements (one stands for all)
  HasBinding,     \* steps with a mandatory create_on_enter object binding
  Trigger,        \* the kind of trigger condition of a step
  CallProcess,    \* feature flag PROCESS_CALL_PROCESS_ENABLED
  ConfigObjects,  \* feature flag PROCESS_CONFIG_OBJECT_STEPS_ENABLED
  ScanScope,      \* rows locked by the scan of enableNextSteps, see ScannedRows
  CanFail,        \* whether a transaction may fail (lock timeout, lost connection)
  MaxCrash,       \* bound: how often the server process may crash
  MaxEdits        \* bound: how many submissions, reviews and object edits users make

TaskTypes    == {"manual", "automated", "call_process", "config_object"}
TriggerKinds == {"none", "jsonlogic", "deferred"}

(* What the schema and the templates guarantee of the data. *)
ASSUME DataAssumption ==
  /\ NoStep \notin Step
  /\ ProcOf \in [Step -> Proc]
  /\ Order \in [Step -> Nat]
  /\ TaskType \in [Step -> TaskTypes]
  /\ Caller \in [Proc -> Step \cup {NoStep}]
  /\ \A p \in Proc : Caller[p] # NoStep => TaskType[Caller[p]] = "call_process"
  /\ HasRequirement \subseteq Step
  /\ HasBinding \subseteq Step
  /\ Trigger \in [Step -> TriggerKinds]

ASSUME FlagAssumption ==
  /\ CallProcess \in BOOLEAN
  /\ ConfigObjects \in BOOLEAN
  /\ ScanScope \in {"process", "order"}
  /\ CanFail \in BOOLEAN
  /\ MaxCrash \in Nat /\ MaxEdits \in Nat

VARIABLES
  stepStatus,  \* process_instance_steps.status, "absent" before the row exists
  procStatus,  \* process_instances.status, "absent" before the row exists
  reqStatus,   \* process_instance_step_requirements.status
  bindStatus,  \* process_instance_step_object_instances.status
  fired,       \* steps whose event or time trigger condition has come true
  announced,   \* processes whose host has been told onProcessCompleted
  tx,          \* the open transaction that holds the lock of a step row
  calls,       \* orchestrator calls in memory, not begun yet
  finalizing,  \* children committed completed, handleChildTerminal still to run
  dropped,     \* history: steps whose resume call was begun or queued, and lost
  crashes,     \* crashes so far
  edits        \* submissions, reviews and object edits so far

database == <<stepStatus, procStatus, reqStatus, bindStatus>>
memory   == <<tx, calls, finalizing>>
vars     == <<database, fired, announced, memory, dropped, crashes, edits>>

StepStates == {"absent", "pending", "ready", "in_progress", "blocked",
               "completed", "canceled"}
ProcStates == {"absent", "active", "completed", "canceled"}
ReqStates  == {"none", "pending", "approved"}
\* "broken" is the code's 'failed' with no instance linked to the binding row,
\* "failed" the same status on a row that does have one.
BindStates == {"pending", "active", "valid", "failed", "broken"}

Snapshots == [step : [Step -> StepStates], proc : [Proc -> ProcStates],
              req : [Step -> ReqStates], bind : [Step -> BindStates]]
TxOps     == {"advance", "complete", "resume"}
NoTx      == [op |-> "none"]
OpenTx    == [op : TxOps, met : BOOLEAN, snap : Snapshots]
CallSet   == [op : {"advance", "resume"}, step : Step]

(* The committed database, as a transaction that begins now will see it. *)
Db == [step |-> stepStatus, proc |-> procStatus,
       req |-> reqStatus, bind |-> bindStatus]

-----------------------------------------------------------------------------
(* Reading the data. *)

Advance(s) == [op |-> "advance", step |-> s]
Resume(s)  == [op |-> "resume", step |-> s]

Locked(s)     == tx[s] # NoTx
StepsOf(p)    == {s \in Step : ProcOf[s] = p}
FirstSteps(p) == {s \in StepsOf(p) : \A t \in StepsOf(p) : Order[s] <= Order[t]}
Successors(s) == {t \in StepsOf(ProcOf[s]) : Order[t] = Order[s] + 1}
Roots         == {p \in Proc : Caller[p] = NoStep}
IsCall(s)     == CallProcess /\ TaskType[s] = "call_process"
Bound(s)      == ConfigObjects /\ s \in HasBinding

(* checkStepGates: requirements approved and mandatory bindings valid in db. *)
Gates(db, s) ==
  /\ s \in HasRequirement => db.req[s] = "approved"
  /\ Bound(s) => db.bind[s] = "valid"

(* What TriggerEngineService.evaluate can return for the trigger of a step: a *)
(* jsonlogic expression may hold or not (it reads the clock); an event or     *)
(* time trigger is never true here, whatever has fired.                       *)
TriggerValues(s) ==
  CASE Trigger[s] = "none"      -> {TRUE}
    [] Trigger[s] = "jsonlogic" -> BOOLEAN
    [] Trigger[s] = "deferred"  -> {FALSE}

TriggerOutcomes ==
  {m \in [Step -> BOOLEAN] : \A s \in Step : m[s] \in TriggerValues(s)}

(* The status instantiateProcessIn inserts a step with. *)
InitialStatus(s) == IF Order[s] = 1 THEN "ready" ELSE "pending"

-----------------------------------------------------------------------------
Init ==
  /\ stepStatus = [s \in Step |-> "absent"]
  /\ procStatus = [p \in Proc |-> "absent"]
  /\ reqStatus  = [s \in Step |-> "none"]
  /\ bindStatus = [s \in Step |-> "pending"]
  /\ fired = {} /\ announced = {}
  /\ tx = [s \in Step |-> NoTx]
  /\ calls = {} /\ finalizing = {} /\ dropped = {}
  /\ crashes = 0 /\ edits = 0

(* ProcessLifecycleFacade.startProcess for a root process; the caller then    *)
(* advances the first step (several may share the lowest step_order).         *)
StartProcess(p) ==
  /\ p \in Roots /\ procStatus[p] = "absent"
  /\ procStatus' = [procStatus EXCEPT ![p] = "active"]
  /\ stepStatus' = [s \in Step |-> IF ProcOf[s] = p THEN InitialStatus(s)
                                                    ELSE stepStatus[s]]
  /\ IF StepsOf(p) = {} THEN UNCHANGED calls
     ELSE \E f \in FirstSteps(p) : calls' = calls \cup {Advance(f)}
  /\ UNCHANGED <<reqStatus, bindStatus, fired, announced, tx, finalizing, dropped,
                 crashes, edits>>

(* A user submits data for the requirement of a step: the requirement is      *)
(* approved at once or set (back) to pending, then the step is advanced.      *)
SubmitRequirement(s) ==
  /\ edits < MaxEdits /\ edits' = edits + 1
  /\ s \in HasRequirement /\ stepStatus[s] # "absent"
  /\ \E r \in {"pending", "approved"} : reqStatus' = [reqStatus EXCEPT ![s] = r]
  /\ calls' = calls \cup {Advance(s)}
  /\ UNCHANGED <<stepStatus, procStatus, bindStatus, fired, announced, tx,
                 finalizing, dropped, crashes>>

(* Mutant: an approval does not advance the step.                             *)
ReviewOnly(s) ==
  /\ edits < MaxEdits /\ edits' = edits + 1
  /\ s \in HasRequirement /\ reqStatus[s] # "none"
  /\ reqStatus' = [reqStatus EXCEPT ![s] = "approved"]
  /\ UNCHANGED <<stepStatus, procStatus, bindStatus, fired, announced, tx, calls,
                 finalizing, dropped, crashes>>

(* A reviewer approves a submission. *)
ReviewSubmission(s) ==
  /\ edits < MaxEdits /\ edits' = edits + 1
  /\ s \in HasRequirement /\ reqStatus[s] # "none"
  /\ reqStatus' = [reqStatus EXCEPT ![s] = "approved"]
  /\ calls' = calls \cup {Advance(s)}
  /\ UNCHANGED <<stepStatus, procStatus, bindStatus, fired, announced, tx,
                 finalizing, dropped, crashes>>

(* The object instance linked to a step's binding is edited and re-validated. *)
(* The locking read joins the step row, so it waits for the step's            *)
(* transaction.                                                               *)
ValidateBinding(s) ==
  /\ edits < MaxEdits /\ edits' = edits + 1
  /\ Bound(s) /\ bindStatus[s] \in {"active", "valid", "failed"} /\ ~Locked(s)
  /\ \E v \in {"valid", "failed"} :
       /\ bindStatus' = [bindStatus EXCEPT ![s] = v]
       /\ calls' = IF v = "valid" THEN calls \cup {Advance(s)} ELSE calls
  /\ UNCHANGED <<stepStatus, procStatus, reqStatus, fired, announced, tx,
                 finalizing, dropped, crashes>>

(* The awaited event arrives (the bridge marks the trigger met) or the timer  *)
(* job runs; either way the step is advanced.                                 *)
TriggerFires(s) ==
  /\ Trigger[s] = "deferred" /\ stepStatus[s] # "absent" /\ s \notin fired
  /\ fired' = fired \cup {s}
  /\ calls' = calls \cup {Advance(s)}
  /\ UNCHANGED <<database, announced, tx, finalizing, dropped, crashes, edits>>

-----------------------------------------------------------------------------
(* The orchestrator's transactions begin: lock, early returns, snapshot. *)

Open(s, op, m) ==
  tx' = [tx EXCEPT ![s] = [op |-> op, met |-> m, snap |-> Db]]

(* attemptAdvance. *)
BeginAdvance(s) ==
  /\ Advance(s) \in calls /\ ~Locked(s)
  /\ calls' = calls \ {Advance(s)}
  /\ IF stepStatus[s] \in {"absent", "completed", "canceled", "blocked"}
     THEN UNCHANGED tx
     ELSE \E m \in TriggerValues(s) : Open(s, "advance", m)
  /\ UNCHANGED <<database, fired, announced, finalizing, dropped, crashes, edits>>

(* Mutant: markCompleted accepts a blocked step.                              *)
BeginCompleteBlocked(s) ==
  /\ stepStatus[s] \in {"ready", "in_progress", "blocked"} /\ ~Locked(s)
  /\ Gates(Db, s)
  /\ Open(s, "complete", TRUE)
  /\ UNCHANGED <<database, fired, announced, calls, finalizing, dropped, crashes, edits>>

(* markCompleted, at a user's request; a refused request changes nothing. *)
BeginComplete(s) ==
  /\ stepStatus[s] \in {"ready", "in_progress"} /\ ~Locked(s)
  /\ Gates(Db, s)
  /\ Open(s, "complete", TRUE)
  /\ UNCHANGED <<database, fired, announced, calls, finalizing, dropped, crashes, edits>>

(* resumeParentAfterChildCallProcess, called by the bridge.  Its first plain   *)
(* read comes after its scan, so its snapshot may be younger than the wait for *)
(* the scanned rows; the model admits both, an older one being the harder case.*)
BeginResume(s) ==
  /\ Resume(s) \in calls /\ ~Locked(s)
  /\ calls' = calls \ {Resume(s)}
  /\ IF stepStatus[s] = "completed" THEN Open(s, "resume", TRUE) ELSE UNCHANGED tx
  /\ UNCHANGED <<database, fired, announced, finalizing, dropped, crashes, edits>>

-----------------------------------------------------------------------------
(* What the transaction open on step s will write. *)

(* attemptAdvance finds its pending step eligible. *)
Opens(s) ==
  /\ tx[s].op = "advance" /\ tx[s].snap.step[s] = "pending"
  /\ Gates(tx[s].snap, s) /\ tx[s].met

(* The transaction completes its step, or has found it completed (resume). *)
Completes(s) ==
  \/ tx[s].op \in {"complete", "resume"}
  \/ /\ tx[s].op = "advance" /\ tx[s].snap.step[s] \in {"pending", "ready"}
     /\ TaskType[s] = "automated"
     /\ Gates(tx[s].snap, s) /\ tx[s].met

(* Mutant: the scan is a plain read, without FOR UPDATE.                      *)
EnabledBySnapshot(s, m) ==
  IF ~Completes(s) THEN {}
  ELSE {t \in Successors(s) :
          tx[s].snap.step[t] = "pending" /\ Gates(tx[s].snap, t) /\ m[t]}

(* enableNextSteps: the pending successors whose gates and triggers hold. The *)
(* scan is a locking read, it sees the committed status; gates are read from  *)
(* the snapshot.                                                              *)
Enabled(s, m) ==
  IF ~Completes(s) THEN {}
  ELSE {t \in Successors(s) :
          stepStatus[t] = "pending" /\ Gates(tx[s].snap, t) /\ m[t]}

(* Mutant: the scan locks the rows it returns only.                           *)
ScannedSuccessors(s) == IF ~Completes(s) THEN {} ELSE Successors(s) \ {s}

(* The rows the scan of enableNextSteps locks.  InnoDB locks every row it     *)
(* reads: all rows of the process if the index used is the foreign key's on   *)
(* process_instance_id, those of the next order with a composite index.       *)
ScannedRows(s) ==
  IF ~Completes(s) THEN {}
  ELSE (IF ScanScope = "process" THEN StepsOf(ProcOf[s]) ELSE Successors(s)) \ {s}

(* spawnChildAndBlockParent starts a child unless the snapshot shows one. *)
Spawning(s, m) ==
  {t \in Enabled(s, m) \cup (IF Opens(s) THEN {s} ELSE {}) :
     /\ IsCall(t)
     /\ \A c \in Proc : Caller[c] = t => tx[s].snap.proc[c] = "absent"}

(* What the transaction leaves the status of its own step at.                 *)
OpenStatus(t) == IF IsCall(t) THEN "blocked" ELSE "ready"

OwnStatus(s) ==
  IF Completes(s) THEN "completed"
  ELSE IF Opens(s) THEN OpenStatus(s) ELSE stepStatus[s]

(* Mutant: a ready step does not keep its process from completing.            *)
AllDoneButReady(s) ==
  \A t \in StepsOf(ProcOf[s]) \ {s} : tx[s].snap.step[t] \in {"ready", "completed"}

(* areAllStepsCompleted, read from the snapshot and the transaction's own     *)
(* writes (a step it has just enabled was pending in the snapshot too).       *)
AllDone(s) ==
  \A t \in StepsOf(ProcOf[s]) \ {s} : tx[s].snap.step[t] = "completed"

(* ProcessCompletionService.evaluate on the same view. *)
CanComplete(s) ==
  /\ \A t \in StepsOf(ProcOf[s]) \ {s} :
       tx[s].snap.step[t] \in {"completed", "canceled"}
  /\ \A c \in Proc :
       (Caller[c] # NoStep /\ ProcOf[Caller[c]] = ProcOf[s]) =>
         tx[s].snap.proc[c] \in {"absent", "completed", "canceled"}
  /\ \A t \in StepsOf(ProcOf[s]) : Bound(t) => tx[s].snap.bind[t] = "valid"

(* Mutant: maybeCompleteJob forgets that a root has no parent to report to.   *)
ChildDoneOrRoot(s) == Completes(s) /\ AllDone(s)

(* maybeCompleteJob, first half: a child whose steps are all completed is     *)
(* marked completed, and reported to its parent if its status then reads      *)
(* completed.                                                                 *)
ChildDone(s) ==
  /\ Completes(s) /\ AllDone(s) /\ Caller[ProcOf[s]] # NoStep

(* Mutants: the child is reported before it is done; the child's status is    *)
(* read before it is updated.                                                 *)
ChildReportedEarly(s) == Completes(s) /\ Caller[ProcOf[s]] # NoStep
ChildReportedStale(s) ==
  ChildDone(s) /\ tx[s].snap.proc[ProcOf[s]] = "completed"

ChildReported(s) ==
  /\ ChildDone(s)
  /\ procStatus[ProcOf[s]] = "active" \/ tx[s].snap.proc[ProcOf[s]] = "completed"

(* canCompleteJob of the host adapters: every step is completed.              *)
HostAgrees(s) == AllDone(s)

(* maybeCompleteJob, second half: when the engine's rules and the host agree  *)
(* the host is told, after its process is marked completed if all steps are.  *)
TellsHost(s) ==
  /\ Completes(s) /\ ~ChildReported(s) /\ CanComplete(s) /\ HostAgrees(s)
JobDone(s) == TellsHost(s) /\ AllDone(s)

(* provisionBindingsOnStepReady: a pending binding of a ready step gets an    *)
(* instance ("active"), or is marked failed.                                  *)
Provisioning(s) ==
  /\ tx[s].op = "advance" /\ tx[s].snap.step[s] = "ready"
  /\ Bound(s) /\ bindStatus[s] = "pending"

(* The transaction ends: it opens the steps in enabled, starts the processes  *)
(* in children, one for each call_process step among those, and settles its   *)
(* own step and process.                                                      *)
Write(s, enabled, children) ==
  /\ stepStatus' = [t \in Step |->
       IF ProcOf[t] \in children THEN InitialStatus(t)
       ELSE IF t = s THEN OwnStatus(s)
       ELSE IF t \in enabled THEN OpenStatus(t)
       ELSE stepStatus[t]]
  /\ procStatus' = [p \in Proc |->
       IF p \in children THEN "active"
       ELSE IF p = ProcOf[s] /\ procStatus[p] = "active" /\ (ChildDone(s) \/ JobDone(s))
            THEN "completed"
       ELSE procStatus[p]]
  /\ announced' = IF TellsHost(s) THEN announced \cup {ProcOf[s]} ELSE announced
  /\ finalizing' = IF ChildReported(s) THEN finalizing \cup {ProcOf[s]} ELSE finalizing

(* Process ids not in use that can become the children of the steps in callers.*)
NewChildren(callers) ==
  {children \in SUBSET {c \in Proc : Caller[c] \in callers /\ procStatus[c] = "absent"} :
     \A t \in callers : \E c \in children :
       Caller[c] = t /\ \A d \in children : Caller[d] = t => d = c}

(* Commit first needs the rows that its scan locks. *)
Commit(s) ==
  /\ Locked(s)
  /\ \A t \in ScannedRows(s) : ~Locked(t)
  /\ \E m \in TriggerOutcomes : \E children \in NewChildren(Spawning(s, m)) :
       Write(s, Enabled(s, m), children)
  /\ IF Provisioning(s)
     THEN \E r \in {"active", "broken"} : bindStatus' = [bindStatus EXCEPT ![s] = r]
     ELSE UNCHANGED bindStatus
  /\ tx' = [tx EXCEPT ![s] = NoTx]
  /\ UNCHANGED <<reqStatus, fired, calls, dropped, crashes, edits>>

-----------------------------------------------------------------------------
(* Mutants: handleChildTerminal reports without completing the parent's step, *)
(* as it does for a canceled child; it completes the step without a report.   *)
HandleChildTerminalPauses(c) ==
  /\ c \in finalizing /\ ~Locked(Caller[c])
  /\ finalizing' = finalizing \ {c}
  /\ UNCHANGED <<database, fired, announced, tx, calls, dropped, crashes, edits>>
HandleChildTerminalSilent(c) ==
  /\ c \in finalizing /\ ~Locked(Caller[c])
  /\ finalizing' = finalizing \ {c}
  /\ stepStatus' = [stepStatus EXCEPT ![Caller[c]] = "completed"]
  /\ UNCHANGED <<procStatus, reqStatus, bindStatus, fired, announced, tx, calls,
                 dropped, crashes, edits>>

(* After the commit: handleChildTerminal(c, 'completed') completes the        *)
(* parent's call_process step, whatever its status, and emits                 *)
(* process_child_completed, which the bridge turns into a resume call.        *)
HandleChildTerminal(c) ==
  /\ c \in finalizing /\ ~Locked(Caller[c])
  /\ finalizing' = finalizing \ {c}
  /\ stepStatus' = [stepStatus EXCEPT ![Caller[c]] = "completed"]
  /\ calls' = calls \cup {Resume(Caller[c])}
  /\ UNCHANGED <<procStatus, reqStatus, bindStatus, fired, announced, tx, dropped,
                 crashes, edits>>

(* Failures.  A failed transaction is rolled back and its caller gets the     *)
(* error: no code of the engine tries again.  A user may repeat a request; a  *)
(* resume rolled back, or still queued when the process dies, is lost.        *)
Resuming(s) == Resume(s) \in calls \/ tx[s].op = "resume"

RollBack(s) ==
  /\ tx' = [tx EXCEPT ![s] = NoTx]
  /\ dropped' = IF tx[s].op = "resume" THEN dropped \cup {s} ELSE dropped

Abort(s) ==
  /\ CanFail /\ Locked(s)
  /\ RollBack(s)
  /\ UNCHANGED <<database, fired, announced, calls, finalizing, crashes, edits>>

(* handleChildTerminal fails after the child's commit: nothing calls it again. *)
AbortChildTerminal(c) ==
  /\ CanFail /\ c \in finalizing
  /\ finalizing' = finalizing \ {c}
  /\ UNCHANGED <<database, fired, announced, tx, calls, dropped, crashes, edits>>

(* Two transactions wait for each other's row: InnoDB rolls one of them back. *)
DeadlockVictim(s) ==
  /\ Locked(s)
  /\ \E t \in ScannedRows(s) : Locked(t) /\ s \in ScannedRows(t)
  /\ RollBack(s)
  /\ UNCHANGED <<database, fired, announced, calls, finalizing, crashes, edits>>

(* The server process dies: open transactions roll back, memory is lost. *)
Crash ==
  /\ crashes < MaxCrash
  /\ crashes' = crashes + 1
  /\ tx' = [s \in Step |-> NoTx]
  /\ dropped' = dropped \cup {s \in Step : Resuming(s)}
  /\ calls' = {} /\ finalizing' = {}
  /\ UNCHANGED <<database, fired, announced, edits>>

-----------------------------------------------------------------------------
Users ==
  \/ \E p \in Proc : StartProcess(p)
  \/ \E s \in Step :
       \/ SubmitRequirement(s) \/ ReviewSubmission(s) \/ ValidateBinding(s)
       \/ TriggerFires(s) \/ BeginComplete(s)

Engine ==
  \/ \E s \in Step :
       BeginAdvance(s) \/ BeginResume(s) \/ Commit(s) \/ DeadlockVictim(s)
  \/ \E c \in Proc : HandleChildTerminal(c)

Failures ==
  \/ Crash
  \/ \E s \in Step : Abort(s)
  \/ \E c \in Proc : AbortChildTerminal(c)

Next == Users \/ Engine \/ Failures

(* The server works off its event queue and continues after a commit, and     *)
(* InnoDB grants a row lock that has become free, to the transaction waiting  *)
(* for it before any newcomer: the user who repeats a request rolled back in  *)
(* a deadlock cannot keep every transaction from committing.  Users need do   *)
(* nothing.                                                                   *)
Fairness ==
  /\ \A s \in Step : /\ WF_vars(BeginAdvance(s)) /\ WF_vars(BeginResume(s))
                     /\ WF_vars(Commit(s)) /\ WF_vars(DeadlockVictim(s))
  /\ \A c \in Proc : WF_vars(HandleChildTerminal(c))
  /\ SF_vars(\E s \in Step : Commit(s))

Spec     == Init /\ [][Next]_vars
FairSpec == Spec /\ Fairness

-----------------------------------------------------------------------------
(* Type invariant of the whole module. *)
TypeOK ==
  /\ stepStatus \in [Step -> StepStates]
  /\ procStatus \in [Proc -> ProcStates]
  /\ reqStatus \in [Step -> ReqStates]
  /\ bindStatus \in [Step -> BindStates]
  /\ fired \subseteq Step
  /\ announced \subseteq Proc
  /\ tx \in [Step -> OpenTx \cup {NoTx}]
  /\ calls \subseteq CallSet
  /\ finalizing \subseteq {c \in Proc : Caller[c] # NoStep}
  /\ dropped \subseteq Step
  /\ crashes \in Nat /\ edits \in Nat

-----------------------------------------------------------------------------
(* Safety. *)

(* The contract of ProcessLifecycle, on this module's statuses. *)
Lifecycle == INSTANCE ProcessLifecycle WITH
  stepStatus <- stepStatus, procStatus <- procStatus

(* A process instance is marked completed only when each of its steps is, by  *)
(* whichever of maybeCompleteJob's two updates, from whatever snapshot.       *)
CompletedProcessIsDone == Lifecycle!CompletedProcessIsDone

(* A call_process step other than a first one completes only through a child  *)
(* process that has completed: markCompleted and attemptAdvance cannot        *)
(* complete it behind the child's back.                                       *)
CallStepCompletesThroughChild == Lifecycle!CallStepCompletesThroughChild

(* A step spawns at most one child, and a child exists exactly while its step *)
(* is blocked or after it has completed, although enableNextSteps and         *)
(* attemptAdvance may both find the step eligible.                            *)
OneChildPerCallStep == Lifecycle!OneChildPerCallStep

(* A host hears onProcessCompleted only of a process that is completed.       *)
HostToldOnlyWhenCompleted == \A p \in announced : procStatus[p] = "completed"

(* A blocked step always has somebody to unblock it: a child still active, or *)
(* a completed child whose handleChildTerminal is still to run.  Holds as     *)
(* long as the server process neither crashes nor drops that call.            *)
BlockedStepWillBeResumed ==
  \A s \in Step : stepStatus[s] = "blocked" =>
    \E c \in Proc : /\ Caller[c] = s
                    /\ procStatus[c] = "active" \/ c \in finalizing

(* When the steps of a process are all completed and no transaction or resume *)
(* call of the process is under way, the process is completed: two            *)
(* transactions that complete the last two steps at the same time cannot each *)
(* leave the completion to the other.  Roots with object bindings excepted:   *)
(* a binding found invalid after its step completed bars the completion.      *)
(* One way to lose it is left: the resume of a call step that falls victim to *)
(* a deadlock, or is lost otherwise, is the last that would have looked.      *)
NoLostCompletion ==
  \A p \in Proc :
    (/\ StepsOf(p) # {} /\ (p \in Roots => \A s \in StepsOf(p) : ~Bound(s))
     /\ \A s \in StepsOf(p) : /\ stepStatus[s] = "completed" /\ ~Locked(s)
                              /\ Resume(s) \notin calls /\ s \notin dropped)
      => procStatus[p] = "completed"

(* The engine implements the atomic contract of ProcessLifecycle: although    *)
(* decisions are taken on a snapshot and written at the commit, every commit  *)
(* is a move the current statuses allow, and what is completed stays so.      *)
ImplementsLifecycle == Lifecycle!Spec

(* The inductive invariant.  A row lock keeps the status of the step as its   *)
(* transaction found it; other rows may have moved on since its snapshot, but *)
(* what was completed in the snapshot still is, and what existed exists.      *)
LockedRowUnchanged ==
  \A s \in Step : Locked(s) =>
    /\ stepStatus[s] = tx[s].snap.step[s]
    /\ stepStatus[s] \in CASE tx[s].op = "advance"  -> {"pending", "ready"}
                           [] tx[s].op = "complete" -> {"ready"}
                           [] tx[s].op = "resume"   -> {"completed"}

SnapshotsLag ==
  \A s \in Step : Locked(s) =>
    /\ \A t \in Step : tx[s].snap.step[t] = "completed" => stepStatus[t] = "completed"
    /\ \A p \in Proc :
         /\ tx[s].snap.proc[p] = "completed" => procStatus[p] = "completed"
         /\ procStatus[p] = "absent" => tx[s].snap.proc[p] = "absent"

FinalizingIsCompleted == \A c \in finalizing : procStatus[c] = "completed"

SafetyInv ==
  /\ TypeOK
  /\ Lifecycle!Inv
  /\ LockedRowUnchanged
  /\ SnapshotsLag
  /\ FinalizingIsCompleted
  /\ HostToldOnlyWhenCompleted

-----------------------------------------------------------------------------
(* Liveness, under FairSpec and without failures. *)

(* When a child process completes, its parent's step completes.               *)
ChildCompletionReachesParent ==
  \A c \in Proc \ Roots :
    (procStatus[c] = "completed") ~> (stepStatus[Caller[c]] = "completed")

(* "After a call_process parent step completes (child finished), unlock       *)
(* following steps": a successor without conditions of its own leaves pending,*)
(* unless the resume that unlocks it was rolled back: it is not repeated.     *)
ChildCompletionUnlocksSuccessors ==
  \A s \in {c \in Step : IsCall(c)} : \A t \in Successors(s) \ HasRequirement :
    (/\ stepStatus[s] = "completed"
     /\ Trigger[t] = "none" /\ ~Bound(t))
       ~> (stepStatus[t] # "pending" \/ s \in dropped)

(* Once the requirement of a pending step without other conditions is         *)
(* approved, the step leaves pending, unless the approval is taken back:      *)
(* whichever snapshots the transactions on its row and its predecessor's read.*)
(* Automated steps excepted: their advance also scans other rows, may be the  *)
(* victim of a deadlock, and is not repeated.                                 *)
ApprovalOpensStep ==
  \A s \in {t \in HasRequirement : TaskType[t] # "automated"} :
    (/\ stepStatus[s] = "pending" /\ reqStatus[s] = "approved"
     /\ Trigger[s] = "none" /\ ~Bound(s))
       ~> (stepStatus[s] # "pending" \/ reqStatus[s] # "approved")
=============================================================================
