---------------------------- MODULE ProjectBoard ----------------------------
(****************************************************************************)
(* A project that hosts a process: the engine of ProcessEngine composed     *)
(* with ProjectHostAdapter, which shows every step of the project's process *)
(* as a card (a row of tasks) on the project's board, and with the users,   *)
(* who move cards and edit the project while the engine runs.               *)
(*                                                                          *)
(* The adapter is called inside the engine's transactions, so its writes    *)
(* belong to Commit.  A user's update is not a transaction: it reads the    *)
(* row, asks ConfigLifecycleService whether the configured lifecycle allows *)
(* the change, and then writes, whatever has happened in between.  A patch  *)
(* of a configured object (ConfigObjectsService) is one transaction, which  *)
(* asks nobody.                                                             *)
(****************************************************************************)
EXTENDS ProcessEngine

CONSTANTS
  Job,           \* the process of the project
  TheProject,    \* the row of the project, as opposed to the cards of its steps
  TaskGraph,     \* config_object_lifecycle_transitions of the "task" object
  ProjectGraph,  \* the same of the "project" object
  MaxUpdates     \* bound: how many cards and projects users write

ProjectStates == {"active", "completed", "canceled", "on_hold", "archived"}
EngineStates  == StepStates \ {"absent"}

ASSUME BoardAssumption ==
  /\ Job \in Proc /\ Caller[Job] = NoStep
  /\ TheProject \notin Step
  /\ TaskGraph \subseteq EngineStates \X EngineStates
  /\ ProjectGraph \subseteq ProjectStates \X ProjectStates
  /\ MaxUpdates \in Nat

VARIABLES
  shown,    \* the board column of a card, the status of the project
  manual,   \* the cards whose status_control is "manual"
  spared,   \* the same in the snapshot of each open transaction
  updates,  \* users' updates that are validated and not written yet
  byUser,   \* history: the rows last written, or taken over, by a user
  written   \* updates begun so far

board     == <<shown, manual, spared, updates, byUser, written>>
boardVars == <<vars, board>>

Cells == StepsOf(Job) \cup {TheProject}

(* Mutant: the board shows the engine's own names.                            *)
EngineName(st) == st

(* defaultMap: the board column a status of the engine is shown in. *)
Column(st) ==
  CASE st = "pending"     -> "To Do"
    [] st = "ready"       -> "Ready"
    [] st = "in_progress" -> "In Progress"
    [] st = "blocked"     -> "Blocked"
    [] OTHER              -> "Done"

(* defaultStatuses: the columns a new project's board is given. *)
Columns   == {"To Do", "Ready", "In Progress", "Blocked", "Done"}
Places(c) == IF c = TheProject THEN ProjectStates ELSE Columns

(* Mutant: the lifecycle is not asked.                                        *)
AllowedAlways(c, from, to) == TRUE

(* validateTaskStatusTransition, validateProjectStatusTransition.  The state  *)
(* of a column is looked up backwards; "Done" stands for two states, and the  *)
(* query takes either.                                                        *)
Allowed(c, from, to) ==
  \/ from = to
  \/ c = TheProject /\ <<from, to>> \in ProjectGraph
  \/ c # TheProject /\ \E e \in TaskGraph : Column(e[1]) = from /\ Column(e[2]) = to

-----------------------------------------------------------------------------
BoardInit ==
  /\ Init
  /\ shown = [c \in Cells |-> "none"]
  /\ manual = {} /\ spared = [s \in Step |-> {}]
  /\ updates = {} /\ byUser = {} /\ written = 0

(* ProjectsService.create: the project, its board, its process and a card for *)
(* each step (under the host's control), in one transaction; then the first   *)
(* step is advanced.                                                          *)
CreateProject ==
  /\ StartProcess(Job)
  /\ \E st \in ProjectStates :
       /\ shown' = [c \in Cells |-> IF c = TheProject THEN st ELSE Column(InitialStatus(c))]
       /\ byUser' = IF st = "active" THEN {} ELSE {TheProject}
  /\ manual' = {} /\ UNCHANGED <<spared, updates, written>>

(* Mutant: only the transaction's own step is dispatched to the host.         *)
ToldOwn(s) == {s} \cap {t \in StepsOf(Job) : stepStatus'[t] # stepStatus[t]}

(* dispatchStepStateChanged: the steps of the project's process whose new     *)
(* status the transaction of s reports to the host.  A step that is blocked   *)
(* to wait for a child is not reported (nor is its return, see HandleChild).  *)
Told(s) ==
  {t \in StepsOf(Job) : stepStatus'[t] # stepStatus[t] /\ stepStatus'[t] # "blocked"}

(* Mutant: the project is closed with its first completed step.               *)
ClosesEarly(s) == ProcOf[s] = Job /\ Completes(s)

(* onProcessCompleted of the host. *)
Closes(s) == ProcOf[s] = Job /\ TellsHost(s)

(* syncTaskColumn leaves a card alone whose status_control is "manual", which *)
(* it reads from the snapshot.                                                *)
Moved(s)      == Told(s) \ spared[s]
HostWrites(s) == Moved(s) \cup (IF Closes(s) THEN {TheProject} ELSE {})

Overtaken(u, cells) == [u EXCEPT !.stale = u.stale \/ u.cell \in cells]

(* A transaction of the engine with what the host does in it: syncTaskColumn  *)
(* for the steps it is told of, and the completion of the project.  A card    *)
(* taken over while the transaction was open is moved and stays the user's.   *)
CommitWithHost(s) ==
  /\ Commit(s)
  /\ shown' = [c \in Cells |->
       IF c \in Moved(s) THEN Column(stepStatus'[c])
       ELSE IF c = TheProject /\ Closes(s) THEN "completed" ELSE shown[c]]
  /\ updates' = {Overtaken(u, HostWrites(s)) : u \in updates}
  /\ byUser' = byUser \ (HostWrites(s) \ manual)
  /\ spared' = [spared EXCEPT ![s] = {}]
  /\ UNCHANGED <<manual, written>>

(* TasksService.update, ProjectsService.update: read and validate ...         *)
BeginUpdate(c, to) ==
  /\ written < MaxUpdates /\ written' = written + 1
  /\ shown[c] # "none" /\ Allowed(c, shown[c], to)
  /\ updates' = updates \cup {[cell |-> c, to |-> to, stale |-> FALSE]}
  /\ UNCHANGED <<vars, shown, manual, spared, byUser>>

(* ... and write. *)
FinishUpdate(u) ==
  /\ u \in updates
  /\ shown' = [shown EXCEPT ![u.cell] = u.to]
  /\ updates' = {Overtaken(v, {u.cell}) : v \in updates \ {u}}
  /\ byUser' = byUser \cup {u.cell}
  /\ UNCHANGED <<vars, manual, spared, written>>

(* applySorBoundInstancePatch of the project: a transaction that reads the    *)
(* row and saves it with the fields of the patch, the status among them, and  *)
(* does not ask the lifecycle.  (A save of what the row says writes nothing.) *)
PatchProject(to) ==
  /\ written < MaxUpdates /\ written' = written + 1
  /\ shown[TheProject] \notin {"none", to}
  /\ shown' = [shown EXCEPT ![TheProject] = to]
  /\ updates' = {Overtaken(u, {TheProject}) : u \in updates}
  /\ byUser' = byUser \cup {TheProject}
  /\ UNCHANGED <<vars, manual, spared>>

(* A patch or an update of a card's statusControl: taken from the host, the   *)
(* card is the user's; given back, it is where it was until the host moves it.*)
SetControl(c) ==
  /\ written < MaxUpdates /\ written' = written + 1
  /\ shown[c] # "none"
  /\ \/ c \notin manual /\ manual' = manual \cup {c} /\ byUser' = byUser \cup {c}
     \/ c \in manual /\ manual' = manual \ {c} /\ UNCHANGED byUser
  /\ UNCHANGED <<vars, shown, spared, updates>>

(* The server process dies: updates not written are lost. *)
CrashWithBoard ==
  /\ Crash
  /\ updates' = {} /\ spared' = [s \in Step |-> {}]
  /\ UNCHANGED <<shown, manual, byUser, written>>

(* Everything else the engine does leaves the board alone; the return of a    *)
(* child, HandleChildTerminal, completes the calling step without a dispatch. *)
HandleChild(c) == HandleChildTerminal(c) /\ UNCHANGED board

BeginStep(s) ==
  /\ BeginAdvance(s) \/ BeginComplete(s) \/ BeginResume(s)
  /\ spared' = [spared EXCEPT ![s] = IF tx'[s] = NoTx THEN {} ELSE manual]
  /\ UNCHANGED <<shown, manual, updates, byUser, written>>

UserInput(s) ==
  /\ SubmitRequirement(s) \/ ReviewSubmission(s) \/ ValidateBinding(s) \/ TriggerFires(s)
  /\ UNCHANGED board

LoseStep(s) ==
  /\ Abort(s) \/ DeadlockVictim(s)
  /\ spared' = [spared EXCEPT ![s] = {}]
  /\ UNCHANGED <<shown, manual, updates, byUser, written>>

LoseChild(c) == AbortChildTerminal(c) /\ UNCHANGED board

-----------------------------------------------------------------------------
BoardNext ==
  \/ CreateProject \/ CrashWithBoard
  \/ \E s \in Step :
       CommitWithHost(s) \/ BeginStep(s) \/ UserInput(s) \/ LoseStep(s)
  \/ \E c \in Proc : HandleChild(c) \/ LoseChild(c)
  \/ \E c \in Cells : \E to \in Places(c) : BeginUpdate(c, to)
  \/ \E u \in updates : FinishUpdate(u)
  \/ \E to \in ProjectStates : PatchProject(to)
  \/ \E c \in StepsOf(Job) : SetControl(c)

BoardSpec == BoardInit /\ [][BoardNext]_boardVars

-----------------------------------------------------------------------------
UpdateSet == [cell : Cells, to : ProjectStates \cup Columns, stale : BOOLEAN]

(* Type invariant of the board.  A card under manual control is a user's. *)
BoardTypeOK ==
  /\ shown \in [Cells -> ProjectStates \cup Columns \cup {"none"}]
  /\ \A c \in Cells : shown[c] \in Places(c) \cup {"none"}
  /\ updates \subseteq UpdateSet
  /\ \A u \in updates : u.to \in Places(u.cell)
  /\ byUser \subseteq Cells
  /\ manual \subseteq byUser \ {TheProject}
  /\ spared \in [Step -> SUBSET StepsOf(Job)]
  /\ written \in Nat

(* A call_process step that waits or has waited for a child is not reported.  *)
Unreported(s) == IsCall(s) /\ Order[s] # 1

(* A card stands where the engine's status of its step says, however the step *)
(* got there (its own call, its predecessor's scan, an advance that overtook  *)
(* it), until a user moves it or takes it over.  The card of a call_process   *)
(* step is the exception: nothing ever moves it out of "To Do", neither when  *)
(* the step blocks nor when its child has returned.                           *)
CardFollowsStep ==
  \A s \in StepsOf(Job) \ byUser : procStatus[Job] # "absent" =>
    shown[s] = IF Unreported(s) THEN "To Do" ELSE Column(stepStatus[s])

(* Unless a user set its status, the project is completed exactly when its    *)
(* process is, whichever transaction completes the process, and whatever a    *)
(* user's stale update wrote before.                                          *)
ProjectClosesWithProcess ==
  TheProject \notin byUser =>
    (shown[TheProject] = "completed" <=> procStatus[Job] = "completed")

(* A graph without a way back from completed (nor canceled, which shares the  *)
(* column of completed).                                                      *)
DoneIsFinal ==
  /\ \A e \in TaskGraph : Column(e[1]) = "Done" => Column(e[2]) = "Done"
  /\ \A e \in ProjectGraph : e[1] = "completed" => e[2] = "completed"

Final(c) ==
  \/ c = TheProject /\ shown[c] = "completed"
  \/ c # TheProject /\ shown[c] = "Done" /\ stepStatus[c] = "completed"

(* With such a graph the card of a completed step stays in "Done" and a       *)
(* completed project stays completed, but for two things: an update validated *)
(* before and written after the change, by the engine or by another user, and *)
(* the patch of a configured object, which the lifecycle is not asked about.  *)
DoneStays ==
  [][\A c \in Cells : DoneIsFinal /\ Final(c) /\ shown'[c] # shown[c] =>
       \/ \E u \in updates : u.cell = c /\ u.stale /\ u.to = shown'[c]
       \/ c = TheProject /\ PatchProject(shown'[c])]_boardVars
=============================================================================
