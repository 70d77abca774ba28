------------------------- MODULE ProjectBoardProofs -------------------------
(****************************************************************************)
(* Proofs about ProjectBoard, for every project, process and lifecycle      *)
(* graph.  The composition leaves the engine as it is, so what is proved of *)
(* the engine is at hand: what a commit may do to a step of the project's   *)
(* process is a move of ProcessLifecycle, and the board follows the moves.  *)
(****************************************************************************)
EXTENDS ProjectBoard, ProcessEngineProofs

(* Every step of the composition is a step of the engine, or leaves it alone. *)
LEMMA BoardStepRunsEngine == [BoardNext]_boardVars => [Next]_vars
<1> SUFFICES ASSUME [BoardNext]_boardVars PROVE [Next]_vars
  OBVIOUS
<1>1. CASE CreateProject
  BY <1>1, BoardAssumption DEF CreateProject, Next, Users
<1>2. CASE CrashWithBoard
  BY <1>2 DEF CrashWithBoard, Next, Failures
<1>3. ASSUME NEW s \in Step, CommitWithHost(s) \/ BeginStep(s) \/ UserInput(s) \/ LoseStep(s)
      PROVE  Next
  BY <1>3 DEF CommitWithHost, BeginStep, UserInput, LoseStep, Next, Users, Engine, Failures
<1>4. ASSUME NEW c \in Proc, HandleChild(c) \/ LoseChild(c)
      PROVE  Next
  BY <1>4 DEF HandleChild, LoseChild, Next, Engine, Failures
<1>5. ASSUME NEW c \in Cells, NEW to \in Places(c), BeginUpdate(c, to)
      PROVE  UNCHANGED vars
  BY <1>5 DEF BeginUpdate
<1>6. ASSUME NEW u \in updates, FinishUpdate(u)
      PROVE  UNCHANGED vars
  BY <1>6 DEF FinishUpdate
<1>7. CASE UNCHANGED boardVars
  BY <1>7 DEF boardVars
<1>8. ASSUME NEW to \in ProjectStates, PatchProject(to)
      PROVE  UNCHANGED vars
  BY <1>8 DEF PatchProject
<1>9. ASSUME NEW c \in StepsOf(Job), SetControl(c)
      PROVE  UNCHANGED vars
  BY <1>9 DEF SetControl
<1> QED
  BY <1>1, <1>2, <1>3, <1>4, <1>5, <1>6, <1>7, <1>8, <1>9 DEF BoardNext

(* A project on top of it does not disturb the engine: each of its behaviours *)
(* is one of the engine's, whose theorems all hold in the composition.        *)
THEOREM BoardRunsEngine == BoardSpec => Spec
<1>1. BoardInit => Init
  BY DEF BoardInit
<1> QED
  BY <1>1, BoardStepRunsEngine, PTL DEF BoardSpec, Spec

-----------------------------------------------------------------------------
(* What the engine does to the steps of the project's process.                *)

(* First steps never wait, and a blocked step is one that is not reported.    *)
Calling ==
  \A s \in Step :
    /\ stepStatus[s] = "pending" => Order[s] # 1
    /\ stepStatus[s] = "blocked" => Unreported(s)

LEMMA CallingStep ==
  ASSUME SafetyInv, Calling, [Next]_vars
  PROVE  Calling'
<1> SUFFICES ASSUME NEW s \in Step
             PROVE  /\ stepStatus'[s] = "pending" => Order[s] # 1
                    /\ stepStatus'[s] = "blocked" => Unreported(s)
  BY DEF Calling, Unreported, IsCall
<1>1. CASE Lifecycle!StepMoves(s)
  BY <1>1 DEF Calling, Unreported, IsCall, Lifecycle!StepMoves, Lifecycle!StepBegins,
     Lifecycle!StepOpens, Lifecycle!StepCalls, Lifecycle!StepCompletes,
     Lifecycle!StepReturns, Lifecycle!StepFrom, Lifecycle!IsCall
<1>2. CASE UNCHANGED Lifecycle!vars
  BY <1>2 DEF Calling, Lifecycle!vars
<1> QED
  BY <1>1, <1>2, StepRefines DEF Lifecycle!Next

(* A commit does not start the project's process (it has no caller), and      *)
(* completes it exactly when it tells the host so.                            *)
LEMMA CommitCloses ==
  ASSUME SafetyInv, NEW s \in Step, Commit(s)
  PROVE  /\ procStatus'[Job] = IF Closes(s) THEN "completed" ELSE procStatus[Job]
         /\ Closes(s) => procStatus[Job] # "absent"
<1> USE BoardAssumption
<1>1. Locked(s)
  BY DEF Commit
<1>m. PICK m \in TriggerOutcomes :
        \E children \in NewChildren(Spawning(s, m)) : Write(s, Enabled(s, m), children)
  BY DEF Commit
<1>2. PICK children \in NewChildren(Spawning(s, m)) : Write(s, Enabled(s, m), children)
  BY <1>m
<1>3. Job \notin children
  <2> SUFFICES ASSUME Job \in children PROVE FALSE
    OBVIOUS
  <2>1. Caller[Job] \in Step
    BY <1>1, SpawnedNew
  <2> QED
    BY <2>1, DataAssumption DEF DataAssumption
<1>4. procStatus[ProcOf[s]] \in {"active", "completed"}
  BY <1>1, LockedTx
<1>5. procStatus'[Job] =
        IF Job = ProcOf[s] /\ procStatus[Job] = "active" /\ (ChildDone(s) \/ JobDone(s))
        THEN "completed" ELSE procStatus[Job]
  BY <1>2, <1>3 DEF Write
<1>6. Job = ProcOf[s] => ~ChildDone(s)
  BY DEF ChildDone
<1>7. JobDone(s) <=> TellsHost(s)
  BY DEF JobDone, TellsHost, HostAgrees
<1> QED
  BY <1>4, <1>5, <1>6, <1>7 DEF Closes

(* A commit leaves a step of the project's process, or blocks an unreported   *)
(* one, or moves a reported one.                                              *)
LEMMA CommitCards ==
  ASSUME SafetyInv, Calling, NEW s \in Step, Commit(s), NEW t \in StepsOf(Job)
  PROVE  \/ stepStatus'[t] = stepStatus[t]
         \/ stepStatus'[t] = "blocked" /\ Unreported(t)
         \/ stepStatus'[t] \in {"ready", "completed"} /\ ~Unreported(t)
<1>0. t \in Step /\ ProcOf[t] = Job
  BY DEF StepsOf
<1>1. Lifecycle!StepMoves(t)
  BY <1>0, CommitMoves DEF Lifecycle!Next
<1>2. ~Lifecycle!StepBegins(t)
  BY <1>0, CommitCloses DEF Lifecycle!StepBegins, Lifecycle!ProcFrom
<1>3. CASE Lifecycle!StepOpens(t)
  BY <1>3 DEF Lifecycle!StepOpens, Lifecycle!StepFrom, Lifecycle!IsCall, Unreported, IsCall
<1>4. CASE Lifecycle!StepCalls(t)
  BY <1>0, <1>4 DEF Calling, Lifecycle!StepCalls, Lifecycle!StepFrom, Lifecycle!IsCall,
     Unreported, IsCall
<1>5. CASE Lifecycle!StepCompletes(t)
  BY <1>0, <1>5 DEF Lifecycle!StepCompletes, Lifecycle!StepFrom, Unreported, IsCall,
     Lifecycle!IsCall, SafetyInv, Lifecycle!Inv, Lifecycle!CallStepNeverReady
<1>6. ~Lifecycle!StepReturns(t)
  <2> SUFFICES ASSUME Lifecycle!StepReturns(t) PROVE FALSE
    OBVIOUS
  <2>1. stepStatus[t] = "blocked" /\ stepStatus'[t] = "completed"
    BY DEF Lifecycle!StepReturns, Lifecycle!StepFrom
  <2>2. t = s
    BY <1>0, <2>1, CommitSteps
  <2> QED
    BY <2>1, <2>2, LockedTx DEF Commit, TxOps
<1> QED
  BY <1>1, <1>2, <1>3, <1>4, <1>5, <1>6 DEF Lifecycle!StepMoves

(* A commit changes its own step and steps that are pending.                  *)
LEMMA CommitChanges ==
  ASSUME SafetyInv, NEW s \in Step, Commit(s), NEW t \in StepsOf(Job),
         stepStatus'[t] # stepStatus[t], t # s
  PROVE  stepStatus[t] = "pending"
<1>0. t \in Step /\ ProcOf[t] = Job
  BY DEF StepsOf
<1>1. Lifecycle!StepMoves(t)
  BY <1>0, CommitMoves DEF Lifecycle!Next
<1>2. ~Lifecycle!StepBegins(t)
  BY <1>0, CommitCloses DEF Lifecycle!StepBegins, Lifecycle!ProcFrom
<1>3. stepStatus'[t] # "completed"
  BY <1>0, CommitSteps
<1> QED
  BY <1>1, <1>2, <1>3 DEF Lifecycle!StepMoves, Lifecycle!StepOpens, Lifecycle!StepCalls,
     Lifecycle!StepCompletes, Lifecycle!StepReturns, Lifecycle!StepFrom

(* No step of a process that exists becomes pending again.                    *)
LEMMA NeverPendingAgain ==
  ASSUME SafetyInv, [Next]_vars, NEW t \in StepsOf(Job), procStatus[Job] # "absent",
         stepStatus[t] # "pending"
  PROVE  stepStatus'[t] # "pending"
<1>0. t \in Step /\ ProcOf[t] = Job
  BY DEF StepsOf
<1>1. CASE Lifecycle!StepMoves(t)
  BY <1>0, <1>1 DEF Lifecycle!StepMoves, Lifecycle!StepBegins, Lifecycle!StepOpens,
     Lifecycle!StepCalls, Lifecycle!StepCompletes, Lifecycle!StepReturns,
     Lifecycle!StepFrom, Lifecycle!ProcFrom
<1>2. CASE UNCHANGED Lifecycle!vars
  BY <1>2 DEF Lifecycle!vars
<1> QED
  BY <1>0, <1>1, <1>2, StepRefines DEF Lifecycle!Next

(* The return of a child touches an unreported step only.                     *)
LEMMA ChildLeavesCards ==
  ASSUME SafetyInv, Calling, NEW c \in Proc, HandleChildTerminal(c), NEW t \in StepsOf(Job)
  PROVE  stepStatus'[t] = stepStatus[t] \/ Unreported(t)
<1> USE DataAssumption DEF DataAssumption
<1>1. c \in finalizing /\ Caller[c] # NoStep /\ Caller[c] \in Step
  BY DEF HandleChildTerminal, SafetyInv, TypeOK
<1>2. procStatus[c] = "completed"
  BY <1>1 DEF SafetyInv, FinalizingIsCompleted
<1>3. stepStatus[Caller[c]] \in {"blocked", "completed"}
  BY <1>1, <1>2 DEF SafetyInv, Lifecycle!Inv, Lifecycle!OneChildPerCallStep, Lifecycle!Roots
<1>4. stepStatus' = [stepStatus EXCEPT ![Caller[c]] = "completed"]
  BY DEF HandleChildTerminal
<1>5. stepStatus \in [Step -> StepStates] /\ t \in Step
  BY DEF SafetyInv, TypeOK, StepsOf
<1>6. CASE t = Caller[c]
  BY <1>1, <1>3, <1>4, <1>5, <1>6 DEF Calling
<1>7. CASE t # Caller[c]
  BY <1>4, <1>5, <1>7
<1> QED
  BY <1>6, <1>7

-----------------------------------------------------------------------------
(* The inductive invariant.                                                   *)

(* Rows are shown once the project exists, and an update rests on one that is;*)
(* unless it was overtaken, the lifecycle allows it from where the row is now.*)
ShownTogether == \A c \in Cells : shown[c] = "none" <=> procStatus[Job] = "absent"

UpdatesSound ==
  \A u \in updates :
    /\ shown[u.cell] # "none"
    /\ ~u.stale => Allowed(u.cell, shown[u.cell], u.to)

(* What a transaction spares is a user's, or has left "pending" since, moved  *)
(* by a younger transaction, so that this one has nothing to report of it.    *)
ControlSound ==
  /\ manual # {} => procStatus[Job] # "absent"
  /\ \A s \in Step : \A t \in spared[s] :
       /\ Locked(s) /\ procStatus[Job] # "absent"
       /\ t \in byUser \/ (t # s /\ stepStatus[t] # "pending")

BoardInv ==
  /\ SafetyInv
  /\ Calling
  /\ BoardTypeOK
  /\ ShownTogether
  /\ UpdatesSound
  /\ ControlSound
  /\ CardFollowsStep
  /\ ProjectClosesWithProcess

LEMMA ColumnType == \A st : Column(st) \in Columns /\ Column(st) # "none"
BY DEF Column, Columns

LEMMA StatesType == "none" \notin ProjectStates /\ "none" \notin Columns
BY DEF ProjectStates, Columns

LEMMA InitBoard == BoardInit => BoardInv
<1> SUFFICES ASSUME BoardInit PROVE BoardInv
  OBVIOUS
<1> USE BoardAssumption DEF BoardInit
<1>1. SafetyInv
  BY InitSafe
<1>2. Calling
  BY DEF Init, Calling
<1>3. BoardTypeOK
  BY DEF BoardTypeOK
<1>4. ShownTogether /\ UpdatesSound /\ ControlSound
  BY DEF Init, ShownTogether, UpdatesSound, ControlSound
<1>5. CardFollowsStep /\ ProjectClosesWithProcess
  BY DEF Init, CardFollowsStep, ProjectClosesWithProcess, Cells
<1> QED
  BY <1>1, <1>2, <1>3, <1>4, <1>5 DEF BoardInv

(* The parts of the invariant that are about what the board shows.            *)
OnBoard ==
  BoardTypeOK /\ ShownTogether /\ UpdatesSound /\ CardFollowsStep /\ ProjectClosesWithProcess

(* A step that leaves the board, the process and its reported steps alone.    *)
LEMMA BoardQuiet ==
  ASSUME BoardInv, UNCHANGED <<shown, manual, byUser>>, procStatus'[Job] = procStatus[Job],
         \A t \in StepsOf(Job) : stepStatus'[t] = stepStatus[t] \/ Unreported(t),
         updates' \subseteq updates, written' \in Nat,
         spared' \in [Step -> SUBSET StepsOf(Job)]
  PROVE  OnBoard'
<1> USE DEF BoardInv, OnBoard
<1>1. BoardTypeOK' /\ ShownTogether' /\ UpdatesSound'
  BY DEF BoardTypeOK, ShownTogether, UpdatesSound
<1>2. CardFollowsStep'
  BY DEF CardFollowsStep, Unreported, IsCall
<1>3. ProjectClosesWithProcess'
  BY DEF ProjectClosesWithProcess
<1> QED
  BY <1>1, <1>2, <1>3

LEMMA CreateOnBoard ==
  ASSUME BoardInv, CreateProject
  PROVE  OnBoard'
<1> USE BoardAssumption DEF BoardInv
<1>1. PICK st \in ProjectStates :
        /\ shown' = [c \in Cells |-> IF c = TheProject THEN st ELSE Column(InitialStatus(c))]
        /\ byUser' = IF st = "active" THEN {} ELSE {TheProject}
  BY DEF CreateProject
<1>2. /\ procStatus[Job] = "absent" /\ procStatus' = [procStatus EXCEPT ![Job] = "active"]
      /\ \A t \in StepsOf(Job) : stepStatus'[t] = InitialStatus(t)
      /\ updates' = updates /\ manual' = {} /\ UNCHANGED <<spared, written>>
  BY DEF CreateProject, StartProcess, StepsOf
<1>3. procStatus'[Job] = "active"
  BY <1>2 DEF SafetyInv, TypeOK
<1>4. updates = {}
  BY <1>2 DEF UpdatesSound, ShownTogether, BoardTypeOK, UpdateSet
<1>5. TheProject \in Cells /\ TheProject \notin StepsOf(Job)
  BY DEF Cells, StepsOf
<1>6. BoardTypeOK'
  <2>1. shown' \in [Cells -> ProjectStates \cup Columns \cup {"none"}]
    BY <1>1, ColumnType
  <2>2. \A c \in Cells : shown'[c] \in Places(c) \cup {"none"}
    BY <1>1, ColumnType DEF Places
  <2> QED
    BY <1>1, <1>2, <1>4, <1>5, <2>1, <2>2 DEF BoardTypeOK
<1>7. ShownTogether' /\ UpdatesSound'
  BY <1>1, <1>2, <1>3, <1>4, ColumnType, StatesType DEF ShownTogether, UpdatesSound
<1>8. CardFollowsStep'
  <2> SUFFICES ASSUME NEW t \in StepsOf(Job)
               PROVE  shown'[t] = IF Unreported(t) THEN "To Do" ELSE Column(stepStatus'[t])
    BY DEF CardFollowsStep, Unreported, IsCall
  <2>1. shown'[t] = Column(InitialStatus(t))
    BY <1>1, <1>5 DEF Cells
  <2> QED
    BY <1>2, <2>1 DEF Unreported, InitialStatus, Column
<1>9. ProjectClosesWithProcess'
  BY <1>1, <1>3, <1>5 DEF ProjectClosesWithProcess
<1> QED
  BY <1>6, <1>7, <1>8, <1>9 DEF OnBoard

LEMMA CommitOnBoard ==
  ASSUME BoardInv, NEW s \in Step, CommitWithHost(s)
  PROVE  OnBoard'
<1> USE BoardAssumption DEF BoardInv, CommitWithHost
<1>1. Commit(s)
  OBVIOUS
<1>2. \A c \in Cells :
        shown'[c] = IF c \in Moved(s) THEN Column(stepStatus'[c])
                    ELSE IF c = TheProject /\ Closes(s) THEN "completed" ELSE shown[c]
  OBVIOUS
<1>3. /\ Moved(s) \subseteq Told(s) /\ Told(s) \subseteq StepsOf(Job) /\ TheProject \notin StepsOf(Job)
      /\ TheProject \in Cells /\ StepsOf(Job) \subseteq Cells
      /\ HostWrites(s) \subseteq Cells
  BY DEF Moved, Told, Cells, StepsOf, HostWrites
<1>4. /\ procStatus'[Job] = IF Closes(s) THEN "completed" ELSE procStatus[Job]
      /\ Closes(s) => procStatus[Job] # "absent"
  BY <1>1, CommitCloses
<1>5. Told(s) # {} => procStatus[Job] # "absent"
  <2> SUFFICES ASSUME NEW t \in Told(s), procStatus[Job] = "absent" PROVE FALSE
    OBVIOUS
  <2>1. t \in Step /\ ProcOf[t] = Job /\ stepStatus'[t] # stepStatus[t]
    BY DEF Told, StepsOf
  <2>2. procStatus'[Job] = "absent"
    BY <1>4
  <2>3. stepStatus[t] = "absent"
    BY <2>1 DEF SafetyInv, Lifecycle!Inv, Lifecycle!RowsTogether
  <2>4. Lifecycle!Inv'
    BY <1>1, LifecycleInvStep DEF Next, Engine
  <2>5. stepStatus'[t] = "absent"
    BY <2>1, <2>2, <2>4 DEF Lifecycle!Inv, Lifecycle!RowsTogether
  <2> QED
    BY <2>1, <2>3, <2>5
<1>6. \A c \in Cells : c \notin HostWrites(s) => shown'[c] = shown[c]
  BY <1>2 DEF HostWrites
<1>7. \A u \in updates' : \E v \in updates :
        /\ u.cell = v.cell /\ u.to = v.to /\ u.stale \in BOOLEAN
        /\ ~u.stale => ~v.stale /\ v.cell \notin HostWrites(s)
        /\ u \in UpdateSet
  <2> SUFFICES ASSUME NEW v \in updates
               PROVE  LET u == Overtaken(v, HostWrites(s)) IN
                      /\ u.cell = v.cell /\ u.to = v.to /\ u.stale \in BOOLEAN
                      /\ ~u.stale => ~v.stale /\ v.cell \notin HostWrites(s)
                      /\ u \in UpdateSet
    OBVIOUS
  <2> QED
    BY DEF BoardTypeOK, UpdateSet, Overtaken
<1>8. BoardTypeOK'
  <2>1. shown' \in [Cells -> ProjectStates \cup Columns \cup {"none"}]
    BY ColumnType DEF BoardTypeOK, ProjectStates
  <2>2. \A c \in Cells : shown'[c] \in Places(c) \cup {"none"}
    BY <1>2, <1>3, ColumnType DEF BoardTypeOK, Places, ProjectStates
  <2>3. updates' \subseteq UpdateSet /\ \A u \in updates' : u.to \in Places(u.cell)
    BY <1>7 DEF BoardTypeOK
  <2>4. /\ byUser' \subseteq Cells /\ written' \in Nat
        /\ manual' \subseteq byUser' \ {TheProject}
    BY <1>3 DEF BoardTypeOK, HostWrites, Moved
  <2>5. spared' \in [Step -> SUBSET StepsOf(Job)]
    BY DEF BoardTypeOK
  <2> QED
    BY <2>1, <2>2, <2>3, <2>4, <2>5 DEF BoardTypeOK
<1>9. ShownTogether'
  BY <1>2, <1>3, <1>4, <1>5, ColumnType DEF ShownTogether
<1>10. UpdatesSound'
  <2> SUFFICES ASSUME NEW u \in updates'
               PROVE  /\ shown'[u.cell] # "none"
                      /\ ~u.stale => Allowed(u.cell, shown'[u.cell], u.to)
    BY DEF UpdatesSound, Allowed
  <2>1. PICK v \in updates :
          /\ u.cell = v.cell /\ u.to = v.to
          /\ ~u.stale => ~v.stale /\ v.cell \notin HostWrites(s)
    BY <1>7
  <2>2. v.cell \in Cells
    BY DEF BoardTypeOK, UpdateSet
  <2>3. shown'[v.cell] # "none"
    BY <1>2, <2>2, ColumnType DEF UpdatesSound
  <2> QED
    BY <1>6, <2>1, <2>2, <2>3 DEF UpdatesSound
<1>11. CardFollowsStep'
  <2> SUFFICES ASSUME NEW t \in StepsOf(Job) \ byUser', procStatus'[Job] # "absent"
               PROVE  shown'[t] = IF Unreported(t) THEN "To Do" ELSE Column(stepStatus'[t])
    BY DEF CardFollowsStep, Unreported, IsCall
  <2>0. procStatus[Job] # "absent"
    BY <1>4
  <2>m. t \in Told(s) => t \in Moved(s)
    <3> SUFFICES ASSUME t \in Told(s), t \in spared[s] PROVE FALSE
      BY DEF Moved
    <3>1. t \notin byUser
      BY DEF HostWrites, Moved, Cells, StepsOf
    <3>2. t # s /\ stepStatus[t] # "pending"
      BY <3>1 DEF ControlSound
    <3>3. t \in Step /\ stepStatus'[t] # stepStatus[t]
      BY DEF Told, StepsOf
    <3> QED
      BY <1>1, <3>2, <3>3, CommitChanges
  <2>1. CASE t \in Told(s)
    <3>1. ~Unreported(t)
      BY <1>1, <2>1, CommitCards DEF Told
    <3> QED
      BY <1>2, <1>3, <2>m, <2>1, <3>1
  <2>2. CASE t \notin Told(s)
    <3>1. t \notin byUser /\ shown'[t] = shown[t]
      BY <1>2, <1>3, <2>2 DEF HostWrites
    <3>2. stepStatus'[t] = stepStatus[t] \/ Unreported(t)
      BY <1>1, <2>2, CommitCards DEF Told
    <3> QED
      BY <2>0, <3>1, <3>2 DEF CardFollowsStep
  <2> QED
    BY <2>1, <2>2
<1>12. ProjectClosesWithProcess'
  BY <1>2, <1>3, <1>4 DEF ProjectClosesWithProcess, HostWrites
<1> QED
  BY <1>8, <1>9, <1>10, <1>11, <1>12 DEF OnBoard

LEMMA BeginUpdateOnBoard ==
  ASSUME BoardInv, NEW c \in Cells, NEW to \in Places(c), BeginUpdate(c, to)
  PROVE  OnBoard'
<1> USE DEF BoardInv, BeginUpdate, vars, database
<1> DEFINE new == [cell |-> c, to |-> to, stale |-> FALSE]
<1>1. /\ updates' = updates \cup {new} /\ written' = written + 1
      /\ UNCHANGED <<shown, manual, spared, byUser, procStatus, stepStatus>>
      /\ shown[c] # "none" /\ Allowed(c, shown[c], to)
  OBVIOUS
<1>2. new \in UpdateSet /\ new.to \in Places(new.cell)
  BY DEF UpdateSet, Places
<1>3. BoardTypeOK'
  <2>1. written' \in Nat
    BY <1>1 DEF BoardTypeOK
  <2>2. \A u \in updates' : u \in UpdateSet /\ u.to \in Places(u.cell)
    BY <1>1, <1>2 DEF BoardTypeOK
  <2> QED
    BY <1>1, <2>1, <2>2 DEF BoardTypeOK
<1>4. UpdatesSound'
  BY <1>1 DEF UpdatesSound, Allowed
<1>5. ShownTogether' /\ CardFollowsStep' /\ ProjectClosesWithProcess'
  BY <1>1 DEF ShownTogether, CardFollowsStep, ProjectClosesWithProcess, Unreported, IsCall
<1> QED
  BY <1>3, <1>4, <1>5 DEF OnBoard

LEMMA FinishUpdateOnBoard ==
  ASSUME BoardInv, NEW u \in updates, FinishUpdate(u)
  PROVE  OnBoard'
<1> USE DEF BoardInv
<1>1. /\ shown' = [shown EXCEPT ![u.cell] = u.to] /\ byUser' = byUser \cup {u.cell}
      /\ updates' = {Overtaken(v, {u.cell}) : v \in updates \ {u}}
      /\ UNCHANGED <<procStatus, stepStatus, manual, spared, written>>
  BY DEF FinishUpdate, vars, database
<1>2. /\ u.cell \in Cells /\ u.to \in Places(u.cell) /\ u.to # "none"
      /\ u.to \in ProjectStates \cup Columns /\ shown[u.cell] # "none"
  BY StatesType DEF BoardTypeOK, UpdateSet, UpdatesSound
<1>3. \A w \in updates' : \E v \in updates :
        /\ w.cell = v.cell /\ w.to = v.to /\ w \in UpdateSet
        /\ ~w.stale => ~v.stale /\ v.cell # u.cell
  <2> SUFFICES ASSUME NEW w \in updates'
               PROVE  \E v \in updates :
                        /\ w.cell = v.cell /\ w.to = v.to /\ w \in UpdateSet
                        /\ ~w.stale => ~v.stale /\ v.cell # u.cell
    OBVIOUS
  <2>1. PICK v \in updates : w = Overtaken(v, {u.cell})
    BY <1>1
  <2>2. v \in UpdateSet
    BY DEF BoardTypeOK
  <2>3. /\ w.cell = v.cell /\ w.to = v.to /\ w \in UpdateSet
        /\ ~w.stale => ~v.stale /\ v.cell # u.cell
    BY <2>1, <2>2 DEF UpdateSet, Overtaken
  <2> QED
    BY <2>3
<1>4. \A c \in Cells : shown'[c] = IF c = u.cell THEN u.to ELSE shown[c]
  BY <1>1 DEF BoardTypeOK
<1>5. BoardTypeOK'
  <2>1. shown' \in [Cells -> ProjectStates \cup Columns \cup {"none"}]
    BY <1>1, <1>2 DEF BoardTypeOK
  <2>2. \A c \in Cells : shown'[c] \in Places(c) \cup {"none"}
    BY <1>2, <1>4 DEF BoardTypeOK, Places
  <2>3. updates' \subseteq UpdateSet /\ \A w \in updates' : w.to \in Places(w.cell)
    BY <1>3 DEF BoardTypeOK
  <2> QED
    BY <1>1, <1>2, <2>1, <2>2, <2>3 DEF BoardTypeOK
<1>6. ShownTogether'
  BY <1>1, <1>2, <1>4 DEF ShownTogether
<1>7. UpdatesSound'
  <2> SUFFICES ASSUME NEW w \in updates'
               PROVE  /\ shown'[w.cell] # "none"
                      /\ ~w.stale => Allowed(w.cell, shown'[w.cell], w.to)
    BY DEF UpdatesSound, Allowed
  <2>1. PICK v \in updates :
          /\ w.cell = v.cell /\ w.to = v.to
          /\ ~w.stale => ~v.stale /\ v.cell # u.cell
    BY <1>3
  <2>2. v.cell \in Cells
    BY DEF BoardTypeOK, UpdateSet
  <2> QED
    BY <1>2, <1>4, <2>1, <2>2 DEF UpdatesSound
<1>8. CardFollowsStep'
  <2> SUFFICES ASSUME NEW t \in StepsOf(Job) \ byUser', procStatus'[Job] # "absent"
               PROVE  shown'[t] = IF Unreported(t) THEN "To Do" ELSE Column(stepStatus'[t])
    BY DEF CardFollowsStep, Unreported, IsCall
  <2> QED
    BY <1>1, <1>4 DEF CardFollowsStep, Cells
<1>9. ProjectClosesWithProcess'
  BY <1>1, <1>4 DEF ProjectClosesWithProcess, Cells
<1> QED
  BY <1>5, <1>6, <1>7, <1>8, <1>9 DEF OnBoard

LEMMA PatchOnBoard ==
  ASSUME BoardInv, NEW to \in ProjectStates, PatchProject(to)
  PROVE  OnBoard'
<1> USE BoardAssumption DEF BoardInv
<1>1. /\ shown' = [shown EXCEPT ![TheProject] = to] /\ byUser' = byUser \cup {TheProject}
      /\ updates' = {Overtaken(v, {TheProject}) : v \in updates}
      /\ shown[TheProject] # "none" /\ written' = written + 1
      /\ UNCHANGED <<procStatus, stepStatus, manual, spared>>
  BY DEF PatchProject, vars, database
<1>2. /\ TheProject \in Cells /\ TheProject \notin StepsOf(Job)
      /\ to # "none" /\ to \in Places(TheProject)
  BY StatesType DEF Cells, StepsOf, Places
<1>3. \A w \in updates' : \E v \in updates :
        /\ w.cell = v.cell /\ w.to = v.to /\ w \in UpdateSet
        /\ ~w.stale => ~v.stale /\ v.cell # TheProject
  <2> SUFFICES ASSUME NEW w \in updates'
               PROVE  \E v \in updates :
                        /\ w.cell = v.cell /\ w.to = v.to /\ w \in UpdateSet
                        /\ ~w.stale => ~v.stale /\ v.cell # TheProject
    OBVIOUS
  <2>1. PICK v \in updates : w = Overtaken(v, {TheProject})
    BY <1>1
  <2>2. v \in UpdateSet
    BY DEF BoardTypeOK
  <2>3. /\ w.cell = v.cell /\ w.to = v.to /\ w \in UpdateSet
        /\ ~w.stale => ~v.stale /\ v.cell # TheProject
    BY <2>1, <2>2 DEF UpdateSet, Overtaken
  <2> QED
    BY <2>3
<1>4. \A c \in Cells : shown'[c] = IF c = TheProject THEN to ELSE shown[c]
  BY <1>1 DEF BoardTypeOK
<1>5. BoardTypeOK'
  <2>1. shown' \in [Cells -> ProjectStates \cup Columns \cup {"none"}]
    BY <1>1 DEF BoardTypeOK
  <2>2. \A c \in Cells : shown'[c] \in Places(c) \cup {"none"}
    BY <1>2, <1>4 DEF BoardTypeOK
  <2>3. updates' \subseteq UpdateSet /\ \A w \in updates' : w.to \in Places(w.cell)
    BY <1>3 DEF BoardTypeOK
  <2>4. written' \in Nat
    BY <1>1 DEF BoardTypeOK
  <2> QED
    BY <1>1, <1>2, <2>1, <2>2, <2>3, <2>4 DEF BoardTypeOK
<1>6. ShownTogether'
  BY <1>1, <1>2, <1>4 DEF ShownTogether
<1>7. UpdatesSound'
  <2> SUFFICES ASSUME NEW w \in updates'
               PROVE  /\ shown'[w.cell] # "none"
                      /\ ~w.stale => Allowed(w.cell, shown'[w.cell], w.to)
    BY DEF UpdatesSound, Allowed
  <2>1. PICK v \in updates :
          /\ w.cell = v.cell /\ w.to = v.to
          /\ ~w.stale => ~v.stale /\ v.cell # TheProject
    BY <1>3
  <2>2. v.cell \in Cells
    BY DEF BoardTypeOK, UpdateSet
  <2> QED
    BY <1>2, <1>4, <2>1, <2>2 DEF UpdatesSound
<1>8. CardFollowsStep'
  BY <1>1, <1>2, <1>4 DEF CardFollowsStep, Cells, Unreported, IsCall
<1>9. ProjectClosesWithProcess'
  BY <1>1 DEF ProjectClosesWithProcess
<1> QED
  BY <1>5, <1>6, <1>7, <1>8, <1>9 DEF OnBoard

LEMMA SetControlOnBoard ==
  ASSUME BoardInv, NEW c \in StepsOf(Job), SetControl(c)
  PROVE  OnBoard'
<1> USE BoardAssumption DEF BoardInv
<1>1. /\ UNCHANGED <<shown, spared, updates, procStatus, stepStatus>> /\ written' = written + 1
      /\ \/ manual' = manual \cup {c} /\ byUser' = byUser \cup {c}
         \/ manual' = manual \ {c} /\ byUser' = byUser
  BY DEF SetControl, vars, database
<1>2. c \in Cells /\ c # TheProject
  BY DEF Cells, StepsOf
<1>3. BoardTypeOK'
  <2>1. written' \in Nat
    BY <1>1 DEF BoardTypeOK
  <2>2. byUser' \subseteq Cells /\ manual' \subseteq byUser' \ {TheProject}
    BY <1>1, <1>2 DEF BoardTypeOK
  <2> QED
    BY <1>1, <2>1, <2>2 DEF BoardTypeOK
<1>4. ShownTogether' /\ UpdatesSound'
  BY <1>1 DEF ShownTogether, UpdatesSound, Allowed
<1>5. CardFollowsStep'
  BY <1>1 DEF CardFollowsStep, Unreported, IsCall
<1>6. ProjectClosesWithProcess'
  BY <1>1, <1>2 DEF ProjectClosesWithProcess
<1> QED
  BY <1>3, <1>4, <1>5, <1>6 DEF OnBoard

(* What an open transaction spares stays spared, or it ends.                  *)
LEMMA SparedStay ==
  ASSUME BoardInv, [BoardNext]_boardVars, NEW s \in Step, NEW t \in spared'[s]
  PROVE  \/ t \in spared[s] /\ tx'[s] = tx[s]
         \/ BeginStep(s) /\ t \in manual /\ tx'[s] # NoTx
<1>0. /\ spared \in [Step -> SUBSET StepsOf(Job)]
      /\ tx \in [Step -> OpenTx \cup {NoTx}]
  BY DEF BoardInv, BoardTypeOK, SafetyInv, TypeOK
<1>1. CASE CreateProject
  BY <1>1 DEF CreateProject, StartProcess
<1>2. CASE CrashWithBoard
  BY <1>2 DEF CrashWithBoard
<1>3. ASSUME NEW r \in Step, CommitWithHost(r) \/ LoseStep(r)
      PROVE  t \in spared[s] /\ tx'[s] = tx[s]
  <2>1. spared' = [spared EXCEPT ![r] = {}] /\ tx' = [tx EXCEPT ![r] = NoTx]
    BY <1>3 DEF CommitWithHost, Commit, LoseStep, Abort, DeadlockVictim, RollBack
  <2> QED
    BY <1>0, <2>1
<1>4. ASSUME NEW r \in Step, BeginStep(r)
      PROVE  \/ t \in spared[s] /\ tx'[s] = tx[s]
             \/ BeginStep(s) /\ t \in manual /\ tx'[s] # NoTx
  <2>1. spared' = [spared EXCEPT ![r] = IF tx'[r] = NoTx THEN {} ELSE manual]
    BY <1>4 DEF BeginStep
  <2>2. CASE r = s
    BY <1>0, <1>4, <2>1, <2>2
  <2>3. CASE r # s
    <3>1. tx'[s] = tx[s]
      BY <1>0, <1>4, <2>3 DEF BeginStep, BeginAdvance, BeginComplete, BeginResume, Open
    <3> QED
      BY <1>0, <2>1, <2>3, <3>1
  <2> QED
    BY <2>2, <2>3
<1>5. ASSUME NEW r \in Step, UserInput(r)
      PROVE  spared' = spared /\ tx' = tx
  BY <1>5 DEF UserInput, board, SubmitRequirement, ReviewSubmission, ValidateBinding, TriggerFires
<1>6. ASSUME NEW c \in Proc, HandleChild(c) \/ LoseChild(c)
      PROVE  spared' = spared /\ tx' = tx
  BY <1>6 DEF HandleChild, LoseChild, HandleChildTerminal, AbortChildTerminal, board
<1>7. ASSUME NEW c \in Cells, NEW to \in Places(c), BeginUpdate(c, to)
      PROVE  spared' = spared /\ tx' = tx
  BY <1>7 DEF BeginUpdate, vars, memory
<1>8. ASSUME NEW u \in updates, FinishUpdate(u)
      PROVE  spared' = spared /\ tx' = tx
  BY <1>8 DEF FinishUpdate, vars, memory
<1>9. ASSUME NEW to \in ProjectStates, PatchProject(to)
      PROVE  spared' = spared /\ tx' = tx
  BY <1>9 DEF PatchProject, vars, memory
<1>10. ASSUME NEW c \in StepsOf(Job), SetControl(c)
       PROVE  spared' = spared /\ tx' = tx
  BY <1>10 DEF SetControl, vars, memory
<1>11. CASE UNCHANGED boardVars
  BY <1>11 DEF boardVars, board, vars, memory
<1> QED
  BY <1>1, <1>2, <1>3, <1>4, <1>5, <1>6, <1>7, <1>8, <1>9, <1>10, <1>11 DEF BoardNext

(* Who loses a row as a user: whoever the host has moved, and no card that is *)
(* under manual control.                                                      *)
LEMMA UsersStay ==
  ASSUME BoardInv, [BoardNext]_boardVars, procStatus[Job] # "absent",
         NEW t \in StepsOf(Job), t \in byUser, t \notin byUser'
  PROVE  \E s \in Step : Commit(s) /\ t \in Told(s)
<1>1. ~CreateProject
  BY DEF CreateProject, StartProcess
<1>2. PICK s \in Step : CommitWithHost(s)
  BY <1>1 DEF BoardNext, boardVars, board, CrashWithBoard, BeginStep, UserInput, LoseStep,
     HandleChild, LoseChild, BeginUpdate, FinishUpdate, PatchProject, SetControl
<1>3. t # TheProject
  BY BoardAssumption DEF StepsOf
<1> QED
  BY <1>2, <1>3 DEF CommitWithHost, HostWrites, Moved

LEMMA ControlStep ==
  ASSUME BoardInv, [BoardNext]_boardVars
  PROVE  ControlSound'
<1> USE DEF BoardInv
<1>0. SafetyInv /\ [Next]_vars /\ SafetyInv'
  BY BoardStepRunsEngine, SafeStep
<1>1. procStatus[Job] # "absent" => procStatus'[Job] # "absent"
  BY <1>0, StatusesAdvance, BoardAssumption
<1>2. manual' # {} => procStatus'[Job] # "absent"
  <2>1. \/ manual' \in {manual, {}}
        \/ \E c \in StepsOf(Job) : SetControl(c)
    BY DEF BoardNext, boardVars, board, CreateProject, CrashWithBoard, CommitWithHost, BeginStep,
       UserInput, LoseStep, HandleChild, LoseChild, BeginUpdate, FinishUpdate, PatchProject
  <2>2. ASSUME NEW c \in StepsOf(Job), SetControl(c) PROVE procStatus[Job] # "absent"
    BY <2>2 DEF SetControl, ShownTogether, Cells
  <2> QED
    BY <1>1, <2>1, <2>2 DEF ControlSound
<1>3. ASSUME NEW s \in Step, NEW t \in spared'[s]
      PROVE  /\ Locked(s)' /\ procStatus'[Job] # "absent"
             /\ t \in byUser' \/ (t # s /\ stepStatus'[t] # "pending")
  <2>1. CASE BeginStep(s) /\ t \in manual /\ tx'[s] # NoTx
    BY <1>1, <2>1 DEF BeginStep, Locked, BoardTypeOK, ControlSound
  <2>2. CASE t \in spared[s] /\ tx'[s] = tx[s]
    <3>1. /\ Locked(s) /\ Locked(s)' /\ procStatus[Job] # "absent"
          /\ t \in byUser \/ (t # s /\ stepStatus[t] # "pending")
      BY <2>2 DEF ControlSound, Locked
    <3>2. t \in StepsOf(Job) /\ t \in Step
      BY <2>2 DEF BoardTypeOK, StepsOf
    <3>3. ASSUME t # s, stepStatus[t] # "pending" PROVE stepStatus'[t] # "pending"
      BY <1>0, <3>1, <3>2, <3>3, NeverPendingAgain
    <3>4. ASSUME t \in byUser, t \notin byUser' PROVE t # s /\ stepStatus'[t] # "pending"
      <4>1. PICK r \in Step : Commit(r) /\ t \in Told(r)
        BY <3>1, <3>2, <3>4, UsersStay
      <4>2. stepStatus'[t] # stepStatus[t] /\ stepStatus'[t] \in {"ready", "completed"}
        BY <3>2, <4>1, CommitCards DEF Told
      <4>3. stepStatus'[s] = stepStatus[s]
        <5>1. Locked(s)' => stepStatus'[s] = tx'[s].snap.step[s]
          BY <1>0 DEF SafetyInv, LockedRowUnchanged
        <5>2. stepStatus[s] = tx[s].snap.step[s]
          BY <3>1 DEF SafetyInv, LockedRowUnchanged
        <5> QED
          BY <2>2, <3>1, <5>1, <5>2
      <4> QED
        BY <4>2, <4>3
    <3> QED
      BY <1>1, <3>1, <3>3, <3>4
  <2> QED
    BY <2>1, <2>2, SparedStay
<1> QED
  BY <1>2, <1>3 DEF ControlSound

LEMMA BoardStepInv == BoardInv /\ [BoardNext]_boardVars => BoardInv'
<1> SUFFICES ASSUME BoardInv, [BoardNext]_boardVars PROVE BoardInv'
  OBVIOUS
<1>0. SafetyInv' /\ Calling'
  BY BoardStepRunsEngine, SafeStep, CallingStep DEF BoardInv
<1>w. written \in Nat /\ spared \in [Step -> SUBSET StepsOf(Job)]
  BY DEF BoardInv, BoardTypeOK
<1>m. manual \subseteq StepsOf(Job)
  BY DEF BoardInv, BoardTypeOK, Cells
<1>1. ASSUME CreateProject
      PROVE  OnBoard'
  BY <1>1, CreateOnBoard
<1>2. ASSUME CrashWithBoard
      PROVE  OnBoard'
  <2>1. /\ UNCHANGED <<shown, manual, byUser, written, stepStatus, procStatus>>
        /\ updates' = {} /\ spared' = [s \in Step |-> {}]
    BY <1>2 DEF CrashWithBoard, Crash, database
  <2>2. spared' \in [Step -> SUBSET StepsOf(Job)]
    BY <2>1
  <2> QED
    BY <1>w, <2>1, <2>2, BoardQuiet
<1>3. ASSUME NEW s \in Step, CommitWithHost(s)
      PROVE  OnBoard'
  BY <1>3, CommitOnBoard
<1>4. ASSUME NEW s \in Step, BeginStep(s) \/ UserInput(s) \/ LoseStep(s)
      PROVE  OnBoard'
  <2>1. UNCHANGED <<shown, manual, updates, byUser, written, stepStatus, procStatus>>
    BY <1>4 DEF board, BeginStep, UserInput, LoseStep, BeginAdvance, BeginComplete, BeginResume,
       SubmitRequirement, ReviewSubmission, ValidateBinding, TriggerFires, Abort,
       DeadlockVictim, database
  <2>2. spared' \in {spared, [spared EXCEPT ![s] = {}], [spared EXCEPT ![s] = manual]}
    BY <1>4 DEF BeginStep, UserInput, LoseStep, board
  <2>3. spared' \in [Step -> SUBSET StepsOf(Job)]
    BY <1>w, <1>m, <2>2
  <2> QED
    BY <1>w, <2>1, <2>3, BoardQuiet
<1>5. ASSUME NEW c \in Proc, HandleChild(c)
      PROVE  OnBoard'
  <2>1. /\ UNCHANGED <<board, procStatus>>
        /\ \A t \in StepsOf(Job) : stepStatus'[t] = stepStatus[t] \/ Unreported(t)
    BY <1>5, ChildLeavesCards DEF HandleChild, HandleChildTerminal, BoardInv
  <2> QED
    BY <1>w, <2>1, BoardQuiet DEF board
<1>6. ASSUME NEW c \in Proc, LoseChild(c)
      PROVE  OnBoard'
  BY <1>6, <1>w, BoardQuiet DEF LoseChild, AbortChildTerminal, board, database
<1>7. ASSUME NEW c \in Cells, NEW to \in Places(c), BeginUpdate(c, to)
      PROVE  OnBoard'
  BY <1>7, BeginUpdateOnBoard
<1>8. ASSUME NEW u \in updates, FinishUpdate(u)
      PROVE  OnBoard'
  BY <1>8, FinishUpdateOnBoard
<1>9. ASSUME NEW to \in ProjectStates, PatchProject(to)
      PROVE  OnBoard'
  BY <1>9, PatchOnBoard
<1>10. ASSUME NEW c \in StepsOf(Job), SetControl(c)
       PROVE  OnBoard'
  BY <1>10, SetControlOnBoard
<1>11. ASSUME UNCHANGED boardVars
      PROVE  OnBoard'
  BY <1>11, <1>w, BoardQuiet DEF boardVars, board, vars, database
<1>12. OnBoard'
  BY <1>1, <1>2, <1>3, <1>4, <1>5, <1>6, <1>7, <1>8, <1>9, <1>10, <1>11 DEF BoardNext
<1>13. ControlSound'
  BY ControlStep
<1> QED
  BY <1>0, <1>12, <1>13 DEF BoardInv, OnBoard

LEMMA BoardHolds == BoardSpec => []BoardInv
<1> QED
  BY InitBoard, BoardStepInv, PTL DEF BoardSpec

-----------------------------------------------------------------------------
(* The theorems. *)

(* The board and the updates keep their types: a card never shows a project's *)
(* status or a state of the engine that is not a column.                      *)
THEOREM BoardTypeCorrect == BoardSpec => []BoardTypeOK
<1>1. BoardInv => BoardTypeOK
  BY DEF BoardInv
<1> QED
  BY <1>1, BoardHolds, PTL

(* However a step of the project's process changes, its card follows, unless a*)
(* user has moved the card since or the step waits for a child.               *)
THEOREM CardsFollowTheEngine == BoardSpec => []CardFollowsStep
<1>1. BoardInv => CardFollowsStep
  BY DEF BoardInv
<1> QED
  BY <1>1, BoardHolds, PTL

(* A project whose status no user has written is completed exactly when its   *)
(* process is.                                                                *)
THEOREM ProjectClosesOnTime == BoardSpec => []ProjectClosesWithProcess
<1>1. BoardInv => ProjectClosesWithProcess
  BY DEF BoardInv
<1> QED
  BY <1>1, BoardHolds, PTL

(* Where the lifecycle has no way back from completed, only an update that was*)
(* overtaken between its validation and its write takes a finished row back,  *)
(* or a patch, which the lifecycle is not asked about.                        *)
THEOREM DoneIsKept == BoardSpec => DoneStays
<1> DEFINE Kept == \A c \in Cells : DoneIsFinal /\ Final(c) /\ shown'[c] # shown[c] =>
                     \/ \E u \in updates : u.cell = c /\ u.stale /\ u.to = shown'[c]
                     \/ c = TheProject /\ PatchProject(shown'[c])
<1>1. BoardInv /\ [BoardNext]_boardVars => [Kept]_boardVars
  <2> SUFFICES ASSUME BoardInv, BoardNext, NEW c \in Cells,
                      DoneIsFinal, Final(c), shown'[c] # shown[c]
               PROVE  \/ \E u \in updates : u.cell = c /\ u.stale /\ u.to = shown'[c]
                      \/ c = TheProject /\ PatchProject(shown'[c])
    OBVIOUS
  <2> USE BoardAssumption DEF BoardInv
  <2>1. ~CreateProject
    BY DEF CreateProject, StartProcess, ShownTogether, Final
  <2>2. ASSUME NEW s \in Step, CommitWithHost(s) PROVE FALSE
    <3>1. \A t \in Step : stepStatus[t] = "completed" => stepStatus'[t] = "completed"
      BY <2>2, StatusesAdvance DEF CommitWithHost, Next, Engine
    <3>2. c \notin Moved(s)
      BY <3>1 DEF Moved, Told, Final, StepsOf
    <3> QED
      BY <2>2, <3>2 DEF CommitWithHost, Final
  <2>3. ASSUME NEW u \in updates, FinishUpdate(u)
        PROVE  u.cell = c /\ u.stale /\ u.to = shown'[c]
    <3>1. u.cell = c /\ u.to = shown'[c]
      BY <2>3 DEF FinishUpdate, BoardTypeOK
    <3>2. ASSUME ~u.stale PROVE FALSE
      <4>1. Allowed(c, shown[c], shown'[c])
        BY <3>1, <3>2 DEF UpdatesSound
      <4> QED
        BY <4>1 DEF Allowed, DoneIsFinal, Final
    <3>3. u.stale \in BOOLEAN
      BY DEF BoardTypeOK, UpdateSet
    <3> QED
      BY <3>1, <3>2, <3>3
  <2>4. ASSUME NEW to \in ProjectStates, PatchProject(to)
        PROVE  c = TheProject /\ PatchProject(shown'[c])
    <3>1. shown' = [shown EXCEPT ![TheProject] = to] /\ TheProject \in Cells
      BY <2>4 DEF PatchProject, Cells
    <3>2. c = TheProject /\ shown'[c] = to
      BY <3>1 DEF BoardTypeOK
    <3> QED
      BY <2>4, <3>2
  <2>5. ASSUME NEW t \in StepsOf(Job), SetControl(t) PROVE FALSE
    BY <2>5 DEF SetControl
  <2>6. \/ \E u \in updates : FinishUpdate(u)
        \/ \E to \in ProjectStates : PatchProject(to)
    BY <2>1, <2>2, <2>5 DEF BoardNext, CrashWithBoard, BeginStep, UserInput, LoseStep,
       HandleChild, LoseChild, BeginUpdate, board
  <2> QED
    BY <2>3, <2>4, <2>6
<1> QED
  BY <1>1, BoardHolds, PTL DEF BoardSpec, DoneStays
=============================================================================
