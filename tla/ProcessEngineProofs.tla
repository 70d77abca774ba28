------------------------- MODULE ProcessEngineProofs -------------------------
(****************************************************************************)
(* Proofs about ProcessEngine, for every set of steps and processes: type   *)
(* correctness, the safety invariants, and that the engine implements       *)
(* ProcessLifecycle.  The invariants of the statuses alone are proved of    *)
(* the contract; what is proved here is that each commit, taken on a lagging*)
(* snapshot, is one of the contract's moves.                                *)
(****************************************************************************)
EXTENDS ProcessEngine, TLAPS

(* Initially nothing exists.                                                  *)
LEMMA InitSafe == Init => SafetyInv
<1> SUFFICES ASSUME Init PROVE SafetyInv
  OBVIOUS
<1> USE DataAssumption, FlagAssumption DEF Init
<1>1. TypeOK
  BY DEF TypeOK, StepStates, ProcStates, ReqStates, BindStates
<1>2. Lifecycle!Inv
  BY Lifecycle!InitInv DEF DataAssumption, Lifecycle!Init
<1> QED
  BY <1>1, <1>2 DEF SafetyInv, LockedRowUnchanged, SnapshotsLag,
     FinalizingIsCompleted, HostToldOnlyWhenCompleted, Locked

-----------------------------------------------------------------------------
(* Type correctness.                                                          *)

(* The database, seen as a snapshot, has a snapshot's type.                   *)
LEMMA DbType == TypeOK => Db \in Snapshots
BY DEF TypeOK, Db, Snapshots

(* Beginning a transaction keeps the type of tx.                              *)
LEMMA OpenType ==
  ASSUME TypeOK, NEW s \in Step, NEW op \in TxOps, NEW b \in BOOLEAN, Open(s, op, b)
  PROVE  tx' \in [Step -> OpenTx \cup {NoTx}]
BY DbType DEF TypeOK, Open, OpenTx

(* So does ending one.                                                        *)
LEMMA ClosedType ==
  ASSUME TypeOK, NEW s \in Step, tx' = [tx EXCEPT ![s] = NoTx]
  PROVE  tx' \in [Step -> OpenTx \cup {NoTx}]
BY DEF TypeOK

(* What a commit writes is of the right type.                                 *)
LEMMA WriteType ==
  ASSUME TypeOK, NEW s \in Step, NEW enabled, NEW children, Write(s, enabled, children)
  PROVE  /\ stepStatus' \in [Step -> StepStates]
         /\ procStatus' \in [Proc -> ProcStates]
         /\ announced' \subseteq Proc
         /\ finalizing' \subseteq {c \in Proc : Caller[c] # NoStep}
<1>1. ProcOf[s] \in Proc
  BY DataAssumption DEF DataAssumption
<1>2. OwnStatus(s) \in StepStates
  BY DEF OwnStatus, OpenStatus, StepStates, TypeOK
<1>3. \A t \in Step : InitialStatus(t) \in StepStates /\ OpenStatus(t) \in StepStates
  BY DEF InitialStatus, OpenStatus, StepStates
<1> QED
  BY <1>1, <1>2, <1>3 DEF Write, TypeOK, ProcStates, ChildReported, ChildDone

(* Every step of the engine keeps the types.                                  *)
LEMMA TypeStep == TypeOK /\ [Next]_vars => TypeOK'
<1> SUFFICES ASSUME TypeOK, [Next]_vars PROVE TypeOK'
  OBVIOUS
<1> USE DataAssumption, FlagAssumption
<1> USE DEF DataAssumption
<1>1. ASSUME NEW p \in Proc, StartProcess(p) PROVE TypeOK'
  BY <1>1 DEF StartProcess, TypeOK, InitialStatus, StepStates, ProcStates, CallSet,
     Advance, FirstSteps, StepsOf
<1>2. ASSUME NEW s \in Step, SubmitRequirement(s) PROVE TypeOK'
  BY <1>2 DEF SubmitRequirement, TypeOK, ReqStates, CallSet, Advance
<1>3. ASSUME NEW s \in Step, ReviewSubmission(s) PROVE TypeOK'
  BY <1>3 DEF ReviewSubmission, TypeOK, ReqStates, CallSet, Advance
<1>4. ASSUME NEW s \in Step, ValidateBinding(s) PROVE TypeOK'
  BY <1>4 DEF ValidateBinding, TypeOK, BindStates, CallSet, Advance
<1>5. ASSUME NEW s \in Step, TriggerFires(s) PROVE TypeOK'
  BY <1>5 DEF TriggerFires, TypeOK, database, CallSet, Advance
<1>6. ASSUME NEW s \in Step, BeginComplete(s) PROVE TypeOK'
  BY <1>6, OpenType DEF BeginComplete, TypeOK, database, TxOps
<1>7. ASSUME NEW s \in Step, BeginAdvance(s) PROVE TypeOK'
  <2>1. TriggerValues(s) \subseteq BOOLEAN
    BY DEF TriggerValues, TriggerKinds
  <2>2. tx' \in [Step -> OpenTx \cup {NoTx}]
    BY <1>7, <2>1, OpenType DEF BeginAdvance, TypeOK, TxOps
  <2> QED
    BY <1>7, <2>2 DEF BeginAdvance, TypeOK, database
<1>8. ASSUME NEW s \in Step, BeginResume(s) PROVE TypeOK'
  BY <1>8, OpenType DEF BeginResume, TypeOK, database, TxOps
<1>9. ASSUME NEW s \in Step, Commit(s) PROVE TypeOK'
  BY <1>9, WriteType, ClosedType DEF Commit, TypeOK, BindStates
<1>10. ASSUME NEW s \in Step, DeadlockVictim(s) PROVE TypeOK'
  BY <1>10, ClosedType DEF DeadlockVictim, RollBack, TypeOK, database
<1>11. ASSUME NEW c \in Proc, HandleChildTerminal(c) PROVE TypeOK'
  BY <1>11 DEF HandleChildTerminal, TypeOK, StepStates, CallSet, Resume
<1>12. CASE Crash
  BY <1>12 DEF Crash, TypeOK, database
<1>13. ASSUME NEW s \in Step, Abort(s) PROVE TypeOK'
  BY <1>13, ClosedType DEF Abort, RollBack, TypeOK, database
<1>14. ASSUME NEW c \in Proc, AbortChildTerminal(c) PROVE TypeOK'
  BY <1>14 DEF AbortChildTerminal, TypeOK, database
<1>15. CASE UNCHANGED vars
  BY <1>15 DEF vars, database, memory, TypeOK
<1> QED
  BY <1>1, <1>2, <1>3, <1>4, <1>5, <1>6, <1>7, <1>8, <1>9, <1>10, <1>11, <1>12,
     <1>13, <1>14, <1>15 DEF Next, Users, Engine, Failures

-----------------------------------------------------------------------------
(* What a commit does to statuses.                                            *)

(* The transaction on a locked row.                                           *)
LEMMA LockedTx ==
  ASSUME SafetyInv, NEW s \in Step, Locked(s)
  PROVE  /\ tx[s] \in OpenTx
         /\ tx[s].op \in TxOps /\ tx[s].snap \in Snapshots
         /\ stepStatus[s] = tx[s].snap.step[s]
         /\ tx[s].op = "advance" => stepStatus[s] \in {"pending", "ready"}
         /\ tx[s].op = "complete" => stepStatus[s] = "ready"
         /\ tx[s].op = "resume" => stepStatus[s] = "completed"
         /\ procStatus[ProcOf[s]] \in {"active", "completed"}
<1>1. tx[s] \in OpenTx
  BY DEF SafetyInv, TypeOK, Locked
<1>2. tx[s].op \in TxOps /\ tx[s].snap \in Snapshots
  BY <1>1 DEF OpenTx
<1>3. /\ stepStatus[s] = tx[s].snap.step[s]
      /\ stepStatus[s] \in CASE tx[s].op = "advance"  -> {"pending", "ready"}
                             [] tx[s].op = "complete" -> {"ready"}
                             [] tx[s].op = "resume"   -> {"completed"}
  BY DEF SafetyInv, LockedRowUnchanged
<1>4. stepStatus[s] # "absent"
  BY <1>2, <1>3 DEF TxOps
<1>5. procStatus[ProcOf[s]] \in {"active", "completed"}
  BY <1>4, DataAssumption DEF DataAssumption, SafetyInv, Lifecycle!Inv, Lifecycle!TypeOK,
     Lifecycle!RowsTogether
<1> QED
  BY <1>1, <1>2, <1>3, <1>5 DEF TxOps

(* A successor is another step, and pending when it is enabled.               *)
LEMMA EnabledPending ==
  ASSUME NEW s \in Step, NEW m, NEW t \in Enabled(s, m)
  PROVE  /\ t \in Step /\ t # s /\ stepStatus[t] = "pending"
         /\ Completes(s) /\ t \in ScannedRows(s)
<1>1. Completes(s) /\ t \in Successors(s) /\ stepStatus[t] = "pending"
  BY DEF Enabled
<1>2. t \in StepsOf(ProcOf[s]) /\ Order[t] = Order[s] + 1
  BY <1>1 DEF Successors
<1>3. t \in Step /\ t # s
  BY <1>2, DataAssumption DEF StepsOf, DataAssumption
<1> QED
  BY <1>1, <1>2, <1>3 DEF ScannedRows

(* A process that a commit starts is new, and its caller is a pending         *)
(* call_process step that the commit opens.                                   *)
LEMMA SpawnedNew ==
  ASSUME SafetyInv, NEW s \in Step, Locked(s), NEW m,
         NEW children \in NewChildren(Spawning(s, m)), NEW c \in children
  PROVE  /\ c \in Proc /\ procStatus[c] = "absent"
         /\ Caller[c] \in Step /\ IsCall(Caller[c]) /\ stepStatus[Caller[c]] = "pending"
         /\ Caller[c] \in Enabled(s, m) \/ (Caller[c] = s /\ Opens(s))
<1>1. c \in Proc /\ procStatus[c] = "absent" /\ Caller[c] \in Spawning(s, m)
  BY DEF NewChildren
<1>2. IsCall(Caller[c]) /\ (Caller[c] \in Enabled(s, m) \/ (Caller[c] = s /\ Opens(s)))
  BY <1>1 DEF Spawning
<1>3. Caller[c] = s /\ Opens(s) => stepStatus[Caller[c]] = "pending"
  BY LockedTx DEF Opens
<1> QED
  BY <1>1, <1>2, <1>3, EnabledPending

(* A step that a commit opens goes from pending to ready, or calls one child. *)
LEMMA OpenedMoves ==
  ASSUME SafetyInv, NEW s \in Step, Locked(s), NEW m,
         NEW children \in NewChildren(Spawning(s, m)), Write(s, Enabled(s, m), children),
         NEW t \in Step, t \in Enabled(s, m) \/ (t = s /\ Opens(s)),
         stepStatus[t] = "pending", stepStatus'[t] = OpenStatus(t)
  PROVE  Lifecycle!StepOpens(t) \/ Lifecycle!StepCalls(t)
<1>1. CASE ~IsCall(t)
  BY <1>1 DEF OpenStatus, IsCall, Lifecycle!StepOpens, Lifecycle!IsCall, Lifecycle!StepFrom
<1>2. CASE IsCall(t)
  <2>1. \A d \in Proc : Caller[d] = t => procStatus[d] = "absent"
    BY DataAssumption DEF SafetyInv, Lifecycle!Inv, Lifecycle!OneChildPerCallStep,
       Lifecycle!Roots, DataAssumption
  <2>2. \A d \in Proc : Caller[d] = t => tx[s].snap.proc[d] = "absent"
    BY <2>1 DEF SafetyInv, SnapshotsLag
  <2>3. t \in Spawning(s, m)
    BY <1>2, <2>2 DEF Spawning
  <2>4. PICK c \in children : Caller[c] = t /\ \A d \in children : Caller[d] = t => d = c
    BY <2>3 DEF NewChildren
  <2>5. c \in Proc
    BY SpawnedNew
  <2>6. procStatus'[c] = "active"
    BY <2>4, <2>5 DEF Write
  <2>7. \A d \in Proc \ {c} : Caller[d] = t => procStatus'[d] = "absent"
    BY <2>1, <2>4 DEF Write
  <2> QED
    BY <1>2, <2>1, <2>4, <2>5, <2>6, <2>7 DEF OpenStatus, IsCall, Lifecycle!StepCalls,
       Lifecycle!IsCall, Lifecycle!StepFrom, Lifecycle!ChildrenOf
<1> QED
  BY <1>1, <1>2

(* Each step moves as the contract allows.                                    *)
LEMMA CommitStepMoves ==
  ASSUME SafetyInv, NEW s \in Step, Locked(s), NEW m,
         NEW children \in NewChildren(Spawning(s, m)), Write(s, Enabled(s, m), children),
         NEW t \in Step
  PROVE  /\ Lifecycle!StepMoves(t)
         /\ ProcOf[t] \in children => Lifecycle!StepBegins(t)
         /\ t \in Enabled(s, m) \/ (t = s /\ Opens(s)) =>
              Lifecycle!StepOpens(t) \/ Lifecycle!StepCalls(t) \/ Completes(s)
<1> USE DEF Lifecycle!StepMoves
<1>0. ProcOf[t] \in Proc
  BY DataAssumption DEF DataAssumption
<1>1. CASE ProcOf[t] \in children
  <2>1. procStatus[ProcOf[t]] = "absent" /\ stepStatus[t] = "absent"
    BY <1>0, <1>1, SpawnedNew DEF SafetyInv, Lifecycle!Inv, Lifecycle!RowsTogether
  <2>2. stepStatus'[t] = InitialStatus(t) /\ procStatus'[ProcOf[t]] = "active"
    BY <1>0, <1>1 DEF Write
  <2>3. t \notin Enabled(s, m) /\ ~(t = s /\ Opens(s))
    BY <2>1, EnabledPending, LockedTx DEF Opens
  <2> QED
    BY <2>1, <2>2, <2>3 DEF Lifecycle!StepBegins, Lifecycle!StepFrom, Lifecycle!ProcFrom,
       InitialStatus
<1>2. CASE ProcOf[t] \notin children /\ t = s
  <2>1. stepStatus'[s] = OwnStatus(s)
    BY <1>2 DEF Write
  <2>2. CASE Completes(s) /\ tx[s].op = "resume"
    BY <1>2, <2>1, <2>2, LockedTx, EnabledPending DEF OwnStatus, Opens
  <2>3. CASE Completes(s) /\ tx[s].op # "resume"
    <3>1. stepStatus[s] \in IF TaskType[s] = "automated" THEN {"pending", "ready"} ELSE {"ready"}
      BY <2>3, LockedTx DEF Completes
    <3>2. procStatus[ProcOf[s]] = "active"
      BY <3>1, LockedTx DEF SafetyInv, Lifecycle!Inv, Lifecycle!CompletedProcessIsDone
    <3>3. Lifecycle!StepCompletes(s)
      BY <2>1, <2>3, <3>1, <3>2 DEF OwnStatus, Lifecycle!StepCompletes, Lifecycle!StepFrom
    <3> QED  BY <1>2, <2>3, <3>3
  <2>4. CASE ~Completes(s) /\ Opens(s)
    <3>1. stepStatus[s] = "pending" /\ stepStatus'[s] = OpenStatus(s)
      BY <2>1, <2>4, LockedTx DEF OwnStatus, Opens
    <3>2. Lifecycle!StepOpens(s) \/ Lifecycle!StepCalls(s)
      BY <2>4, <3>1, OpenedMoves
    <3> QED  BY <1>2, <3>2
  <2>5. CASE ~Completes(s) /\ ~Opens(s)
    BY <1>2, <2>1, <2>5, EnabledPending DEF OwnStatus
  <2> QED  BY <2>2, <2>3, <2>4, <2>5
<1>3. CASE ProcOf[t] \notin children /\ t # s /\ t \in Enabled(s, m)
  <2>1. stepStatus[t] = "pending" /\ stepStatus'[t] = OpenStatus(t)
    BY <1>3, EnabledPending DEF Write
  <2>2. Lifecycle!StepOpens(t) \/ Lifecycle!StepCalls(t)
    BY <1>3, <2>1, OpenedMoves
  <2> QED  BY <1>3, <2>2
<1>4. CASE ProcOf[t] \notin children /\ t # s /\ t \notin Enabled(s, m)
  BY <1>4 DEF Write
<1> QED
  BY <1>1, <1>2, <1>3, <1>4

(* So does each process.                                                      *)
LEMMA CommitProcMoves ==
  ASSUME SafetyInv, NEW s \in Step, Locked(s), NEW m,
         NEW children \in NewChildren(Spawning(s, m)), Write(s, Enabled(s, m), children),
         NEW p \in Proc
  PROVE  Lifecycle!ProcMoves(p)
<1> USE DEF Lifecycle!ProcMoves
<1>1. CASE p \in children
  <2>1. /\ procStatus[p] = "absent" /\ procStatus'[p] = "active"
        /\ Caller[p] \in Step /\ IsCall(Caller[p]) /\ stepStatus[Caller[p]] = "pending"
        /\ Caller[p] \in Enabled(s, m) \/ (Caller[p] = s /\ Opens(s))
    BY <1>1, SpawnedNew DEF Write
  <2>2. stepStatus'[Caller[p]] = OpenStatus(Caller[p])
    <3>1. ProcOf[Caller[p]] \notin children
      BY <2>1, SpawnedNew, DataAssumption DEF DataAssumption, SafetyInv, Lifecycle!Inv,
         Lifecycle!RowsTogether
    <3>2. CASE Caller[p] # s
      BY <2>1, <3>1, <3>2 DEF Write
    <3>3. CASE Caller[p] = s
      <4>1. Opens(s) /\ IsCall(s)
        BY <2>1, <3>3, EnabledPending
      <4>2. ~Completes(s)
        BY <4>1 DEF Completes, Opens, IsCall
      <4> QED
        BY <3>1, <3>3, <4>1, <4>2 DEF Write, OwnStatus
    <3> QED  BY <3>2, <3>3
  <2>3. Lifecycle!StepCalls(Caller[p])
    BY <2>1, <2>2, OpenedMoves DEF Lifecycle!StepOpens, Lifecycle!IsCall, IsCall
  <2>4. \A t \in Lifecycle!StepsOf(p) : Lifecycle!StepBegins(t)
    BY <1>1, CommitStepMoves DEF Lifecycle!StepsOf
  <2> QED
    BY <2>1, <2>3, <2>4 DEF Lifecycle!ProcBegins, Lifecycle!ProcFrom
<1>2. CASE /\ p \notin children /\ p = ProcOf[s] /\ procStatus[p] = "active"
           /\ ChildDone(s) \/ JobDone(s)
  <2>1. procStatus'[p] = "completed" /\ Completes(s) /\ AllDone(s)
    BY <1>2 DEF Write, ChildDone, JobDone, TellsHost
  <2>2. ASSUME NEW t \in Step, ProcOf[t] = p
        PROVE  stepStatus'[t] = "completed"
    <3>1. CASE t = s
      BY <1>2, <2>1, <2>2, <3>1 DEF Write, OwnStatus
    <3>2. CASE t # s
      <4>1. stepStatus[t] = "completed"
        BY <1>2, <2>1, <2>2, <3>2 DEF AllDone, StepsOf, SafetyInv, SnapshotsLag
      <4>2. t \notin Enabled(s, m)
        BY <4>1, EnabledPending
      <4> QED
        BY <1>2, <2>2, <3>2, <4>1, <4>2 DEF Write
    <3> QED  BY <3>1, <3>2
  <2> QED
    BY <1>2, <2>1, <2>2 DEF Lifecycle!ProcCompletes, Lifecycle!ProcFrom, Lifecycle!StepsOf
<1>3. CASE /\ p \notin children
           /\ ~(p = ProcOf[s] /\ procStatus[p] = "active" /\ (ChildDone(s) \/ JobDone(s)))
  BY <1>3 DEF Write
<1> QED
  BY <1>1, <1>2, <1>3

-----------------------------------------------------------------------------
(* Every step of the engine is a step of the contract, or changes no status.  *)

(* StartProcess is a move of the contract.                                    *)
LEMMA StartMoves ==
  ASSUME SafetyInv, NEW p \in Proc, StartProcess(p)
  PROVE  Lifecycle!Next
<1> USE DataAssumption DEF DataAssumption, StartProcess
<1>1. ASSUME NEW s \in Step, ProcOf[s] = p
      PROVE  Lifecycle!StepBegins(s)
  <2>1. stepStatus[s] = "absent"
    BY <1>1 DEF SafetyInv, Lifecycle!Inv, Lifecycle!RowsTogether
  <2>2. procStatus'[p] = "active"
    BY DEF SafetyInv, TypeOK
  <2> QED
    BY <1>1, <2>1, <2>2 DEF Lifecycle!StepBegins, Lifecycle!StepFrom, Lifecycle!ProcFrom,
       InitialStatus
<1>2. ASSUME NEW s \in Step
      PROVE  Lifecycle!StepMoves(s)
  BY <1>1 DEF Lifecycle!StepMoves
<1>3. ASSUME NEW q \in Proc
      PROVE  Lifecycle!ProcMoves(q)
  BY <1>1 DEF Lifecycle!ProcMoves, Lifecycle!ProcBegins, Lifecycle!ProcFrom,
     Lifecycle!StepsOf, Lifecycle!Roots, Roots, SafetyInv, TypeOK
<1>4. /\ stepStatus' \in [Step -> {"absent", "pending", "ready", "blocked", "completed"}]
      /\ procStatus' \in [Proc -> {"absent", "active", "completed"}]
  BY DEF SafetyInv, Lifecycle!Inv, Lifecycle!TypeOK, InitialStatus
<1> QED
  BY <1>2, <1>3, <1>4 DEF Lifecycle!Next

(* A commit is a move of the contract.                                        *)
LEMMA CommitMoves ==
  ASSUME SafetyInv, NEW s \in Step, Commit(s)
  PROVE  Lifecycle!Next
<1>1. PICK m \in TriggerOutcomes :
        \E children \in NewChildren(Spawning(s, m)) : Write(s, Enabled(s, m), children)
  BY DEF Commit
<1>2. PICK children \in NewChildren(Spawning(s, m)) : Write(s, Enabled(s, m), children)
  BY <1>1
<1>3. \A t \in Step : Lifecycle!StepMoves(t)
  BY <1>2, CommitStepMoves DEF Commit
<1>4. \A p \in Proc : Lifecycle!ProcMoves(p)
  BY <1>2, CommitProcMoves DEF Commit
<1>5. stepStatus' \in [Step -> StepStates] /\ procStatus' \in [Proc -> ProcStates]
  BY <1>2, WriteType DEF SafetyInv
<1>6. \A t \in Step : stepStatus'[t] \in {"absent", "pending", "ready", "blocked", "completed"}
  BY <1>3 DEF SafetyInv, Lifecycle!Inv, Lifecycle!TypeOK, Lifecycle!StepMoves,
     Lifecycle!StepBegins, Lifecycle!StepOpens, Lifecycle!StepCalls,
     Lifecycle!StepCompletes, Lifecycle!StepReturns, Lifecycle!StepFrom
<1>7. \A p \in Proc : procStatus'[p] \in {"absent", "active", "completed"}
  BY <1>4 DEF SafetyInv, Lifecycle!Inv, Lifecycle!TypeOK, Lifecycle!ProcMoves,
     Lifecycle!ProcBegins, Lifecycle!ProcCompletes, Lifecycle!ProcFrom
<1> QED
  BY <1>3, <1>4, <1>5, <1>6, <1>7 DEF Lifecycle!Next

(* handleChildTerminal completes a blocked step whose child is completed.     *)
LEMMA ChildTerminalMoves ==
  ASSUME SafetyInv, NEW c \in Proc, HandleChildTerminal(c)
  PROVE  Lifecycle!Next
<1> USE DataAssumption DEF DataAssumption, HandleChildTerminal
<1> DEFINE t == Caller[c]
<1>1. t \in Step /\ procStatus[c] = "completed"
  BY DEF SafetyInv, TypeOK, FinalizingIsCompleted
<1>2. stepStatus[t] \in {"blocked", "completed"}
  BY <1>1 DEF SafetyInv, Lifecycle!Inv, Lifecycle!OneChildPerCallStep, Lifecycle!Roots
<1>3. stepStatus'[t] = "completed"
  BY <1>1 DEF SafetyInv, TypeOK
<1>4. \A u \in Step : Lifecycle!StepMoves(u)
  BY <1>1, <1>2, <1>3 DEF Lifecycle!StepMoves, Lifecycle!StepReturns,
     Lifecycle!StepFrom, Lifecycle!ChildrenOf
<1> QED
  BY <1>4 DEF Lifecycle!Next, Lifecycle!ProcMoves, SafetyInv, Lifecycle!Inv,
     Lifecycle!TypeOK

(* No other handler changes a status.                                         *)
LEMMA StepRefines ==
  ASSUME SafetyInv, [Next]_vars
  PROVE  [Lifecycle!Next]_Lifecycle!vars
<1>1. CASE \E p \in Proc : StartProcess(p)
  BY <1>1, StartMoves
<1>2. CASE \E s \in Step : Commit(s)
  BY <1>2, CommitMoves
<1>3. CASE \E c \in Proc : HandleChildTerminal(c)
  BY <1>3, ChildTerminalMoves
<1>4. CASE /\ ~\E p \in Proc : StartProcess(p)
           /\ ~\E s \in Step : Commit(s)
           /\ ~\E c \in Proc : HandleChildTerminal(c)
  <2>1. UNCHANGED <<stepStatus, procStatus>>
    BY <1>4 DEF Next, Users, Engine, Failures, SubmitRequirement, ReviewSubmission,
       ValidateBinding, TriggerFires, BeginComplete, BeginAdvance, BeginResume,
       DeadlockVictim, Crash, Abort, AbortChildTerminal, vars, database
  <2> QED
    BY <2>1 DEF Lifecycle!vars
<1> QED
  BY <1>1, <1>2, <1>3, <1>4

-----------------------------------------------------------------------------
(* Locks and snapshots.                                                       *)

(* The transaction on s, after the step, has just begun on the current        *)
(* database, or is the one that was there.                                    *)
JustBegun(s) ==
  /\ UNCHANGED <<stepStatus, procStatus>>
  /\ \E op \in TxOps, b \in BOOLEAN :
       /\ tx'[s] = [op |-> op, met |-> b, snap |-> Db]
       /\ op = "advance" => stepStatus[s] \in {"pending", "ready"}
       /\ op = "complete" => stepStatus[s] = "ready"
       /\ op = "resume" => stepStatus[s] = "completed"

StaysOpen(s) == Locked(s) /\ tx'[s] = tx[s] /\ stepStatus'[s] = stepStatus[s]

(* Beginning a transaction on s leaves those on other rows alone.             *)
LEMMA BegunTx ==
  ASSUME SafetyInv, NEW s \in Step, NEW t \in Step,
         BeginAdvance(s) \/ BeginComplete(s) \/ BeginResume(s)
  PROVE  tx'[t] = NoTx \/ JustBegun(t) \/ StaysOpen(t)
<1> USE DEF SafetyInv, TypeOK, Open, Locked
<1>1. CASE t # s
  BY <1>1 DEF BeginAdvance, BeginComplete, BeginResume, StaysOpen, database
<1>2. CASE t = s /\ BeginAdvance(s)
  <2>1. CASE UNCHANGED tx
    BY <1>2, <2>1 DEF BeginAdvance
  <2>2. CASE ~UNCHANGED tx
    <3>1. PICK b \in TriggerValues(s) : Open(s, "advance", b)
      BY <1>2, <2>2 DEF BeginAdvance
    <3>2. b \in BOOLEAN
      BY DataAssumption DEF TriggerValues, DataAssumption, TriggerKinds
    <3>3. stepStatus[s] \in {"pending", "ready"}
      BY <1>2, <2>2 DEF BeginAdvance, Lifecycle!Inv, Lifecycle!TypeOK
    <3>4. tx'[s] = [op |-> "advance", met |-> b, snap |-> Db]
      BY <3>1
    <3> QED
      BY <1>2, <3>2, <3>3, <3>4 DEF JustBegun, TxOps, BeginAdvance, database
  <2> QED  BY <2>1, <2>2
<1>3. CASE t = s /\ BeginComplete(s)
  <2>1. tx'[s] = [op |-> "complete", met |-> TRUE, snap |-> Db]
    BY <1>3 DEF BeginComplete
  <2>2. stepStatus[s] = "ready"
    BY <1>3 DEF BeginComplete, Lifecycle!Inv, Lifecycle!TypeOK
  <2> QED
    BY <1>3, <2>1, <2>2 DEF JustBegun, TxOps, BeginComplete, database
<1>4. CASE t = s /\ BeginResume(s)
  <2>1. CASE stepStatus[s] = "completed"
    <3>1. tx'[s] = [op |-> "resume", met |-> TRUE, snap |-> Db]
      BY <1>4, <2>1 DEF BeginResume
    <3> QED
      BY <1>4, <2>1, <3>1 DEF JustBegun, TxOps, BeginResume, database
  <2>2. CASE stepStatus[s] # "completed"
    BY <1>4, <2>2 DEF BeginResume
  <2> QED  BY <2>1, <2>2
<1> QED
  BY <1>1, <1>2, <1>3, <1>4

(* A commit changes no locked row but its own: the steps it opens it has      *)
(* scanned, and those of a new child did not exist.                           *)
LEMMA CommitTx ==
  ASSUME SafetyInv, NEW s \in Step, NEW t \in Step, Commit(s)
  PROVE  tx'[t] = NoTx \/ StaysOpen(t)
<1>1. CASE t = s \/ ~Locked(t)
  BY <1>1 DEF Commit, SafetyInv, TypeOK, Locked
<1>2. CASE t # s /\ Locked(t)
  <2>1. PICK m \in TriggerOutcomes :
          \E children \in NewChildren(Spawning(s, m)) : Write(s, Enabled(s, m), children)
    BY DEF Commit
  <2>2. PICK children \in NewChildren(Spawning(s, m)) : Write(s, Enabled(s, m), children)
    BY <2>1
  <2>3. ProcOf[t] \notin children
    BY <1>2, LockedTx, SpawnedNew DEF Commit
  <2>4. t \notin Enabled(s, m)
    BY <1>2, EnabledPending DEF Commit
  <2>5. stepStatus'[t] = stepStatus[t]
    BY <1>2, <2>2, <2>3, <2>4 DEF Write
  <2> QED
    BY <1>2, <2>5 DEF Commit, StaysOpen, SafetyInv, TypeOK
<1> QED
  BY <1>1, <1>2

(* After any step, a transaction is absent, new, or as it was.                *)
LEMMA TxStep ==
  ASSUME SafetyInv, [Next]_vars, NEW t \in Step
  PROVE  tx'[t] = NoTx \/ JustBegun(t) \/ StaysOpen(t)
<1>1. ASSUME NEW p \in Proc, StartProcess(p)
      PROVE  tx'[t] = NoTx \/ StaysOpen(t)
  <2>1. CASE ~Locked(t)
    BY <1>1, <2>1 DEF StartProcess, Locked
  <2>2. CASE Locked(t)
    <3>1. ProcOf[t] # p
      BY <1>1, <2>2, LockedTx DEF StartProcess
    <3> QED
      BY <1>1, <2>2, <3>1 DEF StartProcess, StaysOpen
  <2> QED  BY <2>1, <2>2
<1>2. ASSUME NEW s \in Step, BeginAdvance(s) \/ BeginComplete(s) \/ BeginResume(s)
      PROVE  tx'[t] = NoTx \/ JustBegun(t) \/ StaysOpen(t)
  BY <1>2, BegunTx
<1>3. ASSUME NEW s \in Step, Commit(s)
      PROVE  tx'[t] = NoTx \/ StaysOpen(t)
  BY <1>3, CommitTx
<1>4. ASSUME NEW c \in Proc, HandleChildTerminal(c)
      PROVE  tx'[t] = NoTx \/ StaysOpen(t)
  BY <1>4 DEF HandleChildTerminal, StaysOpen, Locked, SafetyInv, TypeOK
<1>5. ASSUME NEW s \in Step, DeadlockVictim(s) \/ Abort(s)
      PROVE  tx'[t] = NoTx \/ StaysOpen(t)
  BY <1>5 DEF DeadlockVictim, Abort, RollBack, StaysOpen, Locked, database, SafetyInv, TypeOK
<1>6. CASE Crash
  BY <1>6 DEF Crash
<1>7. ASSUME UNCHANGED <<stepStatus, tx>>
      PROVE  tx'[t] = NoTx \/ StaysOpen(t)
  BY <1>7 DEF StaysOpen, Locked
<1>8. ASSUME NEW s \in Step,
             SubmitRequirement(s) \/ ReviewSubmission(s) \/ ValidateBinding(s)
               \/ TriggerFires(s)
      PROVE  UNCHANGED <<stepStatus, tx>>
  BY <1>8 DEF SubmitRequirement, ReviewSubmission, ValidateBinding, TriggerFires, database
<1>9. ASSUME NEW c \in Proc, AbortChildTerminal(c)
      PROVE  UNCHANGED <<stepStatus, tx>>
  BY <1>9 DEF AbortChildTerminal, database
<1>10. CASE UNCHANGED vars
  BY <1>7, <1>10 DEF vars, database, memory
<1> QED
  BY <1>1, <1>2, <1>3, <1>4, <1>5, <1>6, <1>7, <1>8, <1>9, <1>10
     DEF Next, Users, Engine, Failures

(* Nothing that is completed, or exists, ceases to be.                        *)
LEMMA StatusesAdvance ==
  ASSUME SafetyInv, [Next]_vars
  PROVE  /\ \A t \in Step : stepStatus[t] = "completed" => stepStatus'[t] = "completed"
         /\ \A p \in Proc : procStatus[p] = "completed" => procStatus'[p] = "completed"
         /\ \A p \in Proc : procStatus'[p] = "absent" => procStatus[p] = "absent"
<1>1. CASE Lifecycle!Next
  <2>1. /\ \A t \in Step : stepStatus[t] = "completed" => stepStatus'[t] = "completed"
        /\ \A p \in Proc : procStatus[p] = "completed" => procStatus'[p] = "completed"
    BY <1>1, Lifecycle!CompletedStays DEF SafetyInv
  <2>2. \A p \in Proc : procStatus'[p] = "absent" => procStatus[p] = "absent"
    BY <1>1 DEF Lifecycle!Next, Lifecycle!ProcMoves, Lifecycle!ProcBegins,
       Lifecycle!ProcCompletes, Lifecycle!ProcFrom
  <2> QED  BY <2>1, <2>2
<1>2. CASE UNCHANGED Lifecycle!vars
  BY <1>2 DEF Lifecycle!vars
<1> QED
  BY <1>1, <1>2, StepRefines

-----------------------------------------------------------------------------
(* The inductive step.                                                        *)

(* The invariant of the contract is kept by each of its moves.                *)
LEMMA LifecycleInvStep ==
  ASSUME SafetyInv, [Next]_vars
  PROVE  Lifecycle!Inv'
<1>1. CASE Lifecycle!Next
  BY <1>1, DataAssumption, Lifecycle!NextInv DEF SafetyInv, DataAssumption
<1>2. CASE UNCHANGED Lifecycle!vars
  BY <1>2 DEF SafetyInv, Lifecycle!vars, Lifecycle!Inv, Lifecycle!TypeOK,
     Lifecycle!RowsTogether, Lifecycle!CallStepNeverReady,
     Lifecycle!CompletedProcessIsDone, Lifecycle!CallStepCompletesThroughChild,
     Lifecycle!OneChildPerCallStep
<1> QED
  BY <1>1, <1>2, StepRefines

(* The row of an open transaction keeps the status the transaction found.     *)
LEMMA LockedRowStep ==
  ASSUME SafetyInv, [Next]_vars
  PROVE  LockedRowUnchanged'
<1> SUFFICES ASSUME NEW t \in Step, tx'[t] # NoTx
             PROVE  /\ stepStatus'[t] = tx'[t].snap.step[t]
                    /\ stepStatus'[t] \in CASE tx'[t].op = "advance"  -> {"pending", "ready"}
                                            [] tx'[t].op = "complete" -> {"ready"}
                                            [] tx'[t].op = "resume"   -> {"completed"}
  BY DEF LockedRowUnchanged, Locked
<1>1. CASE JustBegun(t)
  BY <1>1 DEF JustBegun, Db, TxOps
<1>2. CASE StaysOpen(t)
  BY <1>2 DEF StaysOpen, SafetyInv, LockedRowUnchanged
<1> QED
  BY <1>1, <1>2, TxStep

(* Snapshots may lag behind the statuses, never run ahead of them.            *)
LEMMA SnapshotsStep ==
  ASSUME SafetyInv, [Next]_vars
  PROVE  SnapshotsLag'
<1> SUFFICES ASSUME NEW s \in Step, tx'[s] # NoTx
             PROVE  /\ \A t \in Step :
                         tx'[s].snap.step[t] = "completed" => stepStatus'[t] = "completed"
                    /\ \A p \in Proc :
                         /\ tx'[s].snap.proc[p] = "completed" => procStatus'[p] = "completed"
                         /\ procStatus'[p] = "absent" => tx'[s].snap.proc[p] = "absent"
  BY DEF SnapshotsLag, Locked
<1>1. CASE JustBegun(s)
  BY <1>1 DEF JustBegun, Db
<1>2. CASE StaysOpen(s)
  BY <1>2, StatusesAdvance DEF StaysOpen, SafetyInv, SnapshotsLag
<1> QED
  BY <1>1, <1>2, TxStep

(* A commit reports or announces its process only when it leaves it completed.*)
LEMMA CommitReports ==
  ASSUME SafetyInv, NEW s \in Step, Commit(s)
  PROVE  /\ announced' \subseteq announced \cup {ProcOf[s]}
         /\ finalizing' \subseteq finalizing \cup {ProcOf[s]}
         /\ ProcOf[s] \in announced' \ announced => procStatus'[ProcOf[s]] = "completed"
         /\ ProcOf[s] \in finalizing' \ finalizing => procStatus'[ProcOf[s]] = "completed"
<1>1. PICK m \in TriggerOutcomes :
        \E children \in NewChildren(Spawning(s, m)) : Write(s, Enabled(s, m), children)
  BY DEF Commit
<1>2. PICK children \in NewChildren(Spawning(s, m)) : Write(s, Enabled(s, m), children)
  BY <1>1
<1>3. ProcOf[s] \in Proc /\ procStatus[ProcOf[s]] \in {"active", "completed"}
  BY LockedTx, DataAssumption DEF Commit, DataAssumption
<1>4. ProcOf[s] \notin children
  BY <1>3, SpawnedNew DEF Commit
<1>5. ChildReported(s) \/ TellsHost(s) => procStatus'[ProcOf[s]] = "completed"
  BY <1>2, <1>3, <1>4 DEF Write, ChildReported, TellsHost, JobDone, HostAgrees
<1> QED
  BY <1>2, <1>5 DEF Write

(* A process reported to its parent or its host is completed.                 *)
LEMMA ReportsStep ==
  ASSUME SafetyInv, [Next]_vars
  PROVE  FinalizingIsCompleted' /\ HostToldOnlyWhenCompleted'
<1>1. \A p \in Proc : procStatus[p] = "completed" => procStatus'[p] = "completed"
  BY StatusesAdvance
<1>2. \A c \in finalizing \cup announced : c \in Proc /\ procStatus[c] = "completed"
  BY DEF SafetyInv, FinalizingIsCompleted, HostToldOnlyWhenCompleted, TypeOK
<1>3. CASE \E s \in Step : Commit(s)
  BY <1>1, <1>2, <1>3, CommitReports DEF FinalizingIsCompleted, HostToldOnlyWhenCompleted
<1>4. CASE ~\E s \in Step : Commit(s)
  <2>1. announced' = announced /\ finalizing' \subseteq finalizing
    BY <1>4 DEF Next, Users, Engine, Failures, StartProcess, SubmitRequirement,
       ReviewSubmission, ValidateBinding, TriggerFires, BeginComplete, BeginAdvance,
       BeginResume, DeadlockVictim, HandleChildTerminal, Crash, Abort,
       AbortChildTerminal, vars, memory
  <2> QED
    BY <1>1, <1>2, <2>1 DEF FinalizingIsCompleted, HostToldOnlyWhenCompleted
<1> QED
  BY <1>3, <1>4

(* The invariant is inductive.                                                *)
LEMMA SafeStep == SafetyInv /\ [Next]_vars => SafetyInv'
BY TypeStep, LifecycleInvStep, LockedRowStep, SnapshotsStep, ReportsStep DEF SafetyInv

-----------------------------------------------------------------------------
(* The theorems.                                                              *)

(* The inductive invariant holds in every reachable state of the engine.      *)
THEOREM Safety == Spec => []SafetyInv
BY InitSafe, SafeStep, PTL DEF Spec

(* Every variable keeps its type.                                             *)
THEOREM TypeCorrect == Spec => []TypeOK
<1>1. SafetyInv => TypeOK
  BY DEF SafetyInv
<1> QED
  BY <1>1, Safety, PTL

(* However maybeCompleteJob's snapshots lag, a process marked completed has   *)
(* every step completed, and its host is told only then.                      *)
THEOREM CompletionIsSound == Spec => [](CompletedProcessIsDone /\ HostToldOnlyWhenCompleted)
<1>1. SafetyInv => CompletedProcessIsDone /\ HostToldOnlyWhenCompleted
  BY DEF SafetyInv, CompletedProcessIsDone, Lifecycle!Inv
<1> QED
  BY <1>1, Safety, PTL

(* onProcessCompleted is called in a transaction of its own snapshot, and only *)
(* of a process that the same transaction, or an earlier one, has completed.   *)
THEOREM HostIsToldTheTruth == Spec => []HostToldOnlyWhenCompleted
<1>1. SafetyInv => HostToldOnlyWhenCompleted
  BY DEF SafetyInv
<1> QED
  BY <1>1, Safety, PTL

(* enableNextSteps and attemptAdvance never spawn two children for one step,  *)
(* and a call_process step completes only through its child.                  *)
THEOREM CallProcessIsSound == Spec => [](OneChildPerCallStep /\ CallStepCompletesThroughChild)
<1>1. SafetyInv => OneChildPerCallStep /\ CallStepCompletesThroughChild
  BY DEF SafetyInv, OneChildPerCallStep, CallStepCompletesThroughChild, Lifecycle!Inv
<1> QED
  BY <1>1, Safety, PTL

(* Neither markCompleted nor attemptAdvance completes a call_process step       *)
(* before the child it has spawned.                                            *)
THEOREM ParentWaitsForChild == Spec => []CallStepCompletesThroughChild
<1>1. SafetyInv => CallStepCompletesThroughChild
  BY DEF SafetyInv, CallStepCompletesThroughChild, Lifecycle!Inv
<1> QED
  BY <1>1, Safety, PTL

(* Every behaviour of the transactional engine is one of the atomic contract. *)
THEOREM Refinement == Spec => ImplementsLifecycle
<1>1. Init => Lifecycle!Init
  BY DEF Init, Lifecycle!Init
<1>2. SafetyInv /\ [Next]_vars => [Lifecycle!Next]_Lifecycle!vars
  BY StepRefines
<1> QED
  BY <1>1, <1>2, Safety, PTL DEF Spec, ImplementsLifecycle, Lifecycle!Spec

-----------------------------------------------------------------------------
(* Somebody unblocks a blocked step.                                          *)

(* A step becomes blocked by calling a child, and an active child that ceases *)
(* to be active leaves its report to handleChildTerminal in the same commit.  *)
LEMMA BlockedStep ==
  ASSUME CanFail = FALSE, MaxCrash = 0,
         SafetyInv, BlockedStepWillBeResumed, [Next]_vars
  PROVE  BlockedStepWillBeResumed'
<1> SUFFICES ASSUME NEW s \in Step, stepStatus'[s] = "blocked"
             PROVE  \E c \in Proc : /\ Caller[c] = s
                                    /\ procStatus'[c] = "active" \/ c \in finalizing'
  BY DEF BlockedStepWillBeResumed
<1>1. CASE stepStatus[s] # "blocked"
  <2>1. Lifecycle!StepMoves(s)
    BY <1>1, StepRefines DEF Lifecycle!Next, Lifecycle!vars
  <2>2. Lifecycle!StepCalls(s)
    BY <1>1, <2>1 DEF Lifecycle!StepMoves, Lifecycle!StepBegins, Lifecycle!StepOpens,
       Lifecycle!StepCompletes, Lifecycle!StepReturns, Lifecycle!StepFrom
  <2> QED
    BY <2>2 DEF Lifecycle!StepCalls, Lifecycle!ChildrenOf
<1>2. CASE stepStatus[s] = "blocked"
  <2>1. PICK c \in Proc : Caller[c] = s /\ (procStatus[c] = "active" \/ c \in finalizing)
    BY <1>2 DEF BlockedStepWillBeResumed
  <2>2. ~Crash /\ ~\E d \in Proc : AbortChildTerminal(d)
    BY DEF Crash, AbortChildTerminal, SafetyInv, TypeOK
  <2>3. CASE \E u \in Step : Commit(u)
    <3>1. PICK u \in Step : Commit(u)
      BY <2>3
    <3>2. PICK m \in TriggerOutcomes :
            \E children \in NewChildren(Spawning(u, m)) : Write(u, Enabled(u, m), children)
      BY <3>1 DEF Commit
    <3>3. PICK children \in NewChildren(Spawning(u, m)) : Write(u, Enabled(u, m), children)
      BY <3>2
    <3>4. CASE c \in finalizing
      BY <2>1, <3>3, <3>4 DEF Write
    <3>5. CASE procStatus[c] = "active" /\ c = ProcOf[u] /\ (ChildDone(u) \/ JobDone(u))
      <4>1. ChildReported(u)
        BY <2>1, <3>5, DataAssumption
           DEF ChildReported, ChildDone, JobDone, TellsHost, DataAssumption
      <4> QED  BY <2>1, <3>3, <3>5, <4>1 DEF Write
    <3>6. CASE procStatus[c] = "active" /\ ~(c = ProcOf[u] /\ (ChildDone(u) \/ JobDone(u)))
      BY <2>1, <3>3, <3>6 DEF Write
    <3> QED  BY <2>1, <3>4, <3>5, <3>6
  <2>4. CASE \E d \in Proc : HandleChildTerminal(d)
    BY <1>2, <2>1, <2>4 DEF HandleChildTerminal, SafetyInv, TypeOK
  <2>5. CASE \E p \in Proc : StartProcess(p)
    BY <2>1, <2>5 DEF StartProcess, SafetyInv, TypeOK
  <2>6. CASE /\ ~\E u \in Step : Commit(u)
             /\ ~\E d \in Proc : HandleChildTerminal(d)
             /\ ~\E p \in Proc : StartProcess(p)
    <3>1. UNCHANGED <<procStatus, finalizing>>
      BY <2>2, <2>6 DEF Next, Users, Engine, Failures, SubmitRequirement,
         ReviewSubmission, ValidateBinding, TriggerFires, BeginComplete, BeginAdvance,
         BeginResume, DeadlockVictim, Abort, vars, database, memory
    <3> QED  BY <2>1, <3>1
  <2> QED  BY <2>3, <2>4, <2>5, <2>6
<1> QED
  BY <1>1, <1>2

(* While the server runs and no transaction fails other than in a deadlock, a *)
(* blocked step waits for an active child or for a report under way.          *)
THEOREM BlockedIsResumed ==
  ASSUME CanFail = FALSE, MaxCrash = 0
  PROVE  Spec => []BlockedStepWillBeResumed
<1>1. Init => BlockedStepWillBeResumed
  BY DEF Init, BlockedStepWillBeResumed
<1>2. SafetyInv /\ BlockedStepWillBeResumed /\ [Next]_vars => BlockedStepWillBeResumed'
  BY BlockedStep
<1> QED
  BY <1>1, <1>2, Safety, PTL DEF Spec

-----------------------------------------------------------------------------
(* No completion is lost, while the scan of enableNextSteps locks every row   *)
(* of the process.                                                            *)

(* What a transaction's snapshot may miss: a step of its process completed    *)
(* since then was a call_process step, and its resume looks again.            *)
SnapshotMissesOnlyReturns ==
  \A s \in Step : \A t \in StepsOf(ProcOf[s]) :
    (Locked(s) /\ stepStatus[t] = "completed") =>
      \/ tx[s].snap.step[t] = "completed"
      \/ Resuming(t) \/ t \in dropped

(* A step is not completed while its child is active, as it is or as a        *)
(* transaction sees it.                                                       *)
CallersWait ==
  \A c \in Proc \ Roots :
    procStatus[c] = "active" => stepStatus[Caller[c]] # "completed"

SnapshotCallersWait ==
  \A s \in Step : Locked(s) => \A c \in Proc \ Roots :
    tx[s].snap.proc[c] = "active" => tx[s].snap.step[Caller[c]] # "completed"

CompletionInv ==
  /\ SafetyInv
  /\ SnapshotMissesOnlyReturns
  /\ CallersWait
  /\ SnapshotCallersWait
  /\ NoLostCompletion

(* A child becomes active by blocking its caller, and only a completed child  *)
(* unblocks it.                                                               *)
LEMMA CallersWaitStep ==
  ASSUME SafetyInv, CallersWait, [Next]_vars
  PROVE  CallersWait'
<1> SUFFICES ASSUME NEW c \in Proc, Caller[c] # NoStep, procStatus'[c] = "active"
             PROVE  stepStatus'[Caller[c]] # "completed"
  BY DEF CallersWait, Roots
<1> DEFINE t == Caller[c]
<1>0. t \in Step
  BY DataAssumption DEF DataAssumption
<1>1. CASE UNCHANGED Lifecycle!vars
  BY <1>1 DEF Lifecycle!vars, CallersWait, Roots
<1>2. CASE Lifecycle!Next
  <2>1. Lifecycle!StepMoves(t) /\ Lifecycle!ProcMoves(c)
    BY <1>0, <1>2 DEF Lifecycle!Next
  <2>2. CASE procStatus[c] = "active"
    <3>1. stepStatus[t] = "blocked"
      BY <1>0, <2>2 DEF SafetyInv, CallersWait, Roots, Lifecycle!Inv,
         Lifecycle!OneChildPerCallStep, Lifecycle!Roots
    <3>2. \A d \in Proc : Caller[d] = t /\ procStatus[d] # "absent" => d = c
      BY <2>2 DEF SafetyInv, Lifecycle!Inv, Lifecycle!OneChildPerCallStep,
         Lifecycle!Roots, Lifecycle!ChildrenOf
    <3> QED
      BY <2>1, <2>2, <3>1, <3>2 DEF Lifecycle!StepMoves, Lifecycle!StepBegins,
         Lifecycle!StepOpens, Lifecycle!StepCalls, Lifecycle!StepCompletes,
         Lifecycle!StepReturns, Lifecycle!StepFrom, Lifecycle!ChildrenOf
  <2>3. CASE procStatus[c] # "active"
    BY <2>1, <2>3 DEF Lifecycle!ProcMoves, Lifecycle!ProcBegins, Lifecycle!ProcCompletes,
       Lifecycle!ProcFrom, Lifecycle!Roots, Lifecycle!StepCalls, Lifecycle!StepFrom
  <2> QED  BY <2>2, <2>3
<1> QED
  BY <1>1, <1>2, StepRefines

(* A snapshot is a state of the database.                                     *)
LEMMA SnapshotCallersWaitStep ==
  ASSUME SafetyInv, CallersWait, SnapshotCallersWait, [Next]_vars
  PROVE  SnapshotCallersWait'
<1> SUFFICES ASSUME NEW s \in Step, tx'[s] # NoTx, NEW c \in Proc, c \notin Roots
             PROVE  tx'[s].snap.proc[c] = "active" =>
                      tx'[s].snap.step[Caller[c]] # "completed"
  BY DEF SnapshotCallersWait, Locked, Roots
<1>1. CASE JustBegun(s)
  BY <1>1 DEF JustBegun, Db, CallersWait
<1>2. CASE StaysOpen(s)
  BY <1>2 DEF StaysOpen, SnapshotCallersWait
<1> QED
  BY <1>1, <1>2, TxStep

(* What a commit does to the steps of a process.                              *)
LEMMA CommitSteps ==
  ASSUME SafetyInv, NEW s \in Step, Commit(s), NEW t \in Step, stepStatus'[t] = "completed"
  PROVE  \/ stepStatus[t] = "completed"
         \/ t = s /\ Completes(s)
<1>1. PICK m \in TriggerOutcomes :
        \E children \in NewChildren(Spawning(s, m)) : Write(s, Enabled(s, m), children)
  BY DEF Commit
<1>2. PICK children \in NewChildren(Spawning(s, m)) : Write(s, Enabled(s, m), children)
  BY <1>1
<1> QED
  BY <1>2 DEF Write, InitialStatus, OwnStatus, OpenStatus

(* A step is completed by a commit that has scanned its process, or returns.  *)
LEMMA CompletedBy ==
  ASSUME SafetyInv, [Next]_vars, NEW t \in Step,
         stepStatus[t] # "completed", stepStatus'[t] = "completed"
  PROVE  Resume(t) \in calls' \/ (Commit(t) /\ Completes(t))
<1>1. ASSUME NEW p \in Proc, StartProcess(p) PROVE FALSE
  BY <1>1 DEF StartProcess, InitialStatus
<1>2. ASSUME NEW c \in Proc, HandleChildTerminal(c) PROVE Resume(t) \in calls'
  BY <1>2 DEF HandleChildTerminal, SafetyInv, TypeOK
<1>3. ASSUME NEW s \in Step, Commit(s) PROVE Commit(t) /\ Completes(t)
  BY <1>3, CommitSteps
<1>4. CASE /\ ~\E p \in Proc : StartProcess(p)
           /\ ~\E s \in Step : Commit(s)
           /\ ~\E c \in Proc : HandleChildTerminal(c)
  BY <1>4 DEF Next, Users, Engine, Failures, SubmitRequirement, ReviewSubmission,
     ValidateBinding, TriggerFires, BeginComplete, BeginAdvance, BeginResume,
     DeadlockVictim, Crash, Abort, AbortChildTerminal, vars, database
<1> QED
  BY <1>1, <1>2, <1>3, <1>4

(* What is dropped stays so; a resume ends by its commit or is dropped.       *)
LEMMA ResumeEnds ==
  ASSUME SafetyInv, [Next]_vars, NEW t \in Step, stepStatus[t] = "completed"
  PROVE  /\ dropped \subseteq dropped'
         /\ Resuming(t) => \/ Resuming(t)' \/ t \in dropped'
                           \/ Commit(t) /\ tx[t].op = "resume"
<1> USE DEF Resuming
<1>1. ASSUME NEW p \in Proc, StartProcess(p)
      PROVE  UNCHANGED <<tx, dropped>> /\ calls \subseteq calls'
  BY <1>1 DEF StartProcess
<1>2. ASSUME NEW s \in Step,
             SubmitRequirement(s) \/ ReviewSubmission(s) \/ ValidateBinding(s)
               \/ TriggerFires(s)
      PROVE  UNCHANGED <<tx, dropped>> /\ calls \subseteq calls'
  BY <1>2 DEF SubmitRequirement, ReviewSubmission, ValidateBinding, TriggerFires
<1>3. ASSUME NEW c \in Proc, HandleChildTerminal(c) \/ AbortChildTerminal(c)
      PROVE  UNCHANGED <<tx, dropped>> /\ calls \subseteq calls'
  BY <1>3 DEF HandleChildTerminal, AbortChildTerminal
<1>4. CASE UNCHANGED vars
  BY <1>4 DEF vars, memory
<1>5. ASSUME NEW s \in Step, BeginAdvance(s) \/ BeginComplete(s)
      PROVE  dropped \subseteq dropped' /\ (Resuming(t) => Resuming(t)')
  BY <1>5 DEF BeginAdvance, BeginComplete, Open, Locked, NoTx, Resume, Advance,
     SafetyInv, TypeOK
<1>6. ASSUME NEW s \in Step, BeginResume(s)
      PROVE  dropped \subseteq dropped' /\ (Resuming(t) => Resuming(t)')
  BY <1>6 DEF BeginResume, Open, Locked, NoTx, Resume, SafetyInv, TypeOK
<1>7. ASSUME NEW s \in Step, Commit(s)
      PROVE  /\ dropped \subseteq dropped'
             /\ Resuming(t) => Resuming(t)' \/ (Commit(t) /\ tx[t].op = "resume")
  BY <1>7 DEF Commit, SafetyInv, TypeOK
<1>8. ASSUME NEW s \in Step, DeadlockVictim(s) \/ Abort(s)
      PROVE  dropped \subseteq dropped' /\ (Resuming(t) => Resuming(t)' \/ t \in dropped')
  BY <1>8 DEF DeadlockVictim, Abort, RollBack, SafetyInv, TypeOK
<1>9. CASE Crash
  BY <1>9 DEF Crash
<1> QED
  BY <1>1, <1>2, <1>3, <1>4, <1>5, <1>6, <1>7, <1>8, <1>9 DEF Next, Users, Engine, Failures

(* A completing commit finds no row of its process locked, so every other     *)
(* transaction takes its snapshot after it.                                   *)
LEMMA SnapshotMissesStep ==
  ASSUME ScanScope = "process", SafetyInv, SnapshotMissesOnlyReturns, [Next]_vars
  PROVE  SnapshotMissesOnlyReturns'
<1> SUFFICES ASSUME NEW s \in Step, NEW t \in Step, ProcOf[t] = ProcOf[s],
                    tx'[s] # NoTx, stepStatus'[t] = "completed"
             PROVE  \/ tx'[s].snap.step[t] = "completed"
                    \/ Resuming(t)' \/ t \in dropped'
  BY DEF SnapshotMissesOnlyReturns, Locked, StepsOf
<1>1. CASE JustBegun(s)
  BY <1>1 DEF JustBegun, Db
<1>2. CASE StaysOpen(s)
  <2>1. ~(Commit(t) /\ Completes(t))
    BY <1>2 DEF Commit, ScannedRows, StepsOf, StaysOpen, SafetyInv, TypeOK, Locked
  <2>2. CASE stepStatus[t] # "completed"
    BY <2>1, <2>2, CompletedBy DEF Resuming
  <2>3. CASE stepStatus[t] = "completed"
    <3>1. tx[s].snap.step[t] = "completed" \/ Resuming(t) \/ t \in dropped
      BY <1>2, <2>3 DEF SnapshotMissesOnlyReturns, StaysOpen, StepsOf
    <3> QED
      BY <1>2, <2>1, <2>3, <3>1, ResumeEnds DEF Completes, StaysOpen
  <2> QED  BY <2>2, <2>3
<1> QED
  BY <1>1, <1>2, TxStep

(* The hypothesis of NoLostCompletion for one step.                           *)
Settled(s) ==
  /\ stepStatus[s] = "completed" /\ ~Locked(s)
  /\ Resume(s) \notin calls /\ s \notin dropped

(* A commit that completes its step when all others of the process are settled*)
(* completes the process: its snapshot shows all of them completed, and every *)
(* child that one of them has called.                                         *)
LEMMA LastCommitCompletes ==
  ASSUME CompletionInv, NEW s \in Step, Commit(s), Completes(s),
         \A t \in StepsOf(ProcOf[s]) \ {s} : Settled(t),
         ProcOf[s] \in Roots => \A t \in StepsOf(ProcOf[s]) : ~Bound(t)
  PROVE  procStatus'[ProcOf[s]] = "completed"
<1> DEFINE p == ProcOf[s]
<1> USE DEF CompletionInv
<1>1. /\ Locked(s) /\ p \in Proc /\ procStatus[p] \in {"active", "completed"}
      /\ tx[s].snap \in Snapshots /\ stepStatus[s] = tx[s].snap.step[s]
  BY LockedTx, DataAssumption DEF Commit, DataAssumption
<1>2. AllDone(s)
  <2>1. ASSUME NEW t \in StepsOf(p) \ {s}
        PROVE  tx[s].snap.step[t] = "completed"
    <3>1. t \in Step /\ Settled(t)
      BY <2>1 DEF StepsOf
    <3>2. ~Resuming(t) /\ t \notin dropped
      BY <3>1 DEF Resuming, Settled, Locked, NoTx
    <3> QED
      BY <1>1, <2>1, <3>1, <3>2 DEF SnapshotMissesOnlyReturns, Settled
  <2> QED  BY <2>1 DEF AllDone
<1>3. PICK m \in TriggerOutcomes :
        \E children \in NewChildren(Spawning(s, m)) : Write(s, Enabled(s, m), children)
  BY DEF Commit
<1>4. PICK children \in NewChildren(Spawning(s, m)) : Write(s, Enabled(s, m), children)
  BY <1>3
<1>5. p \notin children
  BY <1>1, SpawnedNew
<1>6. CASE p \notin Roots
  <2>1. ChildDone(s)
    BY <1>1, <1>2, <1>6 DEF ChildDone, Roots
  <2> QED
    BY <1>1, <1>4, <1>5, <2>1 DEF Write
<1>7. CASE p \in Roots
  <2>1. ~ChildReported(s)
    BY <1>7 DEF ChildReported, ChildDone, Roots
  <2>2. ASSUME NEW c \in Proc, Caller[c] # NoStep, ProcOf[Caller[c]] = p
        PROVE  tx[s].snap.proc[c] \in {"absent", "completed", "canceled"}
    <3> DEFINE t == Caller[c]
    <3>1. t \in Step /\ t \in StepsOf(p) /\ c \notin Roots
      BY <2>2, DataAssumption DEF DataAssumption, StepsOf, Roots
    <3>2. tx[s].snap.proc[c] \in ProcStates
      BY <1>1, <2>2 DEF Snapshots
    <3>3. CASE tx[s].snap.step[t] = "completed"
      BY <1>1, <3>1, <3>2, <3>3 DEF SnapshotCallersWait, ProcStates
    <3>4. CASE tx[s].snap.step[t] # "completed"
      <4>1. t = s
        BY <1>2, <3>1, <3>4 DEF AllDone
      <4>2. stepStatus[t] \in {"pending", "ready"}
        BY <1>1, <3>4, <4>1, LockedTx DEF TxOps
      <4>3. procStatus[c] = "absent"
        BY <2>2, <3>1, <4>2 DEF SafetyInv, Lifecycle!Inv, Lifecycle!OneChildPerCallStep,
           Lifecycle!Roots
      <4> QED
        BY <1>1, <2>2, <4>3 DEF SafetyInv, SnapshotsLag
    <3> QED  BY <3>3, <3>4
  <2>3. CanComplete(s)
    BY <1>2, <1>7, <2>2 DEF CanComplete, AllDone
  <2>4. JobDone(s)
    BY <1>2, <2>1, <2>3 DEF JobDone, TellsHost, HostAgrees
  <2> QED
    BY <1>1, <1>4, <1>5, <2>4 DEF Write
<1> QED
  BY <1>6, <1>7

(* A step that is settled was so before, unless a commit has settled it.      *)
LEMMA SettledBy ==
  ASSUME SafetyInv, [Next]_vars, NEW t \in Step, Settled(t)'
  PROVE  Settled(t) \/ (Commit(t) /\ Completes(t))
<1> USE DEF Settled
<1>1. ASSUME NEW p \in Proc, StartProcess(p) PROVE Settled(t)
  BY <1>1 DEF StartProcess, InitialStatus, Locked
<1>2. ASSUME NEW s \in Step,
             SubmitRequirement(s) \/ ReviewSubmission(s) \/ ValidateBinding(s)
               \/ TriggerFires(s)
      PROVE  Settled(t)
  BY <1>2 DEF SubmitRequirement, ReviewSubmission, ValidateBinding, TriggerFires,
     database, Locked
<1>3. ASSUME NEW c \in Proc, HandleChildTerminal(c) PROVE Settled(t)
  BY <1>3 DEF HandleChildTerminal, Locked, SafetyInv, TypeOK
<1>4. ASSUME NEW c \in Proc, AbortChildTerminal(c) PROVE Settled(t)
  BY <1>4 DEF AbortChildTerminal, database, Locked
<1>5. CASE UNCHANGED vars
  BY <1>5 DEF vars, database, memory, Locked
<1>6. ASSUME NEW s \in Step, BeginAdvance(s) \/ BeginComplete(s) PROVE Settled(t)
  BY <1>6 DEF BeginAdvance, BeginComplete, Open, Locked, NoTx, Resume, Advance,
     database, SafetyInv, TypeOK
<1>7. ASSUME NEW s \in Step, BeginResume(s) PROVE Settled(t)
  BY <1>7 DEF BeginResume, Open, Locked, NoTx, Resume, database, SafetyInv, TypeOK
<1>8. ASSUME NEW s \in Step, Commit(s)
      PROVE  Settled(t) \/ (Commit(t) /\ Completes(t))
  <2>1. CASE t = s
    <3>1. Completes(s) \/ stepStatus[s] = "completed"
      BY <1>8, <2>1, CommitSteps
    <3>2. stepStatus[s] = "completed" => tx[s].op = "resume"
      BY <1>8, LockedTx DEF Commit, TxOps
    <3> QED
      BY <1>8, <2>1, <3>1, <3>2 DEF Completes
  <2>2. CASE t # s
    BY <1>8, <2>2, CommitSteps DEF Commit, Locked, SafetyInv, TypeOK
  <2> QED  BY <2>1, <2>2
<1>9. ASSUME NEW s \in Step, DeadlockVictim(s) \/ Abort(s) PROVE Settled(t)
  <2>1. CASE t = s
    <3>1. Locked(s) /\ stepStatus[s] = "completed"
      BY <1>9, <2>1 DEF DeadlockVictim, Abort, database
    <3>2. tx[s].op = "resume"
      BY <3>1, LockedTx DEF TxOps
    <3> QED
      BY <1>9, <2>1, <3>2 DEF DeadlockVictim, Abort, RollBack
  <2>2. CASE t # s
    BY <1>9, <2>2 DEF DeadlockVictim, Abort, RollBack, Locked, database, SafetyInv, TypeOK
  <2> QED  BY <2>1, <2>2
<1>10. CASE Crash
  <2>1. stepStatus[t] = "completed" /\ ~Resuming(t) /\ t \notin dropped
    BY <1>10 DEF Crash, database
  <2>2. ~Locked(t)
    BY <2>1, LockedTx DEF Resuming, TxOps
  <2> QED  BY <2>1, <2>2 DEF Resuming
<1> QED
  BY <1>1, <1>2, <1>3, <1>4, <1>5, <1>6, <1>7, <1>8, <1>9, <1>10
     DEF Next, Users, Engine, Failures

(* So a process whose steps settle is completed by the commit of the last.    *)
LEMMA NoLostCompletionStep ==
  ASSUME CompletionInv, [Next]_vars
  PROVE  NoLostCompletion'
<1> SUFFICES ASSUME NEW p \in Proc, StepsOf(p) # {},
                    p \in Roots => \A s \in StepsOf(p) : ~Bound(s),
                    \A s \in StepsOf(p) : Settled(s)'
             PROVE  procStatus'[p] = "completed"
  BY DEF NoLostCompletion, Settled, Locked, StepsOf, Bound
<1> USE DEF CompletionInv
<1>1. CASE \A s \in StepsOf(p) : Settled(s)
  <2>1. procStatus[p] = "completed"
    BY <1>1 DEF NoLostCompletion, Settled
  <2> QED  BY <2>1, StatusesAdvance
<1>2. CASE ~\A s \in StepsOf(p) : Settled(s)
  <2>1. PICK s \in StepsOf(p) : ~Settled(s)
    BY <1>2
  <2>2. s \in Step /\ ProcOf[s] = p /\ Commit(s) /\ Completes(s)
    BY <2>1, SettledBy DEF StepsOf
  <2>3. ASSUME NEW t \in StepsOf(p) \ {s} PROVE Settled(t)
    <3>1. t \in Step /\ tx'[t] = NoTx
      BY <2>3 DEF StepsOf, Settled, Locked
    <3>2. ~Commit(t)
      BY <2>2, <2>3, <3>1 DEF Commit, Locked, SafetyInv, TypeOK
    <3> QED  BY <2>3, <3>1, <3>2, SettledBy
  <2> QED
    BY <2>2, <2>3, LastCommitCompletes
<1> QED
  BY <1>1, <1>2

(* Where the scan locks every row of the process, the completion of a process *)
(* is lost only with a resume: two transactions that complete the last steps  *)
(* cannot each leave it to the other.                                         *)
THEOREM CompletionIsNotLost ==
  ASSUME ScanScope = "process"
  PROVE  Spec => []NoLostCompletion
<1>1. Init => CompletionInv
  <2>1. Init => SnapshotMissesOnlyReturns /\ CallersWait /\ SnapshotCallersWait
    BY DEF Init, SnapshotMissesOnlyReturns, CallersWait, SnapshotCallersWait, Locked
  <2>2. Init => NoLostCompletion
    BY DEF Init, NoLostCompletion, StepsOf
  <2> QED
    BY <2>1, <2>2, InitSafe DEF CompletionInv
<1>2. CompletionInv /\ [Next]_vars => CompletionInv'
  BY SafeStep, SnapshotMissesStep, CallersWaitStep, SnapshotCallersWaitStep,
     NoLostCompletionStep DEF CompletionInv
<1>3. CompletionInv => NoLostCompletion
  BY DEF CompletionInv
<1> QED
  BY <1>1, <1>2, <1>3, PTL DEF Spec
=============================================================================
