--------------------------- MODULE ProcessLifecycle ---------------------------
(****************************************************************************)
(* What the workflow engine promises of process instances and their steps,  *)
(* without transactions, snapshots, locks, events or failures: every change *)
(* of the two status columns is one atomic step of this specification.      *)
(* ProcessEngine implements it.                                             *)
(****************************************************************************)
EXTENDS Integers, TLAPS

CONSTANTS Step, Proc, NoStep, ProcOf, Order, TaskType, Caller, CallProcess

VARIABLES
  stepStatus,  \* process_instance_steps.status, "absent" before the row exists
  procStatus   \* process_instances.status, "absent" before the row exists

vars == <<stepStatus, procStatus>>

StepsOf(p)    == {s \in Step : ProcOf[s] = p}
Roots         == {p \in Proc : Caller[p] = NoStep}
IsCall(s)     == CallProcess /\ TaskType[s] = "call_process"
ChildrenOf(s) == {c \in Proc : Caller[c] = s}

Init ==
  /\ stepStatus = [s \in Step |-> "absent"]
  /\ procStatus = [p \in Proc |-> "absent"]

-----------------------------------------------------------------------------
(* The moves a step or a process can make.  A transaction of the engine makes *)
(* several of them together.                                                  *)

StepFrom(s, old, new) == stepStatus[s] \in old /\ stepStatus'[s] = new
ProcFrom(p, old, new) == procStatus[p] = old /\ procStatus'[p] = new

(* The rows of a process are inserted together, the first steps ready.        *)
StepBegins(s) ==
  /\ StepFrom(s, {"absent"}, IF Order[s] = 1 THEN "ready" ELSE "pending")
  /\ ProcFrom(ProcOf[s], "absent", "active")

StepOpens(s) == ~IsCall(s) /\ StepFrom(s, {"pending"}, "ready")

(* A call_process step waits for the one child process it starts.             *)
StepCalls(s) ==
  /\ IsCall(s) /\ StepFrom(s, {"pending"}, "blocked")
  /\ \A d \in ChildrenOf(s) : procStatus[d] = "absent"
  /\ \E c \in ChildrenOf(s) :
       /\ procStatus'[c] = "active"
       /\ \A d \in ChildrenOf(s) \ {c} : procStatus'[d] = "absent"

(* An automated step opens, runs and completes in one transaction.            *)
StepCompletes(s) ==
  /\ StepFrom(s, IF TaskType[s] = "automated" THEN {"pending", "ready"} ELSE {"ready"},
              "completed")
  /\ procStatus[ProcOf[s]] = "active"

StepReturns(s) ==
  /\ StepFrom(s, {"blocked"}, "completed")
  /\ \E c \in ChildrenOf(s) : procStatus[c] = "completed"

ProcBegins(p) ==
  /\ ProcFrom(p, "absent", "active")
  /\ p \in Roots \/ (Caller[p] \in Step /\ StepCalls(Caller[p]))
  /\ \A s \in StepsOf(p) : StepBegins(s)

ProcCompletes(p) ==
  /\ ProcFrom(p, "active", "completed")
  /\ \A s \in StepsOf(p) : stepStatus'[s] = "completed"

-----------------------------------------------------------------------------
StepMoves(s) ==
  \/ StepBegins(s) \/ StepOpens(s) \/ StepCalls(s) \/ StepCompletes(s)
  \/ StepReturns(s) \/ stepStatus'[s] = stepStatus[s]

ProcMoves(p) == ProcBegins(p) \/ ProcCompletes(p) \/ procStatus'[p] = procStatus[p]

Next ==
  /\ stepStatus' \in [Step -> {"absent", "pending", "ready", "blocked", "completed"}]
  /\ procStatus' \in [Proc -> {"absent", "active", "completed"}]
  /\ \A s \in Step : StepMoves(s)
  /\ \A p \in Proc : ProcMoves(p)

Spec == Init /\ [][Next]_vars

-----------------------------------------------------------------------------
(* Type invariant. *)
TypeOK ==
  /\ stepStatus \in [Step -> {"absent", "pending", "ready", "blocked", "completed"}]
  /\ procStatus \in [Proc -> {"absent", "active", "completed"}]

(* A process instance is marked completed only when each of its steps is, by  *)
(* whichever of maybeCompleteJob's two updates.                               *)
CompletedProcessIsDone ==
  \A s \in Step : procStatus[ProcOf[s]] = "completed" => stepStatus[s] = "completed"

(* A call_process step other than a first one completes only through a child  *)
(* process that has completed: markCompleted and attemptAdvance cannot        *)
(* complete it behind the child's back.                                       *)
CallStepCompletesThroughChild ==
  \A s \in Step :
    (IsCall(s) /\ Order[s] # 1 /\ stepStatus[s] = "completed") =>
      \E c \in ChildrenOf(s) : procStatus[c] = "completed"

(* A step spawns at most one child, and a child exists exactly while its step *)
(* is blocked or after it has completed, although enableNextSteps and         *)
(* attemptAdvance may both find the step eligible.                            *)
OneChildPerCallStep ==
  \A c \in Proc \ Roots : procStatus[c] # "absent" =>
    /\ stepStatus[Caller[c]] \in {"blocked", "completed"}
    /\ \A d \in ChildrenOf(Caller[c]) : procStatus[d] # "absent" => d = c

(* The rows of a process and of its steps are inserted together, and a        *)
(* call_process step is ready only if it is a first one.                      *)
RowsTogether ==
  \A s \in Step : stepStatus[s] = "absent" <=> procStatus[ProcOf[s]] = "absent"
CallStepNeverReady ==
  \A s \in Step : IsCall(s) /\ Order[s] # 1 => stepStatus[s] # "ready"

Inv ==
  /\ TypeOK
  /\ RowsTogether
  /\ CallStepNeverReady
  /\ CompletedProcessIsDone
  /\ CallStepCompletesThroughChild
  /\ OneChildPerCallStep

-----------------------------------------------------------------------------
(* Every move of the contract preserves its invariant.                        *)

(* Initially nothing exists, and the invariant holds.                         *)
LEMMA InitInv ==
  ASSUME ProcOf \in [Step -> Proc], Caller \in [Proc -> Step \cup {NoStep}], Init
  PROVE  Inv
BY DEF Init, Inv, TypeOK, RowsTogether, CallStepNeverReady, CompletedProcessIsDone,
       CallStepCompletesThroughChild, OneChildPerCallStep, ChildrenOf, Roots

(* Completed stays completed, for a step and for a process.                   *)
LEMMA CompletedStays ==
  ASSUME Inv, Next
  PROVE  /\ \A s \in Step : stepStatus[s] = "completed" => stepStatus'[s] = "completed"
         /\ \A p \in Proc : procStatus[p] = "completed" => procStatus'[p] = "completed"
BY DEF Inv, TypeOK, Next, StepMoves, ProcMoves, StepBegins, StepOpens, StepCalls,
       StepCompletes, StepReturns, ProcBegins, ProcCompletes, StepFrom, ProcFrom

(* The moves of steps and processes preserve each part of the invariant.      *)
LEMMA NextInv ==
  ASSUME ProcOf \in [Step -> Proc], Caller \in [Proc -> Step \cup {NoStep}],
         Inv, Next
  PROVE  Inv'
<1> USE DEF Inv, TypeOK, StepFrom, ProcFrom
<1>1. TypeOK'
  BY DEF Next
<1>2. RowsTogether'
  <2> SUFFICES ASSUME NEW s \in Step
               PROVE  stepStatus'[s] = "absent" <=> procStatus'[ProcOf[s]] = "absent"
    BY DEF RowsTogether
  <2>1. stepStatus[s] = "absent" <=> procStatus[ProcOf[s]] = "absent"
    BY DEF RowsTogether
  <2>2. StepMoves(s) /\ ProcMoves(ProcOf[s]) /\ s \in StepsOf(ProcOf[s])
    BY DEF Next, StepsOf
  <2> QED
    BY <2>1, <2>2 DEF StepMoves, ProcMoves, StepBegins, StepOpens, StepCalls,
       StepCompletes, StepReturns, ProcBegins, ProcCompletes
<1>3. CallStepNeverReady'
  BY DEF CallStepNeverReady, Next, StepMoves, StepBegins, StepOpens, StepCalls,
         StepCompletes, StepReturns, IsCall
<1>4. CompletedProcessIsDone'
  <2> SUFFICES ASSUME NEW s \in Step, procStatus'[ProcOf[s]] = "completed"
               PROVE  stepStatus'[s] = "completed"
    BY DEF CompletedProcessIsDone
  <2>1. CASE procStatus[ProcOf[s]] = "completed"
    BY <2>1, CompletedStays DEF CompletedProcessIsDone
  <2>2. CASE procStatus[ProcOf[s]] # "completed"
    <3>1. ProcMoves(ProcOf[s]) /\ s \in StepsOf(ProcOf[s])
      BY DEF Next, StepsOf
    <3> QED  BY <2>2, <3>1 DEF ProcMoves, ProcBegins, ProcCompletes
  <2> QED  BY <2>1, <2>2
<1>5. CallStepCompletesThroughChild'
  <2> SUFFICES ASSUME NEW s \in Step, IsCall(s), Order[s] # 1,
                      stepStatus'[s] = "completed"
               PROVE  \E c \in ChildrenOf(s) : procStatus'[c] = "completed"
    BY DEF CallStepCompletesThroughChild, IsCall, ChildrenOf
  <2>1. StepMoves(s)
    BY DEF Next
  <2>2. \E c \in ChildrenOf(s) : procStatus[c] = "completed"
    BY <2>1 DEF StepMoves, StepBegins, StepOpens, StepCalls, StepCompletes,
       StepReturns, IsCall, CallStepNeverReady, CallStepCompletesThroughChild
  <2> QED  BY <2>2, CompletedStays DEF ChildrenOf
<1>6. OneChildPerCallStep'
  <2> SUFFICES ASSUME NEW c \in Proc, Caller[c] # NoStep, procStatus'[c] # "absent"
               PROVE  /\ stepStatus'[Caller[c]] \in {"blocked", "completed"}
                      /\ \A d \in Proc :
                           Caller[d] = Caller[c] /\ procStatus'[d] # "absent" => d = c
    BY DEF OneChildPerCallStep, Roots, ChildrenOf
  <2> DEFINE t == Caller[c]
  <2>1. t \in Step /\ StepMoves(t) /\ ProcMoves(c)
    BY DEF Next
  <2>2. CASE procStatus[c] # "absent"
    <3>1. /\ stepStatus[t] \in {"blocked", "completed"}
          /\ \A d \in Proc : Caller[d] = t /\ procStatus[d] # "absent" => d = c
      BY <2>2 DEF OneChildPerCallStep, Roots, ChildrenOf
    <3>2. stepStatus'[t] \in {"blocked", "completed"} /\ ~StepCalls(t)
      BY <2>1, <3>1 DEF StepMoves, StepBegins, StepOpens, StepCalls, StepCompletes,
         StepReturns
    <3>3. ASSUME NEW d \in Proc, Caller[d] = t, procStatus'[d] # "absent"
          PROVE  d = c
      <4>1. ProcMoves(d)
        BY DEF Next
      <4>2. procStatus[d] # "absent"
        BY <3>2, <3>3, <4>1 DEF ProcMoves, ProcBegins, ProcCompletes, Roots
      <4> QED  BY <3>1, <3>3, <4>2
    <3> QED  BY <3>2, <3>3
  <2>3. CASE procStatus[c] = "absent"
    <3>1. StepCalls(t)
      BY <2>1, <2>3 DEF ProcMoves, ProcBegins, ProcCompletes, Roots
    <3>2. PICK e \in ChildrenOf(t) : \A d \in ChildrenOf(t) \ {e} : procStatus'[d] = "absent"
      BY <3>1 DEF StepCalls
    <3>3. \A d \in Proc : Caller[d] = t /\ procStatus'[d] # "absent" => d = e
      BY <3>2 DEF ChildrenOf
    <3> QED  BY <3>1, <3>3 DEF StepCalls
  <2> QED  BY <2>2, <2>3
<1> QED  BY <1>1, <1>2, <1>3, <1>4, <1>5, <1>6
=============================================================================
