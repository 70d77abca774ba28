------------------------- MODULE ProcessEngineClaims -------------------------
(****************************************************************************)
(* What comments in the code say of the engine, and the engine does not do. *)
(* Each claim is checked on a process of two steps, one of which may call a *)
(* child of one step.                                                       *)
(****************************************************************************)
EXTENDS ProcessEngine, TLC

ClaimStep    == {"a1", "a2", "k1"}
ClaimProc    == {"root", "kid"}
ClaimOf      == [s \in ClaimStep |-> IF s = "k1" THEN "kid" ELSE "root"]
ClaimOrder   == [s \in ClaimStep |-> IF s = "a2" THEN 2 ELSE 1]
NoTrigger    == [s \in ClaimStep |-> "none"]
TimerTrigger == [s \in ClaimStep |-> IF s = "a2" THEN "deferred" ELSE "none"]

(* The call_process step is the first one, or there is none.                  *)
CallFirst    == [s \in ClaimStep |-> IF s = "a1" THEN "call_process" ELSE "manual"]
NoCall       == [s \in ClaimStep |-> "manual"]
CalledFirst  == ("root" :> "none") @@ ("kid" :> "a1")
NeverCalled  == [p \in ClaimProc |-> "none"]

(* Everything before s in its process is completed. *)
Reached(s) ==
  \A t \in StepsOf(ProcOf[s]) : Order[t] < Order[s] => stepStatus[t] = "completed"

(* child-process-orchestration.service.ts:69 "When a call_process step becomes*)
(* eligible, spawn the child and block the parent step."  A first step is     *)
(* instantiated ready: it is advanced at once, and never found eligible.      *)
EligibleCallStepSpawnsChild ==
  \A s \in {t \in Step : IsCall(t)} :
    (stepStatus[s] \in {"pending", "ready"} /\ Reached(s) /\ Gates(Db, s))
      ~> \E c \in Proc : Caller[c] = s /\ procStatus[c] # "absent"

(* trigger-engine.service.ts:56 "Wired by event bridge; nothing here": once   *)
(* its event or timer has fired, the step that waits for nothing else opens.  *)
FiredTriggerOpensStep ==
  \A s \in Step : (/\ stepStatus[s] = "pending" /\ s \in fired
                   /\ Reached(s) /\ Gates(Db, s)) ~> stepStatus[s] # "pending"
=============================================================================
