-------------------------- MODULE DeliveryContract --------------------------
(***************************************************************************)
(* What the notification subsystem promises, whatever jobs, batches and    *)
(* retries it is made of.  An event log obliges the system to every        *)
(* listener that is due for it; an obligation is first noted (a            *)
(* notification row exists) and then attempted (a channel was asked to     *)
(* deliver it, or the row records why it cannot be).  Obligations only     *)
(* move forward and none is forgotten: delivery is at least once.          *)
(***************************************************************************)
CONSTANTS Logs,        \* event logs, one per recipient of an event
          Due          \* Due[l]: the listeners that log l has to reach

VARIABLE stage         \* stage[l][k]: how far listener k is served for log l

Stages == {"none", "owed", "noted", "attempted"}

Init == stage = [l \in Logs |-> [k \in Due[l] |-> "none"]]

(* A log is written: all its listeners are owed at once. *)
Raise(l) ==
  /\ \A k \in Due[l] : stage[l][k] = "none"
  /\ stage' = [stage EXCEPT ![l] = [k \in Due[l] |-> "owed"]]

Note(l, k) ==
  /\ stage[l][k] = "owed"
  /\ stage' = [stage EXCEPT ![l][k] = "noted"]

Attempt(l, k) ==
  /\ stage[l][k] = "noted"
  /\ stage' = [stage EXCEPT ![l][k] = "attempted"]

(* A notification whose variables are missing is noted and given up at once. *)
GiveUp(l, k) ==
  /\ stage[l][k] = "owed"
  /\ stage' = [stage EXCEPT ![l][k] = "attempted"]

Next ==
  \E l \in Logs :
    \/ Raise(l)
    \/ \E k \in Due[l] : Note(l, k) \/ Attempt(l, k) \/ GiveUp(l, k)

(* The jobs come back every minute, so what is owed is served in the end; *)
(* nobody has to raise an event.                                          *)
Fairness ==
  \A l \in Logs : \A k \in Due[l] :
    WF_stage(Note(l, k) \/ Attempt(l, k) \/ GiveUp(l, k))

Safe == Init /\ [][Next]_stage
Spec == Safe /\ Fairness
=============================================================================
