--------------------------- MODULE ShiftPlannerMC ---------------------------
(***************************************************************************)
(* Days of six ticks, four of which are searched.  "ann" works in two      *)
(* intervals every second day and is off on one of them, "bob" works in    *)
(* intervals that overlap, "eve" has no hours at all.                      *)
(***************************************************************************)
EXTENDS ShiftPlanner, TLC

Slot(a, b) == [start |-> a, end |-> b]
MCSlots == ("ann" :> << <<Slot(1, 3), Slot(4, 5)>>, <<>> >>)
        @@ ("bob" :> << <<Slot(0, 3), Slot(2, 4)>>, <<Slot(3, 6)>> >>)
        @@ ("eve" :> << <<>> >>)
MCOffDates == ("ann" :> {2}) @@ ("bob" :> {}) @@ ("eve" :> {})

Ask(u, a, b) == [user |-> u, start |-> a, end |-> b]
MCPlans == { <<Ask("ann", 0, 2), Ask("bob", 1, 4)>>,
             <<Ask("ann", 2, 7), Ask("ann", 3, 5)>>,
             <<Ask("bob", 3, 10), Ask("eve", 4, 9)>>,
             <<Ask("ann", 14, 15)>> }

MCTaskOf == ("c1" :> "t1") @@ ("c2" :> "t1") @@ ("c3" :> "t2")
=============================================================================
