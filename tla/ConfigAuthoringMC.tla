-------------------------- MODULE ConfigAuthoringMC --------------------------
(***************************************************************************)
(* A published set with one object, two rows below the object, and ids for *)
(* the requests that insert.                                               *)
(***************************************************************************)
EXTENDS ConfigAuthoring, TLC

Symmetry == Permutations(Requests)
MCIds == 1 .. 6
With(a, b) == <<NewRow("set", None, "a"), NewRow("object", 1, "a"), a, b, Unused, Unused>>
MCTables ==
  { With(NewRow("field", 2, "a"), NewRow("rule", 3, "a")),
    With(NewRow("lifecycle", 2, "a"), NewRow("mapping", 2, "a")),
    With(NewRow("view", 2, "a"), NewRow("panel", 3, "a")),
    With(NewRow("transition", 2, "a"), NewRow("relationship", None, "a")),
    [With(NewRow("instance", 2, None), NewRow("view", 2, "a"))
       EXCEPT ![2].mode = "standalone"] }
=============================================================================
