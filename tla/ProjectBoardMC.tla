--------------------------- MODULE ProjectBoardMC ---------------------------
(****************************************************************************)
(* A project for TLC: its process has a manual step, a call_process step    *)
(* beside an automated one (both second in order), and the called process   *)
(* has one step.                                                            *)
(****************************************************************************)
EXTENDS ProjectBoard, TLC

BoardStep   == {"r1", "r2", "r3", "k1"}
BoardProc   == {"root", "kid"}
BoardOf     == [s \in BoardStep |-> IF s = "k1" THEN "kid" ELSE "root"]
BoardOrder  == [s \in BoardStep |-> IF s \in {"r2", "r3"} THEN 2 ELSE 1]
BoardType   == [s \in BoardStep |->
                  CASE s = "r2" -> "call_process" [] s = "r3" -> "automated"
                    [] OTHER -> "manual"]
BoardCaller == ("root" :> "none") @@ ("kid" :> "r2")
NoTriggers  == [s \in BoardStep |-> "none"]

(* The configured lifecycles: work goes forward and ends. *)
BoardTasks    == {<<"pending", "ready">>, <<"ready", "completed">>}
BoardProjects == {<<"active", "on_hold">>, <<"active", "completed">>}
=============================================================================
