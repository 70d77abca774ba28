----------------------- MODULE NotificationPipelineMC -----------------------
(***************************************************************************)
(* A small instance of NotificationPipeline for TLC: two event logs and two *)
(* listeners.                                                              *)
(***************************************************************************)
EXTENDS NotificationPipeline, TLC

(* The second log lacks a variable that its template needs. *)
TwoOutcome == ("log1" :> (("mail" :> "ready")   @@ ("push" :> "skip")))
           @@ ("log2" :> (("mail" :> "missing") @@ ("push" :> "skip")))
=============================================================================
