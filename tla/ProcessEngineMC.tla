--------------------------- MODULE ProcessEngineMC ---------------------------
(****************************************************************************)
(* Small instances of ProcessEngine for TLC.  A shape gives the steps, the  *)
(* process each belongs to, its order and its task type.                    *)
(****************************************************************************)
EXTENDS ProcessEngine, TLC

(* Nested: a process whose second step calls a child.  Two process ids may    *)
(* become that child, so a second spawn would show; the child has two first   *)
(* steps of the same order, which users complete concurrently.                *)
NestedStep  == {"r1", "r2", "r3", "k1", "k2", "m1"}
NestedProc  == {"root", "kid", "kid2"}
NestedOf    == ("r1" :> "root") @@ ("r2" :> "root") @@ ("r3" :> "root")
            @@ ("k1" :> "kid")  @@ ("k2" :> "kid")
            @@ ("m1" :> "kid2")
NestedOrder == [s \in NestedStep |->
                  CASE s = "r2" -> 2 [] s = "r3" -> 3 [] OTHER -> 1]
NestedType  == [s \in NestedStep |->
                  CASE s = "r2" -> "call_process" [] s = "r3" -> "automated"
                    [] OTHER -> "manual"]
NestedCaller == ("root" :> "none") @@ ("kid" :> "r2") @@ ("kid2" :> "r2")
NestedTrigger == [s \in NestedStep |-> IF s = "r3" THEN "jsonlogic" ELSE "none"]

(* Chain: a process of three steps, the second calling a child of two.  The   *)
(* first step of the child has an object binding, provisioned when its timer  *)
(* fires.  The second steps of both have a requirement: once it is approved   *)
(* both steps of the child are open and can be completed concurrently, and    *)
(* the child can run, end and resume its caller while r1 is still open.       *)
ChainStep    == {"r1", "r2", "r3", "k1", "k2"}
ChainProc    == {"root", "kid"}
ChainOf      == [s \in ChainStep |-> IF s \in {"k1", "k2"} THEN "kid" ELSE "root"]
ChainOrder   == [s \in ChainStep |->
                   CASE s \in {"r1", "k1"} -> 1 [] s \in {"r2", "k2"} -> 2
                     [] s = "r3" -> 3]
ChainType    == [s \in ChainStep |->
                   CASE s = "r2" -> "call_process" [] s = "k1" -> "config_object"
                     [] s = "r3" -> "automated" [] OTHER -> "manual"]
ChainCaller  == ("root" :> "none") @@ ("kid" :> "r2")
ChainTrigger == [s \in ChainStep |-> IF s = "k1" THEN "deferred" ELSE "none"]
=============================================================================
