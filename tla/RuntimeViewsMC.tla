--------------------------- MODULE RuntimeViewsMC ---------------------------
(***************************************************************************)
(* Two rows, and an id for a request that inserts: a scope with two rows   *)
(* of which one or none is active, a tenant's row before the global one,   *)
(* and the global one alone.                                               *)
(***************************************************************************)
EXTENDS RuntimeViews

CONSTANT t

MCViews  == 1 .. 3
On(s)    == Row(s, "list", TRUE)
Off(s)   == Row(s, "list", FALSE)
MCTables == { <<On(t), Off(t), Unused>>, <<On(Global), On(t), Unused>>,
              <<On(Global), Off(t), Unused>> }
=============================================================================
