------------------------- MODULE MCPgCommandJournal -------------------------
(* Model checking of PgCommandJournal: two runtimes, two calls in the first. *)
EXTENDS PgCommandJournal, TLC

CONSTANTS p1, p2, c1, c2, c3

MCHome == c1 :> p1 @@ c2 :> p1 @@ c3 :> p2
=============================================================================
