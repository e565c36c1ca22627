------------------------- MODULE MCRefreshSessions -------------------------
(* Small instances of RefreshSessions.                                     *)
EXTENDS RefreshSessions, TLC

Symmetry == Permutations(Calls) \cup Permutations(Sessions)
=============================================================================
