------------------------- MODULE MCIdempotencyStore -------------------------
(* Small instances of IdempotencyStore for TLC.                            *)
EXTENDS IdempotencyStore, TLC

(* Calls and fingerprints are only compared, so each set may be permuted.  *)
Symmetry == Permutations(Calls) \cup Permutations(Prints)
=============================================================================
