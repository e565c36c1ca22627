-------------------------- MODULE MCGbsEngagement --------------------------
(* Small instances of GbsEngagement for TLC: the sets are model values     *)
(* given by the .cfg files.                                                *)
EXTENDS GbsEngagement, TLC

(* No identity is singled out by a definition, so each set of identities   *)
(* may be permuted.                                                        *)
Symmetry == Permutations(Requests) \cup Permutations(Quotes)
                \cup Permutations(Cases) \cup Permutations(Handlers)
                \cup Permutations(Fees)
=============================================================================
