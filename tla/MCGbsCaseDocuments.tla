------------------------ MODULE MCGbsCaseDocuments ------------------------
(* Small instances of GbsCaseDocuments for TLC.                            *)
EXTENDS GbsCaseDocuments, TLC

Symmetry == Permutations(Reviews) \cup Permutations(Scanners)
               \cup Permutations(Uploads)
=============================================================================
