------------------------- MODULE MCJobQueueEffects --------------------------
(* Small instances of JobQueueEffects for TLC.                             *)
EXTENDS JobQueueEffects, MCJobQueue, TLC

CONSTANT MaxMishaps \* jobs and events that the properties except

(* Ids and callers are only compared; events may differ in kind.           *)
Symmetry == Permutations(Jobs) \cup Permutations(Runners)
               \cup Permutations(Admins)

FewMishaps ==
    /\ FewAttempts
    /\ Cardinality(shared) + Cardinality(excused) + Cardinality(lost) <= MaxMishaps
=============================================================================
