----------------------------- MODULE MCJobQueue -----------------------------
(* A small instance of JobQueue for TLC.                                   *)
EXTENDS JobQueue

(* A stale save may leave a job pending that has used up its attempts; it  *)
(* is then begun once more, and so on.                                     *)
FewAttempts == \A j \in Jobs : job[j].attempts <= MaxAttempts
=============================================================================
