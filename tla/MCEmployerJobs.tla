--------------------------- MODULE MCEmployerJobs ---------------------------
(* A small instance of EmployerJobs for TLC.                               *)
EXTENDS EmployerJobs, TLC

(* One submission in a tick. *)
OneATick == {[limit |-> 1, window |-> 1]}

(* Of the requests, two run at a time. *)
TwoAtATime == Cardinality({p \in Posters : poster[p].op # "idle"})
                + Cardinality({a \in Admins : admin[a].at # "idle"}) <= 2

(* Two free submissions are accepted, or one post has a paid plan.         *)
TwoFreeOrOnePaid ==
    Len(accepted) + 2 * Cardinality({j \in Jobs : job[j].plan = "paid"}) <= 2

Symmetry == Permutations(Jobs) \cup Permutations(Posters)
               \cup Permutations(Admins)
=============================================================================
