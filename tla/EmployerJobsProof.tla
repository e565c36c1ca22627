------------------------- MODULE EmployerJobsProof --------------------------
(***************************************************************************)
(* Theorems about EmployerJobs, for any number of posts, of requests of    *)
(* the employer and of administrators, and for every capacity and quota.   *)
(*                                                                         *)
(* CapacityInv is inductive.  While a transaction holds the guard, the     *)
(* posts that other guarded reviews published can only become fewer, so    *)
(* what it counted at its start still bounds them when it commits; and no  *)
(* other transaction is open meanwhile.                                    *)
(* QuotaInv, further below, does the same for the submissions that are     *)
(* charged: each has a charge of its own on a post.                        *)
(***************************************************************************)
EXTENDS EmployerJobs, FiniteSetTheorems, SequenceTheorems, TLAPS

OneOpen ==
    \A a, b \in Admins : admin[a].at = "open" /\ admin[b].at = "open" => a = b

(* What an open transaction counted bounds the posts that were published   *)
(* under the guard.                                                        *)
OpenBounds ==
    \A a \in Admins :
        admin[a].at = "open" => Cardinality(ActiveFree \ loose) <= admin[a].used

(* A review has something to do when it starts. *)
HasWork ==
    \A a \in Admins : admin[a].at \in {"loaded", "open"} => admin[a].todo # {}

CapacityInv == TypeOK /\ OneOpen /\ OpenBounds /\ HasWork /\ CapacityHolds

-----------------------------------------------------------------------------
(* Documents *)

LEMMA SavedType ==
    ASSUME NEW cur \in Job, NEW old \in Job, NEW new \in Job
    PROVE  Saved(cur, old, new) \in Job
  BY DEF Saved, Field, Job

LEMMA NoJobType == NoJob \in Job
  BY DEF NoJob, Job

LEMMA ReviewedTypes ==
    ASSUME NEW doc \in Job
    PROVE  Approved(doc) \in Job /\ Withdrawn(doc) \in Job
  BY DEF Approved, Withdrawn, Job

LEMMA IdleTypes == IdlePoster \in Poster /\ IdleAdmin \in Admin
  BY NoJobType DEF IdlePoster, IdleAdmin, Poster, Admin

(* Counting. *)
LEMMA Counts ==
    ASSUME NEW S, NEW T, S \subseteq Jobs, T \subseteq Jobs
    PROVE  /\ Cardinality(S) \in Nat
           /\ S \subseteq T => Cardinality(S) <= Cardinality(T)
           /\ \A j : S \subseteq T \cup {j} => Cardinality(S) <= Cardinality(T) + 1
  <1>1. IsFiniteSet(S) /\ IsFiniteSet(T)
    BY EJAssumption, FS_Subset DEF EJAssumption
  <1>2. Cardinality(S) \in Nat /\ Cardinality(T) \in Nat
    BY <1>1, FS_CardinalityType
  <1>3. S \subseteq T => Cardinality(S) <= Cardinality(T)
    BY <1>1, FS_Subset
  <1>4. ASSUME NEW j, S \subseteq T \cup {j}
        PROVE  Cardinality(S) <= Cardinality(T) + 1
    <2>1. /\ IsFiniteSet(T \cup {j})
          /\ Cardinality(T \cup {j}) = Cardinality(T)
               \/ Cardinality(T \cup {j}) = Cardinality(T) + 1
      BY <1>1, FS_AddElement
    <2>2. Cardinality(S) <= Cardinality(T \cup {j})
      BY <1>4, <2>1, FS_Subset
    <2>. QED  BY <2>1, <2>2, <1>2
  <1>. QED  BY <1>2, <1>3, <1>4

LEMMA ActiveFreeJobs == ActiveFree \subseteq Jobs
  BY DEF ActiveFree

(* A write outside the guard adds no post to those published under it.     *)
LEMMA WriteOutside ==
    ASSUME TypeOK, NEW docs \in [Jobs -> Job], WriteJobs(docs)
    PROVE  /\ job' \in [Jobs -> Job] /\ loose' \subseteq Jobs
           /\ ActiveFree' \ loose' \subseteq ActiveFree \ loose
  BY DEF WriteJobs, ActiveFree

-----------------------------------------------------------------------------
(* Steps that leave the reviews alone *)

LEMMA KeepReviews ==
    ASSUME CapacityInv, TypeOK', UNCHANGED admin,
           ActiveFree' \ loose' \subseteq ActiveFree \ loose
    PROVE  CapacityInv'
  <1>1. ActiveFree \ loose \subseteq Jobs /\ (ActiveFree \ loose)' \subseteq Jobs
    BY DEF ActiveFree
  <1>2. /\ Cardinality((ActiveFree \ loose)') <= Cardinality(ActiveFree \ loose)
        /\ Cardinality((ActiveFree \ loose)') \in Nat
        /\ Cardinality(ActiveFree \ loose) \in Nat
    BY <1>1, Counts
  <1>3. OneOpen' /\ HasWork'
    BY DEF CapacityInv, OneOpen, HasWork
  <1>4. OpenBounds'
    BY <1>2 DEF CapacityInv, OpenBounds, TypeOK, Admin
  <1>5. CapacityHolds'
    BY <1>2, EJAssumption DEF CapacityInv, CapacityHolds, EJAssumption
  <1>. QED  BY <1>3, <1>4, <1>5 DEF CapacityInv

(* The requests of the employer, typed. *)
LEMMA DoneType ==
    ASSUME TypeOK, NEW p \in Posters, NEW bumped, Done(p, bumped)
    PROVE  poster' \in [Posters -> Poster]
  <1>1. \A o \in Posters : [poster[o] EXCEPT !.fresh = FALSE] \in Poster
    BY DEF TypeOK, Poster
  <1>. QED  BY <1>1, IdleTypes DEF Done, TypeOK

LEMMA SaveOfType ==
    ASSUME TypeOK, NEW p \in Posters, NEW new \in Job, SaveOf(p, new)
    PROVE  /\ job' \in [Jobs -> Job] /\ loose' \subseteq Jobs
           /\ ActiveFree' \ loose' \subseteq ActiveFree \ loose
  <1>. DEFINE j == poster[p].job
              docs == [job EXCEPT ![j] = Saved(job[j], poster[p].old, new)]
  <1>1. poster[p].old \in Job
    BY DEF TypeOK, Poster
  <1>2. docs \in [Jobs -> Job]
    BY <1>1, SavedType DEF TypeOK
  <1>. QED  BY <1>2, WriteOutside DEF SaveOf

LEMMA ActiveFreeKept ==
    ASSUME UNCHANGED <<job, loose>>
    PROVE  ActiveFree' = ActiveFree
  BY DEF ActiveFree, IsActiveFree

LEMMA StepTick ==
    ASSUME CapacityInv, Tick
    PROVE  CapacityInv'
  <1>1. TypeOK'
    BY DEF CapacityInv, TypeOK, Tick
  <1>. QED  BY <1>1, KeepReviews, ActiveFreeKept DEF Tick

LEMMA StepCreateJob ==
    ASSUME CapacityInv, NEW j \in Jobs, CreateJob(j)
    PROVE  CapacityInv'
  <1>1. PICK plan \in {"free", "none"} :
          job' = [job EXCEPT ![j].status = "draft", ![j].plan = plan]
    BY DEF CreateJob
  <1>2. [job[j] EXCEPT !.status = "draft", !.plan = plan] \in Job
    BY DEF CapacityInv, TypeOK, Job
  <1>3. job' = [job EXCEPT ![j] = [job[j] EXCEPT !.status = "draft", !.plan = plan]]
    BY <1>1 DEF CapacityInv, TypeOK
  <1>4. TypeOK'
    BY <1>2, <1>3 DEF CapacityInv, TypeOK, CreateJob
  <1>5. ActiveFree' \ loose' \subseteq ActiveFree \ loose
    <2>1. \A k \in Jobs : IsActiveFree(job'[k]) => k # j /\ job'[k] = job[k]
      BY <1>3 DEF CapacityInv, TypeOK, Job, IsActiveFree
    <2>. QED  BY <2>1 DEF ActiveFree, CreateJob
  <1>. QED  BY <1>4, <1>5, KeepReviews DEF CreateJob

LEMMA StepLoadJob ==
    ASSUME CapacityInv, NEW p \in Posters, NEW j \in Jobs,
           NEW op \in {"edit", "close", "reopen", "activate"}, LoadJob(p, op, j)
    PROVE  CapacityInv'
  <1>1. job[j] \in Job
    BY DEF CapacityInv, TypeOK
  <1>2. [IdlePoster EXCEPT !.op = op, !.job = j, !.old = job[j]] \in Poster
    BY <1>1, IdleTypes DEF Poster
  <1>3. TypeOK'
    BY <1>2 DEF CapacityInv, TypeOK, LoadJob
  <1>. QED  BY <1>3, KeepReviews, ActiveFreeKept DEF LoadJob

LEMMA StepJudgeSubmission ==
    ASSUME CapacityInv, NEW p \in Posters, NEW free \in BOOLEAN,
           JudgeSubmission(p, free)
    PROVE  CapacityInv'
  <1>1. Len(accepted) \in Nat
    BY DEF CapacityInv, TypeOK
  <1>2. [poster[p] EXCEPT !.op = "submit", !.free = free,
                          !.judged = Len(accepted)] \in Poster
    BY <1>1 DEF CapacityInv, TypeOK, Poster
  <1>3. TypeOK'
    BY <1>2 DEF CapacityInv, TypeOK, JudgeSubmission
  <1>. QED  BY <1>3, KeepReviews, ActiveFreeKept DEF JudgeSubmission

LEMMA StepSaveEdit ==
    ASSUME CapacityInv, NEW p \in Posters, NEW lists \in BOOLEAN,
           SaveEdit(p, lists)
    PROVE  CapacityInv'
  <1>. DEFINE old == poster[p].old
              new == CASE old.status = "active" /\ old.approval = "approved" ->
                            [old EXCEPT !.approval = "pending"]
                       [] old.status = "draft" /\ ~old.submitted ->
                            [old EXCEPT !.approval = "none"]
                       [] OTHER -> old
  <1>1. old \in Job
    BY DEF CapacityInv, TypeOK, Poster
  <1>2. /\ [old EXCEPT !.approval = "pending"] \in Job
        /\ [old EXCEPT !.approval = "none"] \in Job
    BY <1>1 DEF Job
  <1>3. new \in Job
    BY <1>1, <1>2
  <1>4. SaveOf(p, new)
    BY DEF SaveEdit
  <1>. HIDE DEF new
  <1>5. /\ job' \in [Jobs -> Job] /\ loose' \subseteq Jobs
        /\ ActiveFree' \ loose' \subseteq ActiveFree \ loose
    BY <1>3, <1>4, SaveOfType DEF CapacityInv
  <1>6. TypeOK'
    BY <1>5, DoneType DEF CapacityInv, TypeOK, SaveEdit
  <1>. QED  BY <1>5, <1>6, KeepReviews DEF SaveEdit

LEMMA StepSaveStatus ==
    ASSUME CapacityInv, NEW p \in Posters, SaveClose(p) \/ SaveReopen(p)
    PROVE  CapacityInv'
  <1>1. poster[p].old \in Job
    BY DEF CapacityInv, TypeOK, Poster
  <1>2. /\ [poster[p].old EXCEPT !.status = "closed"] \in Job
        /\ [poster[p].old EXCEPT !.status = "draft"] \in Job
    BY <1>1 DEF Job
  <1>3. /\ job' \in [Jobs -> Job] /\ loose' \subseteq Jobs
        /\ ActiveFree' \ loose' \subseteq ActiveFree \ loose
    BY <1>2, SaveOfType DEF CapacityInv, SaveClose, SaveReopen
  <1>4. TypeOK'
    BY <1>3, DoneType DEF CapacityInv, TypeOK, SaveClose, SaveReopen
  <1>. QED  BY <1>3, <1>4, KeepReviews DEF SaveClose, SaveReopen

LEMMA StepSaveSubmission ==
    ASSUME CapacityInv, NEW p \in Posters, SaveSubmission(p)
    PROVE  CapacityInv'
  <1>. DEFINE j == poster[p].job
              old == poster[p].old
              new == [old EXCEPT !.status = "active", !.approval = "pending",
                        !.submitted = TRUE,
                        !.plan = IF poster[p].free THEN "free" ELSE "paid"]
              saved == Saved(job[j], old, new)
              charged == [saved EXCEPT !.charged = Append(@, clock)]
  <1>1. old \in Job /\ clock \in Nat /\ poster[p].free \in BOOLEAN
    BY DEF CapacityInv, TypeOK, Poster
  <1>2. new \in Job
    BY <1>1 DEF Job
  <1>3. j \in Jobs => saved \in Job
    BY <1>1, <1>2, SavedType DEF CapacityInv, TypeOK
  <1>4. ASSUME j \in Jobs  PROVE charged \in Job
    <2>1. saved.charged \in Seq(Nat)
      BY <1>3, <1>4 DEF Job
    <2>2. Append(saved.charged, clock) \in Seq(Nat)
      BY <1>1, <2>1, AppendProperties
    <2>. HIDE DEF saved
    <2>. QED  BY <1>3, <1>4, <2>2 DEF Job
  <1>5. /\ [job EXCEPT ![j] = saved] \in [Jobs -> Job]
        /\ [job EXCEPT ![j] = charged] \in [Jobs -> Job]
    BY <1>3, <1>4 DEF CapacityInv, TypeOK
  <1>6. \/ WriteJobs([job EXCEPT ![j] = saved])
        \/ WriteJobs([job EXCEPT ![j] = charged])
    BY DEF SaveSubmission
  <1>. HIDE DEF charged, saved
  <1>7. /\ job' \in [Jobs -> Job] /\ loose' \subseteq Jobs
        /\ ActiveFree' \ loose' \subseteq ActiveFree \ loose
    BY <1>5, <1>6, WriteOutside DEF CapacityInv
  <1>8. accepted' \in Seq([at : Nat, beside : BOOLEAN])
    <2>. DEFINE Acceptance == [at : Nat, beside : BOOLEAN]
                e == [at |-> clock, beside |-> Len(accepted) # poster[p].judged]
    <2>1. e \in Acceptance
      BY <1>1
    <2>2. UNCHANGED accepted \/ accepted' = Append(accepted, e)
      BY DEF SaveSubmission
    <2>3. accepted \in Seq(Acceptance)
      BY DEF CapacityInv, TypeOK
    <2>. HIDE DEF Acceptance, e
    <2>4. accepted' \in Seq(Acceptance)
      BY <2>1, <2>2, <2>3, AppendProperties
    <2>. QED  BY <2>4 DEF Acceptance
  <1>9. TypeOK'
    <2>1. poster' \in [Posters -> Poster]
      BY DoneType DEF CapacityInv, SaveSubmission
    <2>2. UNCHANGED <<clock, admin>>
      BY DEF SaveSubmission
    <2>. QED  BY <1>7, <1>8, <2>1, <2>2 DEF CapacityInv, TypeOK
  <1>. QED  BY <1>7, <1>9, KeepReviews DEF SaveSubmission

LEMMA StepDropPoster ==
    ASSUME CapacityInv, NEW p \in Posters, DropPoster(p)
    PROVE  CapacityInv'
  <1>1. TypeOK'
    BY IdleTypes DEF CapacityInv, TypeOK, DropPoster
  <1>. QED  BY <1>1, KeepReviews, ActiveFreeKept DEF DropPoster

LEMMA StepListing ==
    ASSUME CapacityInv, NEW j \in Jobs, SuspendListing(j) \/ Archive(j)
    PROVE  CapacityInv'
  <1>1. /\ [job EXCEPT ![j].status = "closed"] \in [Jobs -> Job]
        /\ [job EXCEPT ![j].status = "closed", ![j].approval = "rejected"]
             \in [Jobs -> Job]
    BY DEF CapacityInv, TypeOK, Job
  <1>2. /\ job' \in [Jobs -> Job] /\ loose' \subseteq Jobs
        /\ ActiveFree' \ loose' \subseteq ActiveFree \ loose
    BY <1>1, WriteOutside DEF CapacityInv, SuspendListing, Archive
  <1>3. TypeOK'
    BY <1>2 DEF CapacityInv, TypeOK, SuspendListing, Archive
  <1>. QED  BY <1>2, <1>3, KeepReviews DEF SuspendListing, Archive

-----------------------------------------------------------------------------
(* Steps of the reviews *)

(* A review moves to a record that is not that of an open transaction.     *)
LEMMA MoveReview ==
    ASSUME CapacityInv, NEW a \in Admins, NEW r \in Admin,
           admin' = [admin EXCEPT ![a] = r], r.at # "open",
           r.at = "loaded" => r.todo # {},
           UNCHANGED <<clock, poster, accepted>>,
           job' \in [Jobs -> Job], loose' \subseteq Jobs,
           ActiveFree' \ loose' \subseteq ActiveFree \ loose
    PROVE  CapacityInv'
  <1>1. TypeOK'
    BY DEF CapacityInv, TypeOK
  <1>2. \A b \in Admins : admin'[b] = IF b = a THEN r ELSE admin[b]
    BY DEF CapacityInv, TypeOK
  <1>3. /\ Cardinality((ActiveFree \ loose)') <= Cardinality(ActiveFree \ loose)
        /\ Cardinality((ActiveFree \ loose)') \in Nat
        /\ Cardinality(ActiveFree \ loose) \in Nat
    <2>1. ActiveFree \ loose \subseteq Jobs /\ (ActiveFree \ loose)' \subseteq Jobs
      BY DEF ActiveFree
    <2>. QED  BY <2>1, Counts
  <1>4. OneOpen' /\ HasWork'
    BY <1>2 DEF CapacityInv, OneOpen, HasWork
  <1>5. OpenBounds'
    BY <1>2, <1>3 DEF CapacityInv, OpenBounds, TypeOK, Admin
  <1>6. CapacityHolds'
    BY <1>3, EJAssumption DEF CapacityInv, CapacityHolds, EJAssumption
  <1>. QED  BY <1>1, <1>4, <1>5, <1>6 DEF CapacityInv

(* The next post of a bulk review.                                         *)
LEMMA NextPostType ==
    ASSUME CapacityInv, NEW a \in Admins
    PROVE  /\ NextPost(a) \in Admin /\ NextPost(a).at # "open"
           /\ NextPost(a).at = "loaded" => NextPost(a).todo # {}
  <1>. DEFINE rest == admin[a].todo \ {admin[a].cur}
              r == [admin[a] EXCEPT !.at = "loaded", !.todo = rest, !.cur = None,
                              !.snap = NoJob, !.used = 0]
  <1>1. r \in Admin /\ r.at = "loaded" /\ r.todo = rest
    BY NoJobType DEF CapacityInv, TypeOK, Admin
  <1>2. IdleAdmin \in Admin /\ IdleAdmin.at = "idle"
    BY IdleTypes DEF IdleAdmin
  <1>3. NextPost(a) = IF rest = {} THEN IdleAdmin ELSE r
    BY DEF NextPost
  <1>. HIDE DEF r, rest
  <1>. QED  BY <1>1, <1>2, <1>3

LEMMA StepLoadPending ==
    ASSUME CapacityInv, NEW a \in Admins, NEW todo \in SUBSET Jobs,
           NEW op \in {"approve", "bulkApprove", "bulkAction", "reject",
                       "bulkReject"},
           LoadPending(a, op, todo)
    PROVE  CapacityInv'
  <1>. DEFINE doc == IF op = "approve" THEN job[CHOOSE j \in todo : TRUE]
                                       ELSE NoJob
              r == [IdleAdmin EXCEPT !.op = op, !.at = "loaded", !.todo = todo,
                                     !.old = doc]
  <1>1. todo # {} /\ admin' = [admin EXCEPT ![a] = r]
    BY DEF LoadPending
  <1>2. doc \in Job
    BY <1>1, NoJobType DEF CapacityInv, TypeOK
  <1>. HIDE DEF doc
  <1>3. r \in Admin /\ r.at = "loaded" /\ r.todo = todo
    BY <1>2, IdleTypes DEF Admin
  <1>. HIDE DEF r
  <1>4. job' \in [Jobs -> Job] /\ loose' \subseteq Jobs
    BY DEF LoadPending, CapacityInv, TypeOK
  <1>. QED  BY <1>1, <1>3, <1>4, MoveReview, ActiveFreeKept DEF LoadPending

LEMMA StepOpenTransaction ==
    ASSUME CapacityInv, NEW a \in Admins, NEW j \in Jobs, OpenTransaction(a, j)
    PROVE  CapacityInv'
  <1>. DEFINE r == [admin[a] EXCEPT !.at = "open", !.cur = j, !.snap = job[j],
                                    !.used = Cardinality(ActiveFree)]
  <1>1. Cardinality(ActiveFree) \in Nat /\ job[j] \in Job
    BY Counts, ActiveFreeJobs DEF CapacityInv, TypeOK
  <1>2. /\ r \in Admin /\ r.at = "open" /\ r.used = Cardinality(ActiveFree)
        /\ r.todo = admin[a].todo
    BY <1>1 DEF CapacityInv, TypeOK, Admin
  <1>3. admin' = [admin EXCEPT ![a] = r]
    BY DEF OpenTransaction, BeginApproval, CapacityInv, TypeOK, Admin
  <1>. HIDE DEF r
  <1>4. \A b \in Admins : admin'[b] = IF b = a THEN r ELSE admin[b]
    BY <1>3 DEF CapacityInv, TypeOK
  <1>5. TypeOK'
    BY <1>2, <1>3 DEF CapacityInv, TypeOK, OpenTransaction, BeginApproval
  <1>6. OneOpen' /\ HasWork'
    BY <1>2, <1>4 DEF CapacityInv, OneOpen, HasWork, OpenTransaction, BeginApproval
  <1>7. ActiveFree' = ActiveFree /\ UNCHANGED loose
    BY ActiveFreeKept DEF OpenTransaction, BeginApproval
  <1>8. Cardinality(ActiveFree \ loose) <= Cardinality(ActiveFree)
    <2>1. ActiveFree \ loose \subseteq ActiveFree
      OBVIOUS
    <2>. QED  BY <2>1, Counts, ActiveFreeJobs
  <1>9. OpenBounds'
    BY <1>2, <1>4, <1>7, <1>8 DEF OpenBounds, OpenTransaction
  <1>10. CapacityHolds'
    BY <1>7 DEF CapacityInv, CapacityHolds
  <1>. QED  BY <1>5, <1>6, <1>9, <1>10 DEF CapacityInv

(* The commit of an approval: one more post than was counted, at most.     *)
LEMMA StepApprove ==
    ASSUME CapacityInv, NEW a \in Admins, Approve(a)
    PROVE  CapacityInv'
  <1>. DEFINE j == admin[a].cur
              docs == [job EXCEPT ![j] = Approved(@)]
              again == [admin[a] EXCEPT !.at = "recheck", !.snap = NoJob,
                                        !.used = 0]
              r == IF admin[a].op = "approve" THEN again ELSE NextPost(a)
  <1>1. \/ job' = docs /\ loose' = loose \ {j}
        \/ UNCHANGED <<job, loose>>
    BY DEF Approve
  <1>2. docs \in [Jobs -> Job]
    BY ReviewedTypes DEF CapacityInv, TypeOK
  <1>3. job' \in [Jobs -> Job] /\ loose' \subseteq Jobs
    BY <1>1, <1>2 DEF CapacityInv, TypeOK
  <1>4. (ActiveFree \ loose)' \subseteq (ActiveFree \ loose) \cup {j}
    <2>1. CASE job' = docs /\ loose' = loose \ {j}
      <3>1. \A k \in Jobs : k # j => job'[k] = job[k]
        BY <2>1 DEF CapacityInv, TypeOK
      <3>. QED  BY <2>1, <3>1 DEF ActiveFree
    <2>2. CASE UNCHANGED <<job, loose>>
      BY <2>2, ActiveFreeKept
    <2>. QED  BY <1>1, <2>1, <2>2
  <1>5. /\ Cardinality((ActiveFree \ loose)')
             <= Cardinality(ActiveFree \ loose) + 1
        /\ Cardinality((ActiveFree \ loose)') \in Nat
        /\ Cardinality(ActiveFree \ loose) \in Nat
    <2>1. ActiveFree \ loose \subseteq Jobs /\ (ActiveFree \ loose)' \subseteq Jobs
      BY DEF ActiveFree
    <2>. QED  BY <1>4, <2>1, Counts
  <1>6. CapacityHolds'
    <2>1. /\ Cardinality(ActiveFree \ loose) <= admin[a].used
          /\ admin[a].used < Capacity
      BY DEF CapacityInv, OpenBounds, Approve
    <2>2. admin[a].used \in Nat /\ Capacity \in Nat
      BY EJAssumption DEF CapacityInv, TypeOK, Admin, EJAssumption
    <2>. QED  BY <1>5, <2>1, <2>2 DEF CapacityHolds
  <1>7. again \in Admin /\ again.at = "recheck"
    BY NoJobType DEF CapacityInv, TypeOK, Admin
  <1>8. admin' = [admin EXCEPT ![a] = r]
    BY DEF Approve
  <1>. HIDE DEF again
  <1>9. r \in Admin /\ r.at # "open" /\ (r.at = "loaded" => r.todo # {})
    BY <1>7, NextPostType
  <1>. HIDE DEF r
  <1>10. \A b \in Admins : admin'[b] = IF b = a THEN r ELSE admin[b]
    BY <1>8 DEF CapacityInv, TypeOK
  <1>11. TypeOK'
    BY <1>3, <1>8, <1>9 DEF CapacityInv, TypeOK, Approve
  <1>12. \A b \in Admins : admin'[b].at # "open"
    BY <1>9, <1>10 DEF CapacityInv, OneOpen, Approve
  <1>13. OneOpen' /\ OpenBounds' /\ HasWork'
    BY <1>9, <1>10, <1>12 DEF CapacityInv, OneOpen, OpenBounds, HasWork
  <1>. QED  BY <1>6, <1>11, <1>13 DEF CapacityInv

(* Aborted, or refused for want of capacity.                               *)
LEMMA StepNotApproved ==
    ASSUME CapacityInv, NEW a \in Admins,
           WriteConflict(a) \/ CapacityExhausted(a)
    PROVE  CapacityInv'
  <1>1. /\ job' \in [Jobs -> Job] /\ loose' \subseteq Jobs
        /\ UNCHANGED <<job, loose, clock, poster, accepted>>
    BY DEF WriteConflict, CapacityExhausted, CapacityInv, TypeOK
  <1>2. CASE CapacityExhausted(a)
    BY <1>1, <1>2, NextPostType, MoveReview, ActiveFreeKept
       DEF CapacityExhausted
  <1>3. CASE WriteConflict(a)
    <2>. DEFINE r == [admin[a] EXCEPT !.at = "loaded", !.cur = None,
                                      !.snap = NoJob, !.used = 0]
    <2>1. r \in Admin /\ r.at = "loaded" /\ r.todo = admin[a].todo
      BY NoJobType DEF CapacityInv, TypeOK, Admin
    <2>2. admin' = [admin EXCEPT ![a] = r]
      BY <1>3 DEF WriteConflict, CapacityInv, TypeOK, Admin
    <2>3. admin[a].todo # {}
      BY <1>3 DEF CapacityInv, HasWork, WriteConflict
    <2>. HIDE DEF r
    <2>. QED  BY <1>1, <2>1, <2>2, <2>3, MoveReview, ActiveFreeKept
  <1>. QED  BY <1>2, <1>3

LEMMA StepRecheck ==
    ASSUME CapacityInv, NEW a \in Admins, Recheck(a)
    PROVE  CapacityInv'
  <1>. DEFINE undo == [admin[a] EXCEPT !.at = "undo"]
              r == IF Cardinality(ActiveFree) > Capacity THEN undo ELSE IdleAdmin
  <1>1. undo \in Admin /\ undo.at = "undo"
    BY DEF CapacityInv, TypeOK, Admin
  <1>2. IdleAdmin \in Admin /\ IdleAdmin.at = "idle"
    BY IdleTypes DEF IdleAdmin
  <1>3. admin' = [admin EXCEPT ![a] = r]
    BY DEF Recheck
  <1>. HIDE DEF undo
  <1>4. r \in Admin /\ r.at \in {"undo", "idle"}
    BY <1>1, <1>2
  <1>. HIDE DEF r
  <1>5. /\ job' \in [Jobs -> Job] /\ loose' \subseteq Jobs
        /\ UNCHANGED <<job, loose, clock, poster, accepted>>
    BY DEF Recheck, CapacityInv, TypeOK
  <1>. QED  BY <1>3, <1>4, <1>5, MoveReview, ActiveFreeKept

LEMMA IdleReview == IdleAdmin \in Admin /\ IdleAdmin.at = "idle"
  BY IdleTypes DEF IdleAdmin

LEMMA StepUndo ==
    ASSUME CapacityInv, NEW a \in Admins, Undo(a)
    PROVE  CapacityInv'
  <1>. DEFINE old == admin[a].old
              j == admin[a].cur
              docs == [job EXCEPT ![j].status = old.status,
                                  ![j].approval = old.approval,
                                  ![j].plan = old.plan]
  <1>1. old \in Job
    BY DEF CapacityInv, TypeOK, Admin
  <1>2. docs \in [Jobs -> Job]
    <2>. DEFINE back(doc) == [doc EXCEPT !.status = old.status,
                                !.approval = old.approval, !.plan = old.plan]
    <2>1. job \in [Jobs -> Job]
      BY DEF CapacityInv, TypeOK
    <2>2. \A k \in Jobs : back(job[k]) \in Job
      BY <1>1, <2>1 DEF Job
    <2>3. docs = [k \in Jobs |-> IF k = j THEN back(job[k]) ELSE job[k]]
      BY <2>1 DEF Job
    <2>. HIDE DEF docs, back, old, j
    <2>. QED  BY <2>1, <2>2, <2>3
  <1>3. WriteJobs(docs)
    BY DEF Undo
  <1>. HIDE DEF docs
  <1>4. /\ job' \in [Jobs -> Job] /\ loose' \subseteq Jobs
        /\ ActiveFree' \ loose' \subseteq ActiveFree \ loose
    BY <1>2, <1>3, WriteOutside DEF CapacityInv
  <1>. QED  BY <1>4, IdleReview, MoveReview DEF Undo

LEMMA StepCountSlots ==
    ASSUME CapacityInv, NEW a \in Admins, CountSlots(a)
    PROVE  CapacityInv'
  <1>. DEFINE r == [admin[a] EXCEPT !.at = "counted",
                                    !.used = Cardinality(ActiveFree)]
  <1>1. Cardinality(ActiveFree) \in Nat
    BY Counts, ActiveFreeJobs
  <1>2. r \in Admin /\ r.at = "counted"
    BY <1>1 DEF CapacityInv, TypeOK, Admin
  <1>3. admin' = [admin EXCEPT ![a] = r]
    BY DEF CountSlots, CapacityInv, TypeOK, Admin
  <1>. HIDE DEF r
  <1>4. /\ job' \in [Jobs -> Job] /\ loose' \subseteq Jobs
        /\ UNCHANGED <<job, loose, clock, poster, accepted>>
    BY DEF CountSlots, CapacityInv, TypeOK
  <1>. QED  BY <1>2, <1>3, <1>4, MoveReview, ActiveFreeKept

LEMMA StepPublish ==
    ASSUME CapacityInv, NEW a \in Admins, NEW j \in Jobs, Publish(a, j)
    PROVE  CapacityInv'
  <1>. DEFINE rest == admin[a].todo \ {j}
              docs == [job EXCEPT ![j] = Approved(@)]
              n == admin[a].used
              more == [admin[a] EXCEPT !.todo = rest,
                                       !.used = IF n < Capacity THEN n + 1 ELSE n]
              r == IF rest = {} THEN IdleAdmin ELSE more
  <1>1. docs \in [Jobs -> Job]
    BY ReviewedTypes DEF CapacityInv, TypeOK
  <1>2. WriteJobs(docs) \/ UNCHANGED <<job, loose>>
    BY DEF Publish
  <1>. HIDE DEF docs
  <1>3. /\ job' \in [Jobs -> Job] /\ loose' \subseteq Jobs
        /\ ActiveFree' \ loose' \subseteq ActiveFree \ loose
    <2>1. CASE WriteJobs(docs)
      BY <1>1, <2>1, WriteOutside DEF CapacityInv
    <2>2. CASE UNCHANGED <<job, loose>>
      BY <2>2, ActiveFreeKept DEF CapacityInv, TypeOK
    <2>. QED  BY <1>2, <2>1, <2>2
  <1>4. more \in Admin /\ more.at = "counted"
    <2>1. /\ admin[a] \in Admin /\ admin[a].at = "counted"
          /\ admin[a].used \in Nat /\ Capacity \in Nat
      BY EJAssumption DEF EJAssumption, CapacityInv, TypeOK, Admin, Publish
    <2>2. (IF admin[a].used < Capacity THEN admin[a].used + 1
                                       ELSE admin[a].used) \in Nat
      BY <2>1
    <2>3. rest \in SUBSET Jobs
      BY <2>1 DEF Admin
    <2>. HIDE DEF rest
    <2>. QED  BY <2>1, <2>2, <2>3 DEF Admin
  <1>5. admin' = [admin EXCEPT ![a] = r]
    BY DEF Publish
  <1>. HIDE DEF more
  <1>6. r \in Admin /\ r.at \in {"counted", "idle"}
    BY <1>4, IdleReview
  <1>. HIDE DEF r
  <1>7. UNCHANGED <<clock, poster, accepted>>
    BY DEF Publish
  <1>. QED  BY <1>3, <1>5, <1>6, <1>7, MoveReview

LEMMA StepMarkRejected ==
    ASSUME CapacityInv, NEW a \in Admins, MarkRejected(a)
    PROVE  CapacityInv'
  <1>. DEFINE hit == {j \in admin[a].todo :
                        admin[a].op = "reject" \/ job[j].approval = "pending"}
              docs == [j \in Jobs |-> IF j \in hit
                                      THEN [job[j] EXCEPT !.approval = "rejected"]
                                      ELSE job[j]]
              doc == IF admin[a].op = "reject"
                     THEN docs[CHOOSE j \in admin[a].todo : TRUE]
                     ELSE admin[a].old
              r == [admin[a] EXCEPT !.at = "rejected", !.old = doc]
  <1>1. \A j \in Jobs : /\ job[j] \in Job
                         /\ [job[j] EXCEPT !.approval = "rejected"] \in Job
    BY DEF CapacityInv, TypeOK, Job
  <1>2. docs \in [Jobs -> Job]
    BY <1>1
  <1>3. WriteJobs(docs)
    BY DEF MarkRejected
  <1>4. admin' = [admin EXCEPT ![a] = r]
    <2>1. admin[a] \in Admin /\ admin \in [Admins -> Admin]
      BY DEF CapacityInv, TypeOK
    <2>2. admin' = [admin EXCEPT ![a].at = "rejected",
             ![a].old = IF admin[a].op = "reject"
                        THEN docs[CHOOSE j \in admin[a].todo : TRUE]
                        ELSE admin[a].old]
      BY <2>1 DEF MarkRejected, Admin
    <2>3. admin' = [admin EXCEPT ![a].at = "rejected", ![a].old = doc]
      BY <2>2
    <2>. HIDE DEF doc
    <2>. QED  BY <2>1, <2>3 DEF Admin
  <1>. HIDE DEF docs
  <1>5. admin[a].todo # {} /\ admin[a].todo \subseteq Jobs
    BY DEF MarkRejected, CapacityInv, HasWork, TypeOK, Admin
  <1>6. doc \in Job
    <2>1. admin[a].old \in Job
      BY DEF CapacityInv, TypeOK, Admin
    <2>2. (CHOOSE j \in admin[a].todo : TRUE) \in Jobs
      BY <1>5
    <2>. QED  BY <1>2, <2>1, <2>2
  <1>. HIDE DEF doc
  <1>7. r \in Admin /\ r.at = "rejected"
    BY <1>6 DEF CapacityInv, TypeOK, Admin
  <1>. HIDE DEF r
  <1>8. /\ job' \in [Jobs -> Job] /\ loose' \subseteq Jobs
        /\ ActiveFree' \ loose' \subseteq ActiveFree \ loose
    BY <1>2, <1>3, WriteOutside DEF CapacityInv
  <1>9. UNCHANGED <<clock, poster, accepted>>
    BY DEF MarkRejected
  <1>. QED  BY <1>4, <1>7, <1>8, <1>9, MoveReview

LEMMA StepMakeDrafts ==
    ASSUME CapacityInv, NEW a \in Admins, MakeDrafts(a)
    PROVE  CapacityInv'
  <1>. DEFINE old == admin[a].old
              draft(doc) == IF admin[a].op = "reject"
                            THEN Saved(doc, old, Withdrawn(old)) ELSE Withdrawn(doc)
              docs == [j \in Jobs |-> IF j \in admin[a].todo THEN draft(job[j])
                                                              ELSE job[j]]
  <1>1. old \in Job /\ \A j \in Jobs : job[j] \in Job
    BY DEF CapacityInv, TypeOK, Admin
  <1>2. \A j \in Jobs : draft(job[j]) \in Job
    BY <1>1, SavedType, ReviewedTypes
  <1>3. docs \in [Jobs -> Job]
    BY <1>1, <1>2
  <1>4. WriteJobs(docs)
    BY DEF MakeDrafts
  <1>. HIDE DEF docs
  <1>5. /\ job' \in [Jobs -> Job] /\ loose' \subseteq Jobs
        /\ ActiveFree' \ loose' \subseteq ActiveFree \ loose
    BY <1>3, <1>4, WriteOutside DEF CapacityInv
  <1>. QED  BY <1>5, IdleReview, MoveReview DEF MakeDrafts

LEMMA StepStopAdmin ==
    ASSUME CapacityInv, NEW a \in Admins, StopAdmin(a)
    PROVE  CapacityInv'
  <1>1. /\ job' \in [Jobs -> Job] /\ loose' \subseteq Jobs
        /\ UNCHANGED <<job, loose, clock, poster, accepted>>
    BY DEF StopAdmin, CapacityInv, TypeOK
  <1>. QED  BY <1>1, IdleReview, MoveReview, ActiveFreeKept DEF StopAdmin

-----------------------------------------------------------------------------
(* The invariant *)

LEMMA InitInv == Init => CapacityInv
  <1>. SUFFICES ASSUME Init PROVE CapacityInv
    OBVIOUS
  <1>1. TypeOK
    BY NoJobType, IdleTypes DEF Init, TypeOK
  <1>2. ActiveFree = {}
    BY DEF Init, ActiveFree, IsActiveFree, NoJob
  <1>3. Cardinality(ActiveFree \ loose) = 0
    BY <1>2, FS_EmptySet
  <1>4. CapacityHolds
    BY <1>3, EJAssumption DEF CapacityHolds, EJAssumption
  <1>5. \A a \in Admins : admin[a].at = "idle"
    BY DEF Init, IdleAdmin
  <1>6. OneOpen /\ OpenBounds /\ HasWork
    BY <1>5 DEF OneOpen, OpenBounds, HasWork
  <1>. QED  BY <1>1, <1>4, <1>6 DEF CapacityInv

LEMMA StepInv == CapacityInv /\ [Next]_vars => CapacityInv'
  <1>. SUFFICES ASSUME CapacityInv, [Next]_vars PROVE CapacityInv'
    OBVIOUS
  <1>1. ASSUME NEW j \in Jobs, CreateJob(j) \/ SuspendListing(j) \/ Archive(j)
        PROVE  CapacityInv'
    BY <1>1, StepCreateJob, StepListing
  <1>2. ASSUME NEW p \in Posters, Employ(p)
        PROVE  CapacityInv'
    BY <1>2, StepLoadJob, StepJudgeSubmission, StepSaveEdit, StepSaveStatus,
       StepSaveSubmission, StepDropPoster DEF Employ
  <1>3. ASSUME NEW a \in Admins, Review(a)
        PROVE  CapacityInv'
    BY <1>3, StepLoadPending, StepOpenTransaction, StepApprove, StepNotApproved,
       StepRecheck, StepUndo, StepCountSlots, StepPublish, StepMarkRejected,
       StepMakeDrafts, StepStopAdmin DEF Review
  <1>4. CASE UNCHANGED vars
    <2>1. TypeOK'
      BY <1>4 DEF CapacityInv, TypeOK, vars
    <2>. QED  BY <1>4, <2>1, KeepReviews, ActiveFreeKept DEF vars
  <1>. QED  BY <1>1, <1>2, <1>3, <1>4, StepTick DEF Next

(* Every reachable state of the posts and of the requests in progress is   *)
(* well formed.                                                            *)
THEOREM TypeCorrect == Spec => []TypeOK
  <1>1. CapacityInv => TypeOK
    BY DEF CapacityInv
  <1>. QED  BY <1>1, InitInv, StepInv, PTL DEF Spec

(* The reviews that take the employer's quota guard never publish more     *)
(* free posts than the capacity, whatever else writes the posts meanwhile. *)
THEOREM ApprovalsWithinCapacity == Spec => []CapacityHolds
  <1>1. CapacityInv => CapacityHolds
    BY DEF CapacityInv
  <1>. QED  BY <1>1, InitInv, StepInv, PTL DEF Spec

(* One review at a time counts and publishes under the guard, and what it  *)
(* counted bounds what has been published.                                 *)
THEOREM GuardExcludes == Spec => [](OneOpen /\ OpenBounds)
  <1>1. CapacityInv => OneOpen /\ OpenBounds
    BY DEF CapacityInv
  <1>. QED  BY <1>1, InitInv, StepInv, PTL DEF Spec

-----------------------------------------------------------------------------
(* What the quota counts.  QuotaInv is inductive beside CapacityInv: every *)
(* accepted submission keeps a charge of its own, so that what the quota   *)
(* counts is what was accepted; a submission that nothing was accepted     *)
(* beside still finds fewer than the limit when it is saved, for time only *)
(* moves charges out of a window.                                          *)

InWindow(w, t) ==
    {i \in DOMAIN accepted : accepted[i].at <= t /\ accepted[i].at + w > t}

Alone(w, t) == {i \in DOMAIN accepted : /\ ~accepted[i].beside
                                        /\ accepted[i].at <= t
                                        /\ accepted[i].at + w > t}

NotLater == \A i \in DOMAIN accepted : accepted[i].at <= clock

(* f takes each accepted submission to its charge <<post, position>>.      *)
Charges(f) ==
    /\ \A i, k \in DOMAIN accepted : f[i] = f[k] => i = k
    /\ \A i \in DOMAIN accepted :
         /\ f[i][2] \in DOMAIN job[f[i][1]].charged
         /\ job[f[i][1]].charged[f[i][2]] = accepted[i].at
    /\ \A j \in Jobs : \A n \in DOMAIN job[j].charged :
         \E i \in DOMAIN accepted : f[i] = <<j, n>>

ChargesKept == \E f \in [DOMAIN accepted -> Jobs \X Nat] : Charges(f)

JudgedHolds ==
    \A p \in Posters :
        /\ poster[p].op # "idle" => poster[p].job \in Jobs
        /\ poster[p].op = "submit" /\ poster[p].free =>
             /\ poster[p].judged <= Len(accepted)
             /\ poster[p].judged = Len(accepted) =>
                  \A q \in Quotas :
                      Cardinality(InWindow(q.window, clock)) < q.limit

QuotaInv == NotLater /\ ChargesKept /\ JudgedHolds /\ ChargesWithinQuota

(* The accepted submissions, typed. *)
LEMMA Submissions ==
    ASSUME TypeOK
    PROVE  /\ clock \in Nat /\ Len(accepted) \in Nat
           /\ DOMAIN accepted = 1 .. Len(accepted)
           /\ \A i \in DOMAIN accepted :
                accepted[i].at \in Nat /\ accepted[i].beside \in BOOLEAN
           /\ \A q \in Quotas : q.limit \in Nat /\ q.window \in Nat
  <1>1. \A q \in Quotas : q.limit \in Nat /\ q.window \in Nat
    <2>1. Quotas \subseteq [limit : Nat, window : Nat]
      BY EJAssumption DEF EJAssumption
    <2>. QED  BY <2>1
  <1>2. clock \in Nat /\ accepted \in Seq([at : Nat, beside : BOOLEAN])
    BY DEF TypeOK
  <1>3. Len(accepted) \in Nat /\ DOMAIN accepted = 1 .. Len(accepted)
    BY <1>2
  <1>4. \A i \in DOMAIN accepted :
           accepted[i].at \in Nat /\ accepted[i].beside \in BOOLEAN
    <2>. DEFINE Acceptance == [at : Nat, beside : BOOLEAN]
    <2>1. \A e \in Acceptance : e.at \in Nat /\ e.beside \in BOOLEAN
      OBVIOUS
    <2>2. accepted \in Seq(Acceptance)
      BY <1>2
    <2>. HIDE DEF Acceptance
    <2>3. \A i \in DOMAIN accepted : accepted[i] \in Acceptance
      BY <2>2
    <2>. QED  BY <2>1, <2>3
  <1>. QED  BY <1>1, <1>2, <1>3, <1>4

LEMMA CountSubmissions ==
    ASSUME TypeOK, NEW T, T \subseteq DOMAIN accepted, NEW S \in SUBSET T
    PROVE  /\ IsFiniteSet(T)
           /\ Cardinality(S) \in Nat /\ Cardinality(T) \in Nat
           /\ Cardinality(S) <= Cardinality(T)
  <1>1. IsFiniteSet(DOMAIN accepted)
    BY Submissions, FS_Interval
  <1>2. IsFiniteSet(T)
    BY <1>1, FS_Subset
  <1>3. IsFiniteSet(S) /\ Cardinality(S) <= Cardinality(T)
    BY <1>2, FS_Subset
  <1>4. Cardinality(S) \in Nat
    BY <1>3, FS_CardinalityType
  <1>5. Cardinality(T) \in Nat
    BY <1>2, FS_CardinalityType
  <1>. QED  BY <1>2, <1>3, <1>4, <1>5

(* The quota counts exactly the accepted submissions of its window.        *)
LEMMA QuotaCountsAccepted ==
    ASSUME TypeOK, QuotaInv, NEW w \in Nat
    PROVE  Cardinality(InWindow(w, clock)) = Cardinality(ChargedWithin(w))
  <1>. DEFINE S == InWindow(w, clock)
              T == ChargedWithin(w)
  <1>1. PICK f \in [DOMAIN accepted -> Jobs \X Nat] : Charges(f)
    BY DEF QuotaInv, ChargesKept
  <1>. DEFINE g == [i \in S |-> f[i]]
  <1>2. \A c : c \in T <=>
          \E j \in Jobs : \E n \in DOMAIN job[j].charged :
             c = <<j, n>> /\ job[j].charged[n] + w > clock
    BY DEF ChargedWithin
  <1>3. S \subseteq DOMAIN accepted
    BY DEF InWindow
  <1>4. ASSUME NEW i \in S
        PROVE  f[i] \in T
    <2>1. PICK j \in Jobs, n \in Nat : f[i] = <<j, n>>
      BY <1>3
    <2>2. n \in DOMAIN job[j].charged /\ job[j].charged[n] = accepted[i].at
      BY <1>1, <1>3, <2>1 DEF Charges
    <2>. QED  BY <1>2, <2>1, <2>2 DEF InWindow
  <1>5. ASSUME NEW c \in T
        PROVE  \E i \in S : f[i] = c
    <2>. PICK j \in Jobs : \E n \in DOMAIN job[j].charged :
            c = <<j, n>> /\ job[j].charged[n] + w > clock
      BY <1>2
    <2>1. PICK n \in DOMAIN job[j].charged :
             c = <<j, n>> /\ job[j].charged[n] + w > clock
      OBVIOUS
    <2>2. PICK i \in DOMAIN accepted : f[i] = <<j, n>>
      BY <1>1 DEF Charges
    <2>3. job[j].charged[n] = accepted[i].at
      BY <1>1, <2>2 DEF Charges
    <2>. QED  BY <2>1, <2>2, <2>3 DEF InWindow, QuotaInv, NotLater
  <1>. HIDE DEF S, T
  <1>6. g \in [S -> T]
    BY <1>4
  <1>7. g \in Injection(S, T)
    BY <1>1, <1>3, <1>6 DEF Charges, Injection, IsInjective
  <1>8. g \in Surjection(S, T)
    BY <1>5, <1>6 DEF Surjection
  <1>9. ExistsBijection(S, T)
    BY <1>7, <1>8 DEF ExistsBijection, Bijection
  <1>10. IsFiniteSet(S)
    BY <1>3, CountSubmissions
  <1>. QED  BY <1>9, <1>10, FS_Bijection DEF S, T

(* A step that accepts no submission, gives no charge back, and lets no    *)
(* request be judged.                                                      *)
QuietPosters ==
    \A o \in Posters :
        /\ poster'[o].op # "idle" =>
             poster[o].op # "idle" /\ poster'[o].job = poster[o].job
        /\ poster'[o].op = "submit" =>
             /\ poster[o].op = "submit" /\ poster'[o].free = poster[o].free
             /\ poster'[o].judged = poster[o].judged

ChargesStay == \A j \in Jobs : job'[j].charged = job[j].charged

LEMMA KeepCharges ==
    ASSUME QuotaInv, UNCHANGED accepted, ChargesStay
    PROVE  ChargesKept'
  <1>1. PICK f \in [DOMAIN accepted -> Jobs \X Nat] : Charges(f)
    BY DEF QuotaInv, ChargesKept
  <1>2. \A i \in DOMAIN accepted : f[i][1] \in Jobs
    BY <1>1
  <1>3. Charges(f)'
    BY <1>1, <1>2 DEF Charges, ChargesStay
  <1>. QED  BY <1>1, <1>3 DEF ChargesKept

LEMMA KeepQuota ==
    ASSUME QuotaInv, UNCHANGED <<clock, accepted>>, ChargesStay, QuietPosters
    PROVE  QuotaInv'
  <1>1. NotLater' /\ ChargesWithinQuota'
    BY DEF QuotaInv, NotLater, ChargesWithinQuota
  <1>2. JudgedHolds'
    BY DEF QuotaInv, JudgedHolds, QuietPosters, InWindow
  <1>. QED  BY <1>1, <1>2, KeepCharges DEF QuotaInv

-----------------------------------------------------------------------------
(* Time, and the requests of the employer *)

LEMMA TickQuota ==
    ASSUME CapacityInv, QuotaInv, Tick
    PROVE  QuotaInv'
  <1>. USE DEF CapacityInv
  <1>1. clock' = clock + 1 /\ UNCHANGED <<job, poster, accepted>>
    BY DEF Tick
  <1>2. NotLater'
    BY <1>1, Submissions DEF QuotaInv, NotLater
  <1>3. ChargesKept'
    BY <1>1, KeepCharges DEF ChargesStay
  <1>4. ASSUME NEW q \in Quotas
        PROVE  Cardinality(InWindow(q.window, clock + 1))
                 <= Cardinality(InWindow(q.window, clock))
    <2>1. /\ InWindow(q.window, clock) \subseteq DOMAIN accepted
          /\ InWindow(q.window, clock + 1) \subseteq InWindow(q.window, clock)
      BY Submissions DEF InWindow, QuotaInv, NotLater
    <2>. QED  BY <2>1, CountSubmissions
  <1>5. \A q \in Quotas :
           /\ Cardinality(InWindow(q.window, clock)) \in Nat
           /\ Cardinality(InWindow(q.window, clock + 1)) \in Nat
    BY CountSubmissions DEF InWindow
  <1>6. JudgedHolds'
    <2>1. \A w, t : InWindow(w, t)' = InWindow(w, t')
      BY <1>1 DEF InWindow
    <2>2. ASSUME NEW q \in Quotas,
                 Cardinality(InWindow(q.window, clock)) < q.limit
          PROVE  Cardinality(InWindow(q.window, clock)') < q.limit
      BY <1>1, <1>4, <1>5, <2>1, <2>2, Submissions
    <2>. QED  BY <1>1, <2>2 DEF QuotaInv, JudgedHolds
  <1>7. ChargesWithinQuota'
    <2>. SUFFICES ASSUME NEW q \in Quotas, NEW t \in 0 .. clock'
                  PROVE  Cardinality(Alone(q.window, t)) <= q.limit
      BY <1>1 DEF ChargesWithinQuota, Alone
    <2>1. CASE t \in 0 .. clock
      BY <2>1 DEF QuotaInv, ChargesWithinQuota, Alone
    <2>2. CASE t = clock + 1
      <3>1. /\ Alone(q.window, clock) \subseteq DOMAIN accepted
            /\ Alone(q.window, t) \subseteq Alone(q.window, clock)
        BY <2>2, Submissions DEF Alone, QuotaInv, NotLater
      <3>2. Cardinality(Alone(q.window, clock)) <= q.limit
        BY Submissions DEF QuotaInv, ChargesWithinQuota, Alone
      <3>3. /\ Cardinality(Alone(q.window, t)) \in Nat
            /\ Cardinality(Alone(q.window, clock)) \in Nat
            /\ Cardinality(Alone(q.window, t))
                 <= Cardinality(Alone(q.window, clock))
        BY <3>1, CountSubmissions
      <3>. QED  BY <3>2, <3>3, Submissions
    <2>. QED  BY <1>1, <2>1, <2>2, Submissions
  <1>. QED  BY <1>2, <1>3, <1>6, <1>7 DEF QuotaInv

LEMMA CreateQuota ==
    ASSUME CapacityInv, QuotaInv, NEW j \in Jobs, CreateJob(j)
    PROVE  QuotaInv'
  <1>1. ChargesStay
    BY DEF CapacityInv, TypeOK, Job, CreateJob, ChargesStay
  <1>. QED  BY <1>1, KeepQuota DEF CreateJob, QuietPosters

LEMMA LoadQuota ==
    ASSUME CapacityInv, QuotaInv, NEW p \in Posters, NEW j \in Jobs,
           NEW op \in {"edit", "close", "reopen", "activate"}, LoadJob(p, op, j)
    PROVE  QuotaInv'
  <1>1. /\ poster' = [poster EXCEPT ![p] =
                        [IdlePoster EXCEPT !.op = op, !.job = j, !.old = job[j]]]
        /\ UNCHANGED <<clock, job, accepted>>
    BY DEF LoadJob
  <1>2. \A o \in Posters :
           /\ o # p => poster'[o] = poster[o]
           /\ o = p => poster'[o].op = op /\ poster'[o].job = j
    BY <1>1 DEF CapacityInv, TypeOK, IdlePoster
  <1>3. JudgedHolds'
    BY <1>1, <1>2 DEF QuotaInv, JudgedHolds, InWindow
  <1>4. NotLater' /\ ChargesWithinQuota' /\ ChargesStay
    BY <1>1 DEF QuotaInv, NotLater, ChargesWithinQuota, ChargesStay
  <1>. QED  BY <1>1, <1>3, <1>4, KeepCharges DEF QuotaInv

(* What the quota counts when it is asked is what was accepted.            *)
LEMMA JudgeQuota ==
    ASSUME CapacityInv, QuotaInv, NEW p \in Posters, NEW free \in BOOLEAN,
           JudgeSubmission(p, free)
    PROVE  QuotaInv'
  <1>1. /\ poster' = [poster EXCEPT ![p].op = "submit", ![p].free = free,
                                    ![p].judged = Len(accepted)]
        /\ UNCHANGED <<clock, job, accepted>>
        /\ poster[p].op = "activate" /\ (free => CanAcceptCharged)
    BY DEF JudgeSubmission
  <1>2. \A o \in Posters :
           /\ o # p => poster'[o] = poster[o]
           /\ o = p => /\ poster'[o].job = poster[o].job
                       /\ poster'[o].free = free
                       /\ poster'[o].judged = Len(accepted)
    BY <1>1 DEF CapacityInv, TypeOK, Poster
  <1>3. free => \A q \in Quotas :
                   Cardinality(InWindow(q.window, clock)) < q.limit
    BY <1>1, QuotaCountsAccepted, Submissions DEF CanAcceptCharged, CapacityInv
  <1>4. Len(accepted) <= Len(accepted)
    BY Submissions DEF CapacityInv
  <1>5. JudgedHolds'
    BY <1>1, <1>2, <1>3, <1>4 DEF QuotaInv, JudgedHolds, InWindow
  <1>6. NotLater' /\ ChargesWithinQuota' /\ ChargesStay
    BY <1>1 DEF QuotaInv, NotLater, ChargesWithinQuota, ChargesStay
  <1>. QED  BY <1>1, <1>5, <1>6, KeepCharges DEF QuotaInv

(* A request that ends. *)
LEMMA DoneQuiet ==
    ASSUME TypeOK, NEW p \in Posters, NEW bumped, Done(p, bumped)
    PROVE  QuietPosters
  <1>1. ASSUME NEW o \in Posters
        PROVE  \/ poster'[o].op = "idle"
               \/ /\ poster'[o].op = poster[o].op
                  /\ poster'[o].job = poster[o].job
                  /\ poster'[o].free = poster[o].free
                  /\ poster'[o].judged = poster[o].judged
    BY DEF Done, IdlePoster, TypeOK, Poster
  <1>. QED  BY <1>1 DEF QuietPosters

LEMMA SaveKeepsCharges ==
    ASSUME TypeOK, NEW p \in Posters, NEW new, SaveOf(p, new)
    PROVE  ChargesStay
  BY DEF TypeOK, SaveOf, WriteJobs, Saved, ChargesStay

LEMMA SaveQuota ==
    ASSUME CapacityInv, QuotaInv, NEW p \in Posters,
           \/ \E lists \in BOOLEAN : SaveEdit(p, lists)
           \/ SaveClose(p) \/ SaveReopen(p)
    PROVE  QuotaInv'
  <1>1. /\ UNCHANGED <<clock, accepted>>
        /\ \E new : SaveOf(p, new)
        /\ \E bumped : Done(p, bumped)
    BY DEF SaveEdit, SaveClose, SaveReopen
  <1>2. ChargesStay /\ QuietPosters
    BY <1>1, DoneQuiet, SaveKeepsCharges DEF CapacityInv
  <1>. QED  BY <1>1, <1>2, KeepQuota

LEMMA DropQuota ==
    ASSUME CapacityInv, QuotaInv, NEW p \in Posters, DropPoster(p)
    PROVE  QuotaInv'
  <1>1. QuietPosters
    BY DEF DropPoster, QuietPosters, IdlePoster, CapacityInv, TypeOK
  <1>. QED  BY <1>1, KeepQuota DEF DropPoster, ChargesStay

(* A submission that is accepted is charged at the end of its post's list, *)
(* and, when nothing was accepted since it was judged, finds room.         *)
LEMMA AcceptQuota ==
    ASSUME CapacityInv, QuotaInv, NEW p \in Posters, SaveSubmission(p),
           poster[p].free
    PROVE  QuotaInv'
  <1>. DEFINE j == poster[p].job
              m == Len(accepted) + 1
              k == Len(job[j].charged) + 1
              e == [at |-> clock, beside |-> Len(accepted) # poster[p].judged]
  <1>1. /\ poster[p].op = "submit" /\ accepted' = Append(accepted, e)
        /\ Done(p, poster[p].free) /\ UNCHANGED clock
    BY DEF SaveSubmission
  <1>2. j \in Jobs
    BY <1>1 DEF QuotaInv, JudgedHolds
  <1>3. /\ accepted \in Seq([at : Nat, beside : BOOLEAN])
        /\ clock \in Nat /\ e \in [at : Nat, beside : BOOLEAN]
    BY DEF CapacityInv, TypeOK
  <1>4. job[j].charged \in Seq(Nat)
    BY <1>2 DEF CapacityInv, TypeOK, Job
  <1>5. /\ \A h \in Jobs \ {j} : job'[h].charged = job[h].charged
        /\ job'[j].charged = Append(job[j].charged, clock)
    BY <1>2 DEF SaveSubmission, WriteJobs, Saved, CapacityInv, TypeOK
  <1>6. /\ m \in Nat /\ m \notin DOMAIN accepted
        /\ Len(accepted') = m
        /\ DOMAIN accepted' = DOMAIN accepted \cup {m}
        /\ \A i \in DOMAIN accepted : accepted'[i] = accepted[i]
        /\ accepted'[m] = e
    <2>. HIDE DEF e
    <2>. QED  BY <1>1, <1>3, AppendProperties
  <1>7. /\ k \in Nat /\ k \notin DOMAIN job[j].charged
        /\ DOMAIN job'[j].charged = DOMAIN job[j].charged \cup {k}
        /\ \A n \in DOMAIN job[j].charged :
             job'[j].charged[n] = job[j].charged[n]
        /\ job'[j].charged[k] = clock
    <2>. DEFINE old == job[j].charged
                new == Append(old, clock)
    <2>1. old \in Seq(Nat) /\ clock \in Nat
      BY <1>3, <1>4
    <2>. HIDE DEF old
    <2>2. /\ DOMAIN old = 1 .. Len(old) /\ Len(old) \in Nat
          /\ DOMAIN new = 1 .. Len(old) + 1
          /\ \A n \in 1 .. Len(old) : new[n] = old[n]
          /\ new[Len(old) + 1] = clock
      BY <2>1, AppendProperties
    <2>3. job'[j].charged = new /\ k = Len(old) + 1
      BY <1>5 DEF old
    <2>. HIDE DEF new, k
    <2>4. /\ k \in Nat /\ k \notin DOMAIN old
          /\ DOMAIN new = DOMAIN old \cup {k}
      BY <2>2, <2>3
    <2>. QED  BY <2>2, <2>3, <2>4 DEF old
  <1>8. e.at = clock /\ (~e.beside <=> poster[p].judged = Len(accepted))
    OBVIOUS
  <1>. HIDE DEF e, m, k
  <1>9. NotLater'
    BY <1>1, <1>3, <1>6, <1>8 DEF QuotaInv, NotLater
  <1>10. ChargesKept'
    <2>1. PICK f \in [DOMAIN accepted -> Jobs \X Nat] : Charges(f)
      BY DEF QuotaInv, ChargesKept
    <2>2. /\ \A i \in DOMAIN accepted : i # m /\ f[i] \in Jobs \X Nat
          /\ <<j, k>> \in Jobs \X Nat
      BY <1>2, <1>6, <1>7
    <2>3. PICK g \in [DOMAIN accepted \cup {m} -> Jobs \X Nat] :
             /\ g[m] = <<j, k>>
             /\ \A i \in DOMAIN accepted : g[i] = f[i]
      <3>. DEFINE h == [i \in DOMAIN accepted \cup {m} |->
                           IF i = m THEN <<j, k>> ELSE f[i]]
      <3>1. h \in [DOMAIN accepted \cup {m} -> Jobs \X Nat]
        BY <2>2
      <3>2. h[m] = <<j, k>> /\ \A i \in DOMAIN accepted : h[i] = f[i]
        BY <2>2
      <3>. QED  BY <3>1, <3>2
    <2>4. ASSUME NEW i \in DOMAIN accepted
          PROVE  /\ g[i] # g[m]
                 /\ g[i][2] \in DOMAIN job'[g[i][1]].charged
                 /\ job'[g[i][1]].charged[g[i][2]] = accepted[i].at
      <3>1. /\ f[i][2] \in DOMAIN job[f[i][1]].charged
            /\ job[f[i][1]].charged[f[i][2]] = accepted[i].at
            /\ f[i][1] \in Jobs
        BY <2>1 DEF Charges
      <3>2. CASE f[i][1] = j
        BY <1>7, <2>3, <3>1, <3>2
      <3>3. CASE f[i][1] # j
        BY <1>5, <2>3, <3>1, <3>3
      <3>. QED  BY <3>2, <3>3
    <2>5. /\ g[m][2] \in DOMAIN job'[g[m][1]].charged
          /\ job'[g[m][1]].charged[g[m][2]] = accepted'[m].at
      BY <1>6, <1>7, <1>8, <2>3
    <2>6. \A i, h \in DOMAIN accepted' : g[i] = g[h] => i = h
      BY <1>6, <2>1, <2>3, <2>4 DEF Charges
    <2>7. ASSUME NEW h \in Jobs, NEW n \in DOMAIN job'[h].charged
          PROVE  \E i \in DOMAIN accepted' : g[i] = <<h, n>>
      <3>1. CASE h = j /\ n = k
        BY <1>6, <2>3, <3>1
      <3>2. CASE ~(h = j /\ n = k)
        <4>1. n \in DOMAIN job[h].charged
          BY <1>5, <1>7, <3>2
        <4>2. PICK i \in DOMAIN accepted : f[i] = <<h, n>>
          BY <2>1, <4>1 DEF Charges
        <4>. QED  BY <1>6, <2>3, <4>2
      <3>. QED  BY <3>1, <3>2
    <2>8. Charges(g)'
      <3>1. \A i \in DOMAIN accepted' :
               /\ g[i][2] \in DOMAIN job'[g[i][1]].charged
               /\ job'[g[i][1]].charged[g[i][2]] = accepted'[i].at
        BY <1>6, <2>4, <2>5
      <3>. QED  BY <2>6, <2>7, <3>1 DEF Charges
    <2>. QED  BY <1>6, <2>3, <2>8 DEF ChargesKept
  <1>11. JudgedHolds'
    <2>1. QuietPosters
      BY <1>1, DoneQuiet DEF CapacityInv
    <2>2. ASSUME NEW o \in Posters, poster'[o].op = "submit", poster'[o].free
          PROVE  /\ poster'[o].judged <= Len(accepted')
                 /\ poster'[o].judged # Len(accepted')
      <3>1. /\ poster'[o].judged = poster[o].judged
            /\ poster[o].judged <= Len(accepted)
            /\ poster[o].judged \in Nat
        BY <2>1, <2>2 DEF QuietPosters, QuotaInv, JudgedHolds,
                          CapacityInv, TypeOK, Poster
      <3>2. Len(accepted) \in Nat /\ m = Len(accepted) + 1
        BY Submissions DEF CapacityInv, m
      <3>. QED  BY <1>6, <3>1, <3>2
    <2>3. \A o \in Posters :
             poster'[o].op # "idle" => poster'[o].job \in Jobs
      BY <2>1 DEF QuietPosters, QuotaInv, JudgedHolds
    <2>. QED  BY <2>2, <2>3 DEF JudgedHolds
  <1>12. ChargesWithinQuota'
    <2>. SUFFICES ASSUME NEW q \in Quotas, NEW t \in 0 .. clock
                  PROVE  Cardinality(Alone(q.window, t)') <= q.limit
      BY <1>1 DEF ChargesWithinQuota, Alone
    <2>1. \A i \in DOMAIN accepted :
             i \in Alone(q.window, t)' <=> i \in Alone(q.window, t)
      BY <1>6 DEF Alone
    <2>2. Alone(q.window, t)' \subseteq Alone(q.window, t) \cup {m}
      BY <1>6, <2>1 DEF Alone
    <2>3. Cardinality(Alone(q.window, t)) <= q.limit
      BY DEF QuotaInv, ChargesWithinQuota, Alone
    <2>4. CASE m \notin Alone(q.window, t)'
      <3>1. Alone(q.window, t)' = Alone(q.window, t)
        BY <1>6, <2>1, <2>2, <2>4 DEF Alone
      <3>. QED  BY <2>3, <3>1
    <2>5. CASE m \in Alone(q.window, t)'
      <3>1. t = clock /\ ~e.beside
        BY <1>3, <1>6, <1>8, <2>5 DEF Alone
      <3>2. Cardinality(InWindow(q.window, clock)) < q.limit
        BY <1>1, <1>8, <3>1 DEF QuotaInv, JudgedHolds
      <3>3. /\ InWindow(q.window, clock) \subseteq DOMAIN accepted
            /\ Alone(q.window, t) \subseteq InWindow(q.window, clock)
        BY <3>1 DEF InWindow, Alone
      <3>4. /\ Cardinality(Alone(q.window, t)) < q.limit
            /\ Cardinality(Alone(q.window, t)) \in Nat /\ q.limit \in Nat
            /\ IsFiniteSet(Alone(q.window, t))
        <4>1. /\ Cardinality(Alone(q.window, t)) \in Nat
              /\ Cardinality(InWindow(q.window, clock)) \in Nat
              /\ Cardinality(Alone(q.window, t))
                   <= Cardinality(InWindow(q.window, clock))
              /\ IsFiniteSet(InWindow(q.window, clock))
          BY <3>3, CountSubmissions DEF CapacityInv
        <4>2. q.limit \in Nat
          BY Submissions DEF CapacityInv
        <4>3. IsFiniteSet(Alone(q.window, t))
          BY <3>3, <4>1, FS_Subset
        <4>. QED  BY <3>2, <4>1, <4>2, <4>3
      <3>5. /\ m \notin Alone(q.window, t)
            /\ Alone(q.window, t)' = Alone(q.window, t) \cup {m}
        BY <1>6, <2>1, <2>2, <2>5 DEF Alone
      <3>6. Cardinality(Alone(q.window, t) \cup {m})
              = Cardinality(Alone(q.window, t)) + 1
        BY <3>4, <3>5, FS_AddElement
      <3>. QED  BY <3>4, <3>5, <3>6
    <2>. QED  BY <2>4, <2>5
  <1>. QED  BY <1>9, <1>10, <1>11, <1>12 DEF QuotaInv

LEMMA SubmitQuota ==
    ASSUME CapacityInv, QuotaInv, NEW p \in Posters, SaveSubmission(p)
    PROVE  QuotaInv'
  <1>1. ASSUME ~poster[p].free
        PROVE  QuotaInv'
    <2>1. UNCHANGED <<clock, accepted>> /\ Done(p, poster[p].free)
      BY <1>1 DEF SaveSubmission
    <2>2. ChargesStay
      BY <1>1 DEF SaveSubmission, WriteJobs, Saved, ChargesStay,
                  CapacityInv, TypeOK
    <2>. QED  BY <2>1, <2>2, DoneQuiet, KeepQuota DEF CapacityInv
  <1>. QED  BY <1>1, AcceptQuota

-----------------------------------------------------------------------------
(* Reviews and the marketplace's own writes give no charge back *)

LEMMA ApprovalStaysCharged ==
    ASSUME TypeOK, NEW j,
           job' \in {job, [job EXCEPT ![j] = Approved(job[j])]}
    PROVE  ChargesStay
  <1>1. \A doc \in Job : Approved(doc).charged = doc.charged
    BY DEF Approved, Job
  <1>2. job \in [Jobs -> Job]
    BY DEF TypeOK
  <1>. QED  BY <1>1, <1>2 DEF ChargesStay

LEMMA ReviewQuota ==
    ASSUME CapacityInv, QuotaInv, NEW a \in Admins, Review(a)
    PROVE  QuotaInv'
  <1>1. UNCHANGED <<clock, poster, accepted>> /\ ChargesStay
    <2>1. ASSUME NEW j \in Jobs, Publish(a, j)
          PROVE  UNCHANGED <<clock, poster, accepted>> /\ ChargesStay
      <3>1. job' \in {job, [job EXCEPT ![j] = Approved(job[j])]}
        BY <2>1 DEF Publish, WriteJobs
      <3>. QED  BY <2>1, <3>1, ApprovalStaysCharged DEF Publish, CapacityInv
    <2>2. CASE Approve(a)
      <3>1. PICK j : job' \in {job, [job EXCEPT ![j] = Approved(job[j])]}
        BY <2>2 DEF Approve
      <3>. QED  BY <2>2, <3>1, ApprovalStaysCharged DEF Approve, CapacityInv
    <2>3. CASE Undo(a)
      BY <2>3 DEF Undo, WriteJobs, ChargesStay, CapacityInv, TypeOK, Job
    <2>4. CASE MarkRejected(a)
      BY <2>4 DEF MarkRejected, WriteJobs, ChargesStay, CapacityInv, TypeOK, Job
    <2>5. CASE MakeDrafts(a)
      BY <2>5 DEF MakeDrafts, WriteJobs, Saved, Withdrawn, ChargesStay,
                  CapacityInv, TypeOK, Job
    <2>6. CASE \/ \E op \in {"approve", "bulkApprove", "bulkAction", "reject",
                             "bulkReject"}, todo \in SUBSET Jobs :
                    LoadPending(a, op, todo)
               \/ \E j \in Jobs : OpenTransaction(a, j)
               \/ WriteConflict(a) \/ CapacityExhausted(a) \/ Recheck(a)
               \/ CountSlots(a) \/ StopAdmin(a)
      BY <2>6 DEF LoadPending, OpenTransaction, BeginApproval, WriteConflict,
                  CapacityExhausted, Recheck, CountSlots, StopAdmin, ChargesStay
    <2>. QED  BY <2>1, <2>2, <2>3, <2>4, <2>5, <2>6 DEF Review
  <1>2. QuietPosters
    BY <1>1 DEF QuietPosters
  <1>. QED  BY <1>1, <1>2, KeepQuota

LEMMA ListingQuota ==
    ASSUME CapacityInv, QuotaInv, NEW j \in Jobs,
           SuspendListing(j) \/ Archive(j)
    PROVE  QuotaInv'
  <1>1. UNCHANGED <<clock, poster, accepted>>
    BY DEF SuspendListing, Archive
  <1>2. job \in [Jobs -> Job]
    BY DEF CapacityInv, TypeOK
  <1>3. CASE Archive(j)
    <2>1. job' = [job EXCEPT ![j].status = "closed"]
      BY <1>3 DEF Archive, WriteJobs
    <2>2. ChargesStay
      BY <1>2, <2>1 DEF ChargesStay, Job
    <2>. QED  BY <1>1, <2>2, KeepQuota DEF QuietPosters
  <1>4. CASE SuspendListing(j)
    <2>1. job' = [job EXCEPT ![j].status = "closed",
                             ![j].approval = "rejected"]
      BY <1>4 DEF SuspendListing, WriteJobs
    <2>2. ChargesStay
      BY <1>2, <2>1 DEF ChargesStay, Job
    <2>. QED  BY <1>1, <2>2, KeepQuota DEF QuietPosters
  <1>. QED  BY <1>3, <1>4

LEMMA QuotaStep == CapacityInv /\ QuotaInv /\ [Next]_vars => QuotaInv'
  <1>. SUFFICES ASSUME CapacityInv, QuotaInv, [Next]_vars PROVE QuotaInv'
    OBVIOUS
  <1>1. ASSUME NEW j \in Jobs, CreateJob(j) \/ SuspendListing(j) \/ Archive(j)
        PROVE  QuotaInv'
    BY <1>1, CreateQuota, ListingQuota
  <1>2. ASSUME NEW p \in Posters, Employ(p)
        PROVE  QuotaInv'
    BY <1>2, LoadQuota, JudgeQuota, SaveQuota, SubmitQuota, DropQuota
       DEF Employ
  <1>3. CASE UNCHANGED vars
    BY <1>3, KeepQuota DEF vars, ChargesStay, QuietPosters
  <1>. QED  BY <1>1, <1>2, <1>3, ReviewQuota, TickQuota DEF Next

LEMMA QuotaStarts == Init => QuotaInv
  <1>. SUFFICES ASSUME Init PROVE QuotaInv
    OBVIOUS
  <1>1. DOMAIN accepted = {}
    BY DEF Init
  <1>2. NotLater
    BY <1>1 DEF NotLater
  <1>3. ChargesKept
    <2>1. \A j \in Jobs : DOMAIN job[j].charged = {}
      BY DEF Init, NoJob
    <2>2. Charges(accepted)
      BY <1>1, <2>1 DEF Charges
    <2>3. accepted \in [DOMAIN accepted -> Jobs \X Nat]
      BY <1>1 DEF Init
    <2>. QED  BY <2>2, <2>3 DEF ChargesKept
  <1>4. JudgedHolds
    BY DEF Init, JudgedHolds, IdlePoster
  <1>5. ChargesWithinQuota
    <2>1. \A w, t : Alone(w, t) = {}
      BY <1>1 DEF Alone
    <2>2. Cardinality({}) = 0
      BY FS_EmptySet
    <2>3. \A q \in Quotas : q.limit \in Nat
      BY Submissions, InitInv DEF CapacityInv
    <2>. QED  BY <2>1, <2>2, <2>3 DEF ChargesWithinQuota, Alone
  <1>. QED  BY <1>2, <1>3, <1>4, <1>5 DEF QuotaInv

(* Every accepted free submission keeps a charge of its own on its post,   *)
(* and a post holds no other charge: no edit, rejection, closing or late   *)
(* save of a post loses one or makes one up.                               *)
THEOREM SubmissionsStayCharged == Spec => []ChargesKept
  <1>1. QuotaInv => ChargesKept
    BY DEF QuotaInv
  <1>2. Init => CapacityInv /\ QuotaInv
    BY InitInv, QuotaStarts
  <1>3. CapacityInv /\ QuotaInv /\ [Next]_vars => CapacityInv' /\ QuotaInv'
    BY StepInv, QuotaStep
  <1>. QED  BY <1>1, <1>2, <1>3, PTL DEF Spec

(* In any window of time, the submissions that were not judged while       *)
(* another was being saved stay within the policy's limit, for every       *)
(* number of posts, requests, limits and windows.                          *)
THEOREM QuotaHolds == Spec => []ChargesWithinQuota
  <1>1. QuotaInv => ChargesWithinQuota
    BY DEF QuotaInv
  <1>2. Init => CapacityInv /\ QuotaInv
    BY InitInv, QuotaStarts
  <1>3. CapacityInv /\ QuotaInv /\ [Next]_vars => CapacityInv' /\ QuotaInv'
    BY StepInv, QuotaStep
  <1>. QED  BY <1>1, <1>2, <1>3, PTL DEF Spec
=============================================================================
