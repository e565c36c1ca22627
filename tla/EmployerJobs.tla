---------------------------- MODULE EmployerJobs ----------------------------
(***************************************************************************)
(* The job posts of one employer, from the private draft through review to *)
(* publication, under the Free Beta policy: so many submissions charged in *)
(* each window of time, so many free posts active at once.  Modelled from  *)
(* controllers/employerController.js, controllers/admin/adminJobsController*)
(* and moderationController, services/employer/employerPublishingQuota.js  *)
(* and services/publishing/SerializedQuotaGuard.js.                        *)
(*                                                                         *)
(* An employer's command loads a post and saves it; the save writes what   *)
(* the command changed of the post it loaded, and nothing else.  A review  *)
(* loads pending posts first.  The approvals of approveJob and             *)
(* bulkApproveJobs run as transactions that write the employer's quota     *)
(* guard, those of bulkAction do not.  Any command may stop at any step.   *)
(***************************************************************************)
EXTENDS Naturals, Sequences, FiniteSets

CONSTANTS
    Jobs,     \* ids of job posts
    Posters,  \* concurrent requests of the employer
    Admins,   \* concurrent requests of administrators
    None,     \* no post
    Capacity, \* maximumActiveFreeJobs
    Quotas,   \* chargedSubmissions: limits of rolling windows
    MaxClock  \* bound of the model on time

ASSUME EJAssumption ==
    /\ None \notin Jobs
    /\ IsFiniteSet(Jobs)
    /\ Capacity \in Nat
    /\ Quotas \subseteq [limit : Nat, window : Nat]
    /\ MaxClock \in Nat

VARIABLES
    clock,
    job,      \* the Job documents
    poster,   \* the requests of the employer
    admin,    \* the requests of administrators
    accepted, \* the free submissions that were accepted, in their order
    loose     \* the active posts that became so outside the quota guard

vars == <<clock, job, poster, admin, accepted, loose>>

Job == [status : {"absent", "draft", "active", "closed"},
        approval : {"none", "pending", "approved", "rejected"},
        submitted : BOOLEAN,
        plan : {"none", "free", "paid"},
        charged : Seq(Nat)]

NoJob == [status |-> "absent", approval |-> "none", submitted |-> FALSE,
          plan |-> "none", charged |-> <<>>]

(* fresh: the version key of the post is still the one that was loaded.    *)
(* judged: the submissions accepted when the quota was read.               *)
Poster == [op : {"idle", "edit", "close", "reopen", "activate", "submit"},
           job : Jobs \cup {None}, old : Job, fresh : BOOLEAN,
           judged : Nat, free : BOOLEAN]

(* old: the post as loaded, or as returned by the rejection.  snap, used:  *)
(* the post and the number of active free posts as the transaction, or     *)
(* bulkAction, sees them.                                                  *)
Admin == [op : {"none", "approve", "bulkApprove", "bulkAction", "reject",
                "bulkReject"},
          at : {"idle", "loaded", "open", "recheck", "undo", "counted",
                "rejected"},
          todo : SUBSET Jobs, cur : Jobs \cup {None}, old : Job, snap : Job,
          used : Nat]

TypeOK ==
    /\ clock \in Nat
    /\ job \in [Jobs -> Job]
    /\ poster \in [Posters -> Poster]
    /\ admin \in [Admins -> Admin]
    /\ accepted \in Seq([at : Nat, beside : BOOLEAN])
    /\ loose \subseteq Jobs

IdlePoster == [op |-> "idle", job |-> None, old |-> NoJob, fresh |-> TRUE,
               judged |-> 0, free |-> FALSE]
IdleAdmin == [op |-> "none", at |-> "idle", todo |-> {}, cur |-> None,
              old |-> NoJob, snap |-> NoJob, used |-> 0]

Init ==
    /\ clock = 0
    /\ job = [j \in Jobs |-> NoJob]
    /\ poster = [p \in Posters |-> IdlePoster]
    /\ admin = [a \in Admins |-> IdleAdmin]
    /\ accepted = <<>>
    /\ loose = {}

-----------------------------------------------------------------------------
(* isModerationPendingJob, for the posts of an employer. *)
Pending == {j \in Jobs : job[j].approval = "pending" /\ job[j].submitted}

IsActiveFree(doc) ==
    doc.status = "active" /\ doc.approval = "approved" /\ doc.plan = "free"

ActiveFree == {j \in Jobs : IsActiveFree(job[j])}

(* Submissions charged in the window that ends now. *)
ChargedWithin(window) ==
    UNION {{<<j, i>> : i \in {i \in DOMAIN job[j].charged :
                               job[j].charged[i] + window > clock}} : j \in Jobs}

CanAcceptCharged ==
    \A q \in Quotas : Cardinality(ChargedWithin(q.window)) < q.limit

(* A save writes the fields that differ from the document that was loaded. *)
Field(cur, old, new) == IF new # old THEN new ELSE cur

Saved(cur, old, new) ==
    [status |-> Field(cur.status, old.status, new.status),
     approval |-> Field(cur.approval, old.approval, new.approval),
     submitted |-> Field(cur.submitted, old.submitted, new.submitted),
     plan |-> Field(cur.plan, old.plan, new.plan),
     charged |-> cur.charged]

Approved(doc) == [doc EXCEPT !.status = "active", !.approval = "approved"]

(* The faulty form gives the charge back.                                  *)
FaultyWithdrawn(doc) ==
    [doc EXCEPT !.status = "draft", !.submitted = FALSE, !.charged = <<>>]
Withdrawn(doc) == [doc EXCEPT !.status = "draft", !.submitted = FALSE]

(* The posts in docs are written by something else than a transaction that *)
(* holds the guard.                                                        *)
WriteJobs(docs) ==
    /\ job' = docs
    /\ loose' = {j \in Jobs : /\ IsActiveFree(docs[j])
                              /\ IsActiveFree(job[j]) => j \in loose}

-----------------------------------------------------------------------------
(* The employer *)

Tick == /\ clock < MaxClock
        /\ clock' = clock + 1
        /\ UNCHANGED <<job, poster, admin, accepted, loose>>

(* A first post is created with the free plan.  The count of posts is read *)
(* before and raised after: posts created meanwhile are first posts too.   *)
CreateJob(j) ==
    /\ job[j].status = "absent"
    /\ \E plan \in {"free", "none"} :
         /\ plan = "none" => \E k \in Jobs : job[k].status # "absent"
         /\ job' = [job EXCEPT ![j].status = "draft", ![j].plan = plan]
    /\ UNCHANGED <<clock, poster, admin, accepted, loose>>

Loadable(op) ==
    CASE op \in {"edit", "close"} ->
             {j \in Jobs : job[j].status \in {"draft", "active"}}
      [] op = "reopen" -> {j \in Jobs : job[j].status = "closed"}
      [] op = "activate" ->
             {j \in Jobs : job[j].status = "draft" /\ ~job[j].submitted}

LoadJob(p, op, j) ==
    /\ poster[p].op = "idle"
    /\ j \in Loadable(op)
    /\ poster' = [poster EXCEPT ![p] =
                    [IdlePoster EXCEPT !.op = op, !.job = j, !.old = job[j]]]
    /\ UNCHANGED <<clock, job, admin, accepted, loose>>

(* assertEmployerSubmissionEligible may refuse, which is a command that    *)
(* does not go on; a payment takes the place of the quota for a paid plan. *)
JudgeSubmission(p, free) ==
    /\ poster[p].op = "activate"
    /\ IF free THEN CanAcceptCharged ELSE poster[p].old.plan # "free"
    /\ poster' = [poster EXCEPT ![p].op = "submit", ![p].free = free,
                                ![p].judged = Len(accepted)]
    /\ UNCHANGED <<clock, job, admin, accepted, loose>>

Done(p, bumped) ==
    poster' = [o \in Posters |->
                 IF o = p THEN IdlePoster
                 ELSE IF bumped /\ poster[o].job = poster[p].job
                      THEN [poster[o] EXCEPT !.fresh = FALSE]
                      ELSE poster[o]]

SaveOf(p, new) ==
    LET j == poster[p].job
    IN  WriteJobs([job EXCEPT ![j] = Saved(job[j], poster[p].old, new)])

(* An edit that replaces a list compares and increments the version key.   *)
SaveEdit(p, lists) ==
    LET old == poster[p].old
        new == CASE old.status = "active" /\ old.approval = "approved" ->
                        [old EXCEPT !.approval = "pending"]
                 [] old.status = "draft" /\ ~old.submitted ->
                        [old EXCEPT !.approval = "none"]
                 [] OTHER -> old
    IN  /\ poster[p].op = "edit"
        /\ lists => poster[p].fresh
        /\ SaveOf(p, new)
        /\ Done(p, lists)
        /\ UNCHANGED <<clock, admin, accepted>>

SaveClose(p) ==
    /\ poster[p].op = "close"
    /\ SaveOf(p, [poster[p].old EXCEPT !.status = "closed"])
    /\ Done(p, FALSE)
    /\ UNCHANGED <<clock, admin, accepted>>

SaveReopen(p) ==
    /\ poster[p].op = "reopen"
    /\ SaveOf(p, [poster[p].old EXCEPT !.status = "draft"])
    /\ Done(p, FALSE)
    /\ UNCHANGED <<clock, admin, accepted>>

(* The first charge of a post stores the whole list, which needs the       *)
(* version key that was loaded; a later one is pushed onto the list.       *)
SaveSubmission(p) ==
    LET j == poster[p].job
        old == poster[p].old
        new == [old EXCEPT !.status = "active", !.approval = "pending",
                           !.submitted = TRUE,
                           !.plan = IF poster[p].free THEN "free" ELSE "paid"]
        saved == Saved(job[j], old, new)
    IN  /\ poster[p].op = "submit"
        /\ IF poster[p].free
           THEN /\ old.charged = <<>> => poster[p].fresh
                /\ WriteJobs([job EXCEPT ![j] =
                     [saved EXCEPT !.charged = Append(@, clock)]])
                /\ accepted' = Append(accepted,
                     [at |-> clock, beside |-> Len(accepted) # poster[p].judged])
           ELSE WriteJobs([job EXCEPT ![j] = saved]) /\ UNCHANGED accepted
        /\ Done(p, poster[p].free)
        /\ UNCHANGED <<clock, admin>>

(* Refused by a check or by the version key, or stopped.                   *)
DropPoster(p) ==
    /\ poster[p].op # "idle"
    /\ poster' = [poster EXCEPT ![p] = IdlePoster]
    /\ UNCHANGED <<clock, job, admin, accepted, loose>>

-----------------------------------------------------------------------------
(* Reviews *)

LoadPending(a, op, todo) ==
    /\ admin[a].at = "idle"
    /\ todo # {} /\ todo \subseteq Pending
    /\ op \in {"approve", "reject"} => \E j \in Jobs : todo = {j}
    /\ admin' = [admin EXCEPT ![a] =
         [IdleAdmin EXCEPT !.op = op, !.at = "loaded", !.todo = todo,
            !.old = IF op = "approve" THEN job[CHOOSE j \in todo : TRUE]
                                      ELSE NoJob]]
    /\ UNCHANGED <<clock, job, poster, accepted, loose>>

(* The transaction's first write is that of the guard: while another has   *)
(* written it and not ended, or if it was written since the snapshot, this *)
(* one is aborted and retried.  The faulty form does not write it.         *)
BeginApproval(a, j) ==
    /\ admin[a].at = "loaded" /\ admin[a].op \in {"approve", "bulkApprove"}
    /\ j \in admin[a].todo
    /\ admin' = [admin EXCEPT ![a].at = "open", ![a].cur = j,
                              ![a].snap = job[j],
                              ![a].used = Cardinality(ActiveFree)]
    /\ UNCHANGED <<clock, job, poster, accepted, loose>>

FaultyOpenTransaction(a, j) == BeginApproval(a, j)
OpenTransaction(a, j) ==
    /\ \A b \in Admins : admin[b].at # "open"
    /\ BeginApproval(a, j)

(* On to the next post of a bulk review. *)
NextPost(a) ==
    LET rest == admin[a].todo \ {admin[a].cur}
    IN  IF rest = {} THEN IdleAdmin
        ELSE [admin[a] EXCEPT !.at = "loaded", !.todo = rest, !.cur = None,
                              !.snap = NoJob, !.used = 0]

Approve(a) ==
    LET j == admin[a].cur
    IN  /\ admin[a].at = "open"
        /\ admin[a].used < Capacity
        /\ job[j] = admin[a].snap
        /\ IF admin[a].op = "approve" \/ job[j].approval = "pending"
           THEN /\ job' = [job EXCEPT ![j] = Approved(@)]
                /\ loose' = loose \ {j}
           ELSE UNCHANGED <<job, loose>>
        /\ admin' = [admin EXCEPT ![a] =
             IF @.op = "approve"
             THEN [@ EXCEPT !.at = "recheck", !.snap = NoJob, !.used = 0]
             ELSE NextPost(a)]
        /\ UNCHANGED <<clock, poster, accepted>>

(* The post was written since the snapshot: aborted, and retried.          *)
WriteConflict(a) ==
    /\ admin[a].at = "open"
    /\ job[admin[a].cur] # admin[a].snap
    /\ admin' = [admin EXCEPT ![a].at = "loaded", ![a].cur = None,
                              ![a].snap = NoJob, ![a].used = 0]
    /\ UNCHANGED <<clock, job, poster, accepted, loose>>

CapacityExhausted(a) ==
    /\ admin[a].at = "open"
    /\ admin[a].used >= Capacity
    /\ admin' = [admin EXCEPT ![a] = NextPost(a)]
    /\ UNCHANGED <<clock, job, poster, accepted, loose>>

(* approveJob looks again after its transaction, and takes the post back.  *)
Recheck(a) ==
    /\ admin[a].at = "recheck"
    /\ admin' = [admin EXCEPT ![a] =
         IF Cardinality(ActiveFree) > Capacity
         THEN [@ EXCEPT !.at = "undo"] ELSE IdleAdmin]
    /\ UNCHANGED <<clock, job, poster, accepted, loose>>

Undo(a) ==
    LET old == admin[a].old
    IN  /\ admin[a].at = "undo"
        /\ WriteJobs([job EXCEPT ![admin[a].cur].status = old.status,
                                 ![admin[a].cur].approval = old.approval,
                                 ![admin[a].cur].plan = old.plan])
        /\ admin' = [admin EXCEPT ![a] = IdleAdmin]
        /\ UNCHANGED <<clock, poster, accepted>>

(* bulkAction reads the usage once, and counts the posts it publishes.     *)
CountSlots(a) ==
    /\ admin[a].at = "loaded" /\ admin[a].op = "bulkAction"
    /\ admin' = [admin EXCEPT ![a].at = "counted",
                              ![a].used = Cardinality(ActiveFree)]
    /\ UNCHANGED <<clock, job, poster, accepted, loose>>

Publish(a, j) ==
    LET rest == admin[a].todo \ {j}
        n == admin[a].used
    IN  /\ admin[a].at = "counted" /\ j \in admin[a].todo
        /\ IF n < Capacity
           THEN WriteJobs([job EXCEPT ![j] = Approved(@)])
           ELSE UNCHANGED <<job, loose>>
        /\ admin' = [admin EXCEPT ![a] =
             IF rest = {} THEN IdleAdmin
             ELSE [@ EXCEPT !.todo = rest,
                            !.used = IF n < Capacity THEN n + 1 ELSE n]]
        /\ UNCHANGED <<clock, poster, accepted>>

(* rejectJob writes by id what it loaded as pending; the bulk rejections   *)
(* only what is pending still.                                             *)
MarkRejected(a) ==
    LET hit == {j \in admin[a].todo :
                  admin[a].op = "reject" \/ job[j].approval = "pending"}
        docs == [j \in Jobs |-> IF j \in hit
                                THEN [job[j] EXCEPT !.approval = "rejected"]
                                ELSE job[j]]
    IN  /\ admin[a].at = "loaded" /\ admin[a].op \in {"reject", "bulkReject"}
        /\ WriteJobs(docs)
        /\ admin' = [admin EXCEPT ![a].at = "rejected",
             ![a].old = IF admin[a].op = "reject"
                        THEN docs[CHOOSE j \in admin[a].todo : TRUE] ELSE @]
        /\ UNCHANGED <<clock, poster, accepted>>

(* Back to a private draft: by a save of the document the rejection        *)
(* returned, or, in bulk, whatever has become of the posts.                *)
MakeDrafts(a) ==
    LET old == admin[a].old
        draft(doc) == IF admin[a].op = "reject"
                      THEN Saved(doc, old, Withdrawn(old)) ELSE Withdrawn(doc)
    IN  /\ admin[a].at = "rejected"
        /\ WriteJobs([j \in Jobs |-> IF j \in admin[a].todo THEN draft(job[j])
                                                            ELSE job[j]])
        /\ admin' = [admin EXCEPT ![a] = IdleAdmin]
        /\ UNCHANGED <<clock, poster, accepted>>

SuspendListing(j) ==
    /\ job[j].status # "absent"
    /\ WriteJobs([job EXCEPT ![j].status = "closed", ![j].approval = "rejected"])
    /\ UNCHANGED <<clock, poster, admin, accepted>>

Archive(j) ==
    /\ job[j].status # "absent"
    /\ WriteJobs([job EXCEPT ![j].status = "closed"])
    /\ UNCHANGED <<clock, poster, admin, accepted>>

(* The process stops; a transaction that is open is aborted.               *)
StopAdmin(a) ==
    /\ admin[a].at # "idle"
    /\ admin' = [admin EXCEPT ![a] = IdleAdmin]
    /\ UNCHANGED <<clock, job, poster, accepted, loose>>

-----------------------------------------------------------------------------
Employ(p) ==
    \/ \E op \in {"edit", "close", "reopen", "activate"}, j \in Jobs :
         LoadJob(p, op, j)
    \/ \E b \in BOOLEAN : JudgeSubmission(p, b) \/ SaveEdit(p, b)
    \/ SaveClose(p) \/ SaveReopen(p) \/ SaveSubmission(p) \/ DropPoster(p)

Review(a) ==
    \/ \E op \in {"approve", "bulkApprove", "bulkAction", "reject",
                  "bulkReject"}, todo \in SUBSET Jobs :
         LoadPending(a, op, todo)
    \/ \E j \in Jobs : OpenTransaction(a, j) \/ Publish(a, j)
    \/ Approve(a) \/ WriteConflict(a) \/ CapacityExhausted(a)
    \/ Recheck(a) \/ Undo(a) \/ CountSlots(a)
    \/ MarkRejected(a) \/ MakeDrafts(a) \/ StopAdmin(a)

Next ==
    \/ Tick
    \/ \E j \in Jobs : CreateJob(j) \/ SuspendListing(j) \/ Archive(j)
    \/ \E p \in Posters : Employ(p)
    \/ \E a \in Admins : Review(a)

Spec == Init /\ [][Next]_vars

-----------------------------------------------------------------------------
(* Properties *)

(* Approvals under the guard never exceed the capacity, however they run   *)
(* beside each other, beside the employer's edits and beside reviews that  *)
(* do not take the guard; only what these published themselves comes on    *)
(* top.                                                                    *)
CapacityHolds == Cardinality(ActiveFree \ loose) <= Capacity

(* Leaving out submissions judged while another was being saved, no window *)
(* of time holds more charged submissions than the policy allows: closing, *)
(* reopening, rejecting or editing a post gives none back, and no save     *)
(* that comes late loses one.                                              *)
ChargesWithinQuota ==
    \A q \in Quotas, t \in 0 .. clock :
        Cardinality({i \in DOMAIN accepted :
                       /\ ~accepted[i].beside
                       /\ accepted[i].at <= t
                       /\ accepted[i].at + q.window > t}) <= q.limit
=============================================================================
