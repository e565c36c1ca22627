------------------------------ MODULE JobQueue ------------------------------
(***************************************************************************)
(* The background job queue.  Callers enqueue BackgroundJob documents;     *)
(* runners (worker replicas, the cron of an API instance, an administrator *)
(* who processes the queue now) execute the due ones in batches under a    *)
(* Redis lock with a time to live; administrators put dead jobs back.      *)
(*                                                                         *)
(* A runner works on documents it loaded at the start of its batch and     *)
(* saves them one field at a time: a save writes the fields that changed,  *)
(* whatever the stored document has become.                                *)
(*                                                                         *)
(* Time: a pending job whose scheduledAt lies ahead is "waiting" here, and *)
(* comes due at any time.  An event is what a job is about; its dedupKey,  *)
(* when it has one, is the event with the trail of attempts after which    *)
(* it was enqueued again as retry_email.                                   *)
(***************************************************************************)
EXTENDS Naturals, Sequences, FiniteSets

CONSTANTS
    Jobs,        \* document ids; their number bounds the model
    Events,      \* what jobs are enqueued about
    Mail,        \* the events whose job is an e-mail
    Keyed,       \* the events enqueued with a dedupKey
    Runners,     \* concurrent callers of processQueue
    Admins,      \* concurrent callers of retryDeadJobs
    None,        \* no job, no runner
    MaxAttempts, \* maxAttempts of an enqueued job
    Limit        \* BATCH_SIZE

ASSUME QueueAssumption ==
    /\ Mail \subseteq Events /\ Keyed \subseteq Events
    /\ None \notin Jobs \cup Runners
    /\ {MaxAttempts, Limit} \subseteq Nat \ {0}

VARIABLES
    job,     \* [Jobs -> the stored document]
    lock,    \* the runner that set the lock key, or None
    stage,   \* [Runners -> the next step of processQueue]
    todo,    \* [Runners -> the jobs of its batch it has not begun]
    cur,     \* [Runners -> the job it executes]
    tries,   \* [Runners -> [Jobs -> attempts of the documents it loaded]]
    reset    \* [Admins -> the dead jobs it found and has not put back]

vars == <<job, lock, stage, todo, cur, tries, reset>>

-----------------------------------------------------------------------------
Executing == {"execute", "complete", "settle", "bury"}
Stage     == Executing \cup {"idle", "find", "next", "release"}
Pending   == {"pending", "waiting"}
Status    == Pending \cup {"absent", "processing", "completed", "dead"}

JobDoc == [status : Status, event : Events \cup {None}, trail : Seq(Nat),
           attempts : Nat]

NoJob == [status |-> "absent", event |-> None, trail |-> <<>>, attempts |-> 0]
NewJob(e, trail, status) ==
    [status |-> status, event |-> e, trail |-> trail, attempts |-> 0]

TypeOK ==
    /\ job \in [Jobs -> JobDoc]
    /\ lock \in Runners \cup {None}
    /\ stage \in [Runners -> Stage]
    /\ todo \in [Runners -> SUBSET Jobs]
    /\ cur \in [Runners -> Jobs \cup {None}]
    /\ tries \in [Runners -> [Jobs -> Nat]]
    /\ reset \in [Admins -> SUBSET Jobs]

NoTries == [j \in Jobs |-> 0]

Init ==
    /\ job = [j \in Jobs |-> NoJob]
    /\ lock = None
    /\ stage = [w \in Runners |-> "idle"]
    /\ todo = [w \in Runners |-> {}]
    /\ cur = [w \in Runners |-> None]
    /\ tries = [w \in Runners |-> NoTries]
    /\ reset = [a \in Admins |-> {}]

-----------------------------------------------------------------------------
(* The filters of the queries *)

Free == {j \in Jobs : job[j].status = "absent"}

(* The faulty form also takes up jobs that were left in processing.        *)
FaultyDue == {j \in Jobs : job[j].status \in {"pending", "processing"}}
Due       == {j \in Jobs : job[j].status = "pending"}

(* The faulty form also puts back jobs that were left in processing.       *)
FaultyDead == {j \in Jobs : job[j].status \in {"dead", "processing"}}
Dead       == {j \in Jobs : job[j].status = "dead"}

(* The unique index on dedupKey, which holds whatever the status: the      *)
(* query before the insert misses a dead job, the index does not.          *)
Enqueued(e, trail) ==
    \E j \in Jobs \ Free : job[j].event = e /\ job[j].trail = trail

InBatch(w) == stage[w] # "idle"

Subject(w) == job[cur[w]].event
Spent(w)   == tries[w][cur[w]] >= IF job[cur[w]].trail = <<>> THEN MaxAttempts
                                                               ELSE 1
RetryTrail(w) == Append(job[cur[w]].trail, tries[w][cur[w]])

(* save: the fields that changed.                                          *)
SaveStatus(j, status) == job' = [job EXCEPT ![j].status = status]
SaveAttempts(j, status, n) ==
    job' = [job EXCEPT ![j] = [@ EXCEPT !.status = status, !.attempts = n]]

Goto(w, s) == stage' = [stage EXCEPT ![w] = s]

(* The job has ended, and its document is not used again.                  *)
NextJob(w) == /\ Goto(w, "next")
              /\ cur' = [cur EXCEPT ![w] = None]
              /\ tries' = [tries EXCEPT ![w][cur[w]] = 0]

(* The loop ends, and with it the documents it has loaded; the call        *)
(* returns, or the process is gone.                                        *)
Drop(w) ==
    /\ todo' = [todo EXCEPT ![w] = {}]
    /\ cur' = [cur EXCEPT ![w] = None]
    /\ tries' = [tries EXCEPT ![w] = NoTries]

Forget(w) == Goto(w, "idle") /\ Drop(w)

Holder == <<lock, reset>>
Loaded == <<todo, tries>>

-----------------------------------------------------------------------------
(* enqueueJob.  Callers repeat an event that has a key; one without a key  *)
(* is enqueued once.                                                       *)
Enqueue(e) ==
    /\ ~Enqueued(e, <<>>)
    /\ \E j \in Free, status \in Pending :
          job' = [job EXCEPT ![j] = NewJob(e, <<>>, status)]
    /\ UNCHANGED <<stage, cur, Loaded, Holder>>

ComeDue(j) ==
    /\ job[j].status = "waiting"
    /\ SaveStatus(j, "pending")
    /\ UNCHANGED <<stage, cur, Loaded, Holder>>

-----------------------------------------------------------------------------
(* The lock *)

(* SET NX.  A runner that finds the key set skips its turn.  The faulty    *)
(* form sets the key unconditionally.                                      *)
FaultyAcquire(w) ==
    /\ stage[w] = "idle"
    /\ lock' = w
    /\ Goto(w, "find")
    /\ UNCHANGED <<job, cur, Loaded, reset>>
Acquire(w) ==
    /\ stage[w] = "idle"
    /\ lock = None
    /\ lock' = w
    /\ Goto(w, "find")
    /\ UNCHANGED <<job, cur, Loaded, reset>>

(* DEL, whoever set the key.                                               *)
Release(w) ==
    /\ stage[w] = "release" \/ (stage[w] = "next" /\ todo[w] = {})
    /\ lock' = None
    /\ Forget(w)
    /\ UNCHANGED <<job, reset>>

(* The key expires, though its runner may be in the middle of its batch:   *)
(* nothing bounds a batch to the time to live.                             *)
LockExpires ==
    /\ lock # None
    /\ lock' = None
    /\ UNCHANGED <<job, stage, cur, Loaded, reset>>

-----------------------------------------------------------------------------
(* processQueue *)

(* The batch: the due jobs, as many as the limit allows.  The order of     *)
(* their due times, in which they are taken and begun, is left open.       *)
Find(w) ==
    /\ stage[w] = "find"
    /\ \E batch \in SUBSET Due :
          /\ Cardinality(batch) = Limit \/ (batch = Due /\ Cardinality(Due) < Limit)
          /\ todo' = [todo EXCEPT ![w] = batch]
          /\ tries' = [tries EXCEPT ![w] =
                          [j \in Jobs |-> IF j \in batch THEN job[j].attempts
                                                         ELSE 0]]
    /\ Goto(w, "next")
    /\ UNCHANGED <<job, cur, Holder>>

(* A job is marked processing and its attempt counted before it runs.  The *)
(* faulty form leaves the count to the completion.                         *)
FaultyBegin(w, j) ==
    /\ stage[w] = "next" /\ j \in todo[w]
    /\ SaveStatus(j, "processing")
    /\ todo' = [todo EXCEPT ![w] = @ \ {j}]
    /\ cur' = [cur EXCEPT ![w] = j]
    /\ Goto(w, "execute")
    /\ UNCHANGED <<tries, Holder>>
Begin(w, j) ==
    /\ stage[w] = "next" /\ j \in todo[w]
    /\ SaveAttempts(j, "processing", tries[w][j] + 1)
    /\ tries' = [tries EXCEPT ![w][j] = @ + 1]
    /\ todo' = [todo EXCEPT ![w] = @ \ {j}]
    /\ cur' = [cur EXCEPT ![w] = j]
    /\ Goto(w, "execute")
    /\ UNCHANGED Holder

(* executeJob takes effect and returns.                                    *)
Execute(w) ==
    /\ stage[w] = "execute"
    /\ Goto(w, "complete")
    /\ UNCHANGED <<job, cur, Loaded, Holder>>

(* executeJob throws, before its effect or after it.                       *)
ExecuteFails(w) ==
    /\ stage[w] = "execute"
    /\ Goto(w, "settle")
    /\ UNCHANGED <<job, cur, Loaded, Holder>>

(* The save that completes the job, and the catch clause if it is refused. *)
Complete(w) ==
    /\ stage[w] = "complete"
    /\ SaveStatus(cur[w], "completed")
    /\ NextJob(w)
    /\ UNCHANGED <<todo, Holder>>

CompleteRefused(w) ==
    /\ stage[w] = "complete"
    /\ Goto(w, "settle")
    /\ UNCHANGED <<job, cur, Loaded, Holder>>

(* The retry of a dead e-mail is there, or it is stored now, or an error   *)
(* is swallowed (which stands for a model that has no id left, too).       *)
EnqueueRetry(e, trail) ==
    \/ UNCHANGED job
    \/ /\ ~(e \in Keyed /\ Enqueued(e, trail))
       /\ \E j \in Free : job' = [job EXCEPT ![j] = NewJob(e, trail, "pending")]

(* The catch clause: back to pending with a delay, or dead; a dead e-mail  *)
(* is first enqueued once more.  The faulty form buries it first.          *)
FaultySettle(w) ==
    /\ stage[w] = "settle"
    /\ SaveStatus(cur[w], IF Spent(w) THEN "dead" ELSE "waiting")
    /\ NextJob(w)
    /\ UNCHANGED <<todo, Holder>>
Settle(w) ==
    /\ stage[w] = "settle"
    /\ \/ /\ ~Spent(w)
          /\ SaveStatus(cur[w], "waiting") /\ NextJob(w)
       \/ /\ Spent(w) /\ Subject(w) \notin Mail
          /\ SaveStatus(cur[w], "dead") /\ NextJob(w)
       \/ /\ Spent(w) /\ Subject(w) \in Mail
          /\ EnqueueRetry(Subject(w), RetryTrail(w))
          /\ Goto(w, "bury") /\ UNCHANGED <<cur, tries>>
    /\ UNCHANGED <<todo, Holder>>

Bury(w) ==
    /\ stage[w] = "bury"
    /\ SaveStatus(cur[w], "dead")
    /\ NextJob(w)
    /\ UNCHANGED <<todo, Holder>>

(* A save outside the inner try is refused: the batch is left, with its    *)
(* job as it was stored.                                                   *)
SaveRefused(w) ==
    /\ \/ stage[w] = "next" /\ todo[w] # {}
       \/ stage[w] = "settle" /\ ~(Spent(w) /\ Subject(w) \in Mail)
       \/ stage[w] = "bury"
    /\ Goto(w, "release") /\ Drop(w)
    /\ UNCHANGED <<job, Holder>>

Crash(w) ==
    /\ InBatch(w)
    /\ Forget(w)
    /\ UNCHANGED <<job, Holder>>

-----------------------------------------------------------------------------
(* retryDeadJobs *)

FindDead(a) ==
    /\ reset[a] = {}
    /\ \E batch \in SUBSET Dead : batch # {}
                               /\ reset' = [reset EXCEPT ![a] = batch]
    /\ UNCHANGED <<job, lock, stage, cur, Loaded>>

PutBack(a, j) ==
    /\ j \in reset[a]
    /\ SaveAttempts(j, "pending", 0)
    /\ reset' = [reset EXCEPT ![a] = @ \ {j}]
    /\ UNCHANGED <<lock, stage, cur, Loaded>>

(* A save is refused, or the process stops: the rest is not put back.      *)
LeaveDead(a) ==
    /\ reset[a] # {}
    /\ reset' = [reset EXCEPT ![a] = {}]
    /\ UNCHANGED <<job, lock, stage, cur, Loaded>>

-----------------------------------------------------------------------------
Step(w) ==
    \/ Find(w) \/ (\E j \in Jobs : Begin(w, j))
    \/ Execute(w) \/ ExecuteFails(w) \/ Complete(w) \/ CompleteRefused(w)
    \/ Settle(w) \/ Bury(w) \/ SaveRefused(w) \/ Release(w)

Next ==
    \/ \E e \in Events : Enqueue(e)
    \/ \E j \in Jobs : ComeDue(j)
    \/ \E w \in Runners : Acquire(w) \/ Step(w) \/ Crash(w)
    \/ LockExpires
    \/ \E a \in Admins : \/ FindDead(a) \/ LeaveDead(a)
                         \/ \E j \in Jobs : PutBack(a, j)

Spec == Init /\ [][Next]_vars

(* Runners poll on a timer, and what they started they go on with; time    *)
(* passes, for jobs and for the lock key.  Processes may stop and saves be *)
(* refused again and again, but not each time that a batch is about to be  *)
(* loaded or a job to be begun.                                            *)
FairSpec ==
    /\ Spec
    /\ \A w \in Runners : WF_vars(Step(w))
    /\ WF_vars(\E w \in Runners : Acquire(w))
    /\ WF_vars(LockExpires)
    /\ \A j \in Jobs : WF_vars(ComeDue(j))
    /\ SF_vars(\E w \in Runners : Find(w))
    /\ \A j \in Jobs : SF_vars(\E w \in Runners : Begin(w, j))

-----------------------------------------------------------------------------
(* Properties *)

(* The runner stopped, or a save was refused, while it executed the job:   *)
(* no query finds the job again.                                           *)
Stranded(j) ==
    /\ job[j].status = "processing"
    /\ \A w \in Runners : ~(stage[w] \in Executing /\ cur[w] = j)

(* Every job that is enqueued is completed or dead in the end, however its *)
(* executions fail, wherever runners stop and however often it is put back,*)
(* but for a job that was being executed when its runner gave up.          *)
EveryJobSettles ==
    \A j \in Jobs : job[j].status # "absent"
                       ~> job[j].status \in {"completed", "dead"} \/ Stranded(j)
=============================================================================
