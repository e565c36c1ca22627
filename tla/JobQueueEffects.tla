-------------------------- MODULE JobQueueEffects ---------------------------
(***************************************************************************)
(* What the jobs of the queue do: the effect of each execution, and the    *)
(* promises about effects and documents that survive the failures the code *)
(* does nothing about.  History variables note when one of these happened, *)
(* so that a promise excepts exactly the jobs it happened to; they guard   *)
(* no step, and every behaviour of JobQueue is one of this module.         *)
(***************************************************************************)
EXTENDS JobQueue

VARIABLES
    sent,    \* the jobs whose effect took place
    again,   \* those whose effect took place more than once
    shared,  \* jobs that two callers may hold at once: of a batch that lost
             \* the lock key, or put back while another administrator held it
    excused, \* events given up after the effect took place, or whose dead
             \* e-mail was put back beside its own retry
    lost     \* dead e-mails whose retry could not be stored

history == <<sent, again, shared, excused, lost>>
evars   == <<vars, history>>

EffectsTypeOK ==
    /\ TypeOK
    /\ again \subseteq sent /\ sent \subseteq Jobs
    /\ shared \subseteq Jobs /\ lost \subseteq Jobs
    /\ excused \subseteq Events \cup {None}

EffectsInit ==
    /\ Init
    /\ sent = {} /\ again = {}
    /\ shared = {} /\ excused = {} /\ lost = {}

-----------------------------------------------------------------------------
(* executeJob takes effect for the job of w.                               *)
Effect(w) ==
    /\ sent' = sent \cup {cur[w]}
    /\ again' = again \cup ({cur[w]} \cap sent)

(* The catch clause handles the job of w, though its effect took place.    *)
GivenUp(w) == excused' = excused \cup {Subject(w)}

(* These jobs are no longer guarded by the lock.                           *)
Share(J) == shared' = shared \cup J

EExecute(w)      == Execute(w) /\ Effect(w) /\ UNCHANGED <<shared, excused, lost>>
EExecuteFails(w) ==
    /\ ExecuteFails(w)
    /\ UNCHANGED <<sent, again, excused>> \/ (Effect(w) /\ GivenUp(w))
    /\ UNCHANGED <<shared, lost>>
ECompleteRefused(w) ==
    CompleteRefused(w) /\ GivenUp(w) /\ UNCHANGED <<sent, again, shared, lost>>

ESettle(w) ==
    /\ Settle(w)
    /\ lost' = IF stage'[w] # "bury" THEN lost
               ELSE IF Enqueued(Subject(w), RetryTrail(w))' THEN lost \ {cur[w]}
               ELSE lost \cup {cur[w]}
    /\ UNCHANGED <<sent, again, shared, excused>>

(* A runner that loads its batch after its key is gone, or deletes the key *)
(* of another; a key that expires; an administrator beside another.        *)
EFind(w) ==
    /\ Find(w)
    /\ Share(IF lock = w THEN {} ELSE todo'[w])
    /\ UNCHANGED <<sent, again, excused, lost>>
ERelease(w) ==
    /\ Release(w)
    /\ Share(IF lock \in {w, None} THEN {} ELSE todo[lock])
    /\ UNCHANGED <<sent, again, excused, lost>>
ELockExpires ==
    LockExpires /\ Share(todo[lock]) /\ UNCHANGED <<sent, again, excused, lost>>
EPutBack(a, j) ==
    /\ PutBack(a, j)
    /\ Share({k \in {j} : \E b \in Admins \ {a} : k \in reset[b]})
    /\ excused' = excused \cup ({job[j].event} \cap Mail)
    /\ UNCHANGED <<sent, again, lost>>

Quiet ==
    \/ \E e \in Events : Enqueue(e)
    \/ \E j \in Jobs : ComeDue(j)
    \/ \E w \in Runners :
          \/ Acquire(w) \/ (\E j \in Jobs : Begin(w, j)) \/ Complete(w) \/ Bury(w)
          \/ SaveRefused(w) \/ Crash(w)
    \/ \E a \in Admins : FindDead(a) \/ LeaveDead(a)

EffectsNext ==
    \/ Quiet /\ UNCHANGED history
    \/ \E w \in Runners :
          \/ EFind(w) \/ EExecute(w) \/ EExecuteFails(w) \/ ECompleteRefused(w)
          \/ ESettle(w) \/ ERelease(w)
    \/ ELockExpires
    \/ \E a \in Admins, j \in Jobs : EPutBack(a, j)

EffectsSpec == EffectsInit /\ [][EffectsNext]_evars

-----------------------------------------------------------------------------
(* Properties *)

(* What w has loaded and not ended.                                        *)
Hands(w) == todo[w] \cup (IF stage[w] \in Executing THEN {cur[w]} ELSE {})

(* No job is in the hands of two runners, though processes stop, batches   *)
(* outlast their key and the key is deleted by whoever ends a batch: but   *)
(* for the jobs of a batch not yet begun when its key was gone, which the  *)
(* next runner finds again.                                                *)
OneProcessor ==
    \A v, w \in Runners : v # w => Hands(v) \cap Hands(w) \subseteq shared

(* Nothing happened to the jobs of e that the code cannot undo.            *)
Sure(e) == e \notin excused /\ \A j \in shared : job[j].event # e

(* An event has its effect once at most, over its job and all the retries  *)
(* that were enqueued when that died, whatever fails or stops where: but   *)
(* for the events of jobs given up after their effect (the code cannot     *)
(* tell), of e-mails put back beside their retry, and of shared jobs.      *)
EventSentOnce ==
    /\ \A j \in again : ~Sure(job[j].event)
    /\ \A j, k \in sent :
          job[j].event = job[k].event /\ Sure(job[j].event) => j = k

(* A dead e-mail is never lost: the job that tries it again was stored     *)
(* before, and stays, unless the error of storing it was swallowed.        *)
DeadMailIsRetried ==
    \A j \in Dead \ (lost \cup shared) :
        job[j].event \in Mail
            => Enqueued(job[j].event, Append(job[j].trail, job[j].attempts))

(* A completed job is never executed nor put back again, by callers that   *)
(* loaded it earlier either, unless two could hold it at once.             *)
CompletedIsFinal ==
    [][\A j \in Jobs : job[j].status = "completed"
                          => job'[j].status = "completed" \/ j \in shared']_evars
=============================================================================
