--------------------------- MODULE JobQueueProof ----------------------------
(***************************************************************************)
(* Theorems about JobQueue and JobQueueEffects for any number of jobs,     *)
(* events, runners, administrators and attempts.                           *)
(*                                                                         *)
(* Guarded: what a runner has loaded and not begun is guarded by the lock  *)
(* key of that runner, or counted as shared.  TurnInv: the status of a job *)
(* that is not shared says in whose hands it is (a batch, an execution, an *)
(* administrator), so that it has one writer at a time.  EffectInv: an     *)
(* event to which nothing happened that the code cannot undo has at most   *)
(* one open job, done or still to do, and a job whose effect took place is *)
(* out of reach.  MailInv: a job is buried after its retry was stored.     *)
(***************************************************************************)
EXTENDS JobQueueEffects, TLAPS

-----------------------------------------------------------------------------
(* Every step preserves the types *)

TypeInv ==
    /\ TypeOK
    /\ \A w \in Runners : stage[w] \in Executing => cur[w] \in Jobs

USE DEF Stage, Executing, Pending, Status, JobDoc, NoJob, NewJob, NoTries,
        SaveStatus, Goto, NextJob, Drop, Forget, Holder, Loaded

(* A document whose attempts are saved.                                    *)
LEMMA SavedAttempts ==
    ASSUME NEW d \in JobDoc, NEW s \in Status, NEW n \in Nat
    PROVE  LET e == [d EXCEPT !.status = s, !.attempts = n]
           IN  /\ e \in JobDoc
               /\ e.status = s /\ e.event = d.event /\ e.trail = d.trail
  OBVIOUS

LEMMA StoreKeepsType ==
    ASSUME job \in [Jobs -> JobDoc], NEW j \in Jobs, NEW d \in JobDoc,
           job' = [job EXCEPT ![j] = d]
    PROVE  job' \in [Jobs -> JobDoc]
  OBVIOUS

LEMMA AttemptsKeepType ==
    ASSUME job \in [Jobs -> JobDoc], NEW j \in Jobs, NEW s \in Status,
           NEW n \in Nat, SaveAttempts(j, s, n)
    PROVE  job' \in [Jobs -> JobDoc]
  <1>. DEFINE d == [job[j] EXCEPT !.status = s, !.attempts = n]
  <1>1. d \in JobDoc
    BY SavedAttempts
  <1>2. job' = [job EXCEPT ![j] = d]
    BY DEF SaveAttempts
  <1>. HIDE DEF d
  <1>. QED
    BY <1>1, <1>2, StoreKeepsType

LEMMA StatusKeepsType ==
    ASSUME job \in [Jobs -> JobDoc], NEW j \in Jobs, NEW s \in Status,
           SaveStatus(j, s)
    PROVE  job' \in [Jobs -> JobDoc]
  OBVIOUS

LEMMA EndedKeepsType ==
    ASSUME TypeInv, NEW w \in Runners, stage[w] \in Executing, NextJob(w)
    PROVE  tries' \in [Runners -> [Jobs -> Nat]]
  <1>1. [tries[w] EXCEPT ![cur[w]] = 0] \in [Jobs -> Nat]
    BY DEF TypeInv, TypeOK
  <1>. QED
    BY <1>1 DEF TypeInv, TypeOK

LEMMA InitTypes == Init => TypeInv
  BY QueueAssumption DEF Init, TypeInv, TypeOK

(* The step that stores a new job or a new status, and one that counts.    *)
LEMMA TypeStep ==
    ASSUME TypeInv, [Next]_vars
    PROVE  TypeInv'
  <1>. USE QueueAssumption DEF TypeInv, TypeOK
  <1>1. ASSUME NEW e \in Events, Enqueue(e)
        PROVE  TypeInv'
    <2>1. PICK j \in Free, status \in Pending :
             job' = [job EXCEPT ![j] = NewJob(e, <<>>, status)]
      BY <1>1 DEF Enqueue
    <2>2. NewJob(e, <<>>, status) \in JobDoc
      OBVIOUS
    <2>3. job' \in [Jobs -> JobDoc]
      BY <2>1, <2>2 DEF Free
    <2>. QED
      BY <1>1, <2>3 DEF Enqueue
  <1>2. ASSUME NEW j \in Jobs, ComeDue(j)
        PROVE  TypeInv'
    BY <1>2 DEF ComeDue
  <1>3. ASSUME NEW w \in Runners, Acquire(w)
        PROVE  TypeInv'
    BY <1>3 DEF Acquire
  <1>4. ASSUME NEW w \in Runners, Find(w)
        PROVE  TypeInv'
    <2>1. PICK batch \in SUBSET Due :
             /\ todo' = [todo EXCEPT ![w] = batch]
             /\ tries' = [tries EXCEPT ![w] =
                   [j \in Jobs |-> IF j \in batch THEN job[j].attempts ELSE 0]]
      BY <1>4 DEF Find
    <2>2. [j \in Jobs |-> IF j \in batch THEN job[j].attempts ELSE 0]
             \in [Jobs -> Nat]
      OBVIOUS
    <2>3. batch \in SUBSET Jobs
      BY DEF Due
    <2>4. tries' \in [Runners -> [Jobs -> Nat]]
      BY <2>1, <2>2
    <2>5. todo' \in [Runners -> SUBSET Jobs]
      BY <2>1, <2>3
    <2>. QED
      BY <1>4, <2>4, <2>5 DEF Find
  <1>5. ASSUME NEW w \in Runners, NEW j \in Jobs, Begin(w, j)
        PROVE  TypeInv'
    <2>1. tries[w][j] + 1 \in Nat
      OBVIOUS
    <2>2. job' \in [Jobs -> JobDoc]
      BY <1>5, <2>1, AttemptsKeepType DEF Begin
    <2>3. tries' \in [Runners -> [Jobs -> Nat]]
      <3>1. [tries[w] EXCEPT ![j] = @ + 1] \in [Jobs -> Nat]
        BY <2>1
      <3>2. tries' = [tries EXCEPT ![w] = [tries[w] EXCEPT ![j] = @ + 1]]
        BY <1>5 DEF Begin
      <3>. QED
        BY <3>1, <3>2
    <2>. QED
      BY <1>5, <2>2, <2>3 DEF Begin
  <1>6. ASSUME NEW w \in Runners, Execute(w)
        PROVE  TypeInv'
    BY <1>6 DEF Execute
  <1>7. ASSUME NEW w \in Runners, ExecuteFails(w) \/ CompleteRefused(w)
        PROVE  TypeInv'
    BY <1>7 DEF ExecuteFails, CompleteRefused
  <1>8. ASSUME NEW w \in Runners, Complete(w)
        PROVE  TypeInv'
    <2>1. job' \in [Jobs -> JobDoc]
      BY <1>8, StatusKeepsType DEF Complete
    <2>2. tries' \in [Runners -> [Jobs -> Nat]]
      BY <1>8, EndedKeepsType DEF Complete
    <2>. QED
      BY <1>8, <2>1, <2>2 DEF Complete
  <1>9. ASSUME NEW w \in Runners, Settle(w)
        PROVE  TypeInv'
    <2>1. /\ cur[w] \in Jobs
          /\ cur' \in [Runners -> Jobs \cup {None}]
          /\ stage' \in [Runners -> Stage]
          /\ \A v \in Runners : stage'[v] \in Executing => cur'[v] \in Jobs
      BY <1>9 DEF Settle
    <2>5. tries' \in [Runners -> [Jobs -> Nat]]
      BY <1>9, EndedKeepsType DEF Settle
    <2>2. CASE UNCHANGED job
      BY <1>9, <2>1, <2>2, <2>5 DEF Settle
    <2>3. CASE \E s \in Status : SaveStatus(cur[w], s)
      <3>1. job' \in [Jobs -> JobDoc]
        BY <2>1, <2>3, StatusKeepsType
      <3>. QED
        BY <1>9, <2>1, <2>5, <3>1 DEF Settle
    <2>4. CASE \E j \in Free :
                  job' = [job EXCEPT ![j] = NewJob(Subject(w), RetryTrail(w),
                                                   "pending")]
      <3>1. Subject(w) \in Events \cup {None} /\ RetryTrail(w) \in Seq(Nat)
        BY <2>1 DEF Subject, RetryTrail
      <3>. QED
        BY <1>9, <2>1, <2>4, <2>5, <3>1 DEF Settle, Free
    <2>. QED
      BY <1>9, <2>2, <2>3, <2>4 DEF Settle, EnqueueRetry
  <1>10. ASSUME NEW w \in Runners, Bury(w)
         PROVE  TypeInv'
    <2>1. job' \in [Jobs -> JobDoc]
      BY <1>10, StatusKeepsType DEF Bury
    <2>2. tries' \in [Runners -> [Jobs -> Nat]]
      BY <1>10, EndedKeepsType DEF Bury
    <2>. QED
      BY <1>10, <2>1, <2>2 DEF Bury
  <1>11. ASSUME NEW w \in Runners, SaveRefused(w)
         PROVE  TypeInv'
    BY <1>11 DEF SaveRefused
  <1>12. ASSUME NEW w \in Runners, Release(w)
         PROVE  TypeInv'
    BY <1>12 DEF Release
  <1>13. ASSUME NEW w \in Runners, Crash(w)
         PROVE  TypeInv'
    BY <1>13 DEF Crash
  <1>14. CASE LockExpires
    BY <1>14 DEF LockExpires
  <1>15. ASSUME NEW a \in Admins, FindDead(a) \/ LeaveDead(a)
         PROVE  TypeInv'
    <2>1. reset' \in [Admins -> SUBSET Jobs]
      BY <1>15 DEF FindDead, LeaveDead, Dead
    <2>. QED
      BY <1>15, <2>1 DEF FindDead, LeaveDead
  <1>16. ASSUME NEW a \in Admins, NEW j \in Jobs, PutBack(a, j)
         PROVE  TypeInv'
    <2>1. job' \in [Jobs -> JobDoc]
      BY <1>16, AttemptsKeepType DEF PutBack
    <2>. QED
      BY <1>16, <2>1 DEF PutBack
  <1>17. CASE UNCHANGED vars
    BY <1>17 DEF vars
  <1>. QED
    BY <1>1, <1>2, <1>3, <1>4, <1>5, <1>6, <1>7, <1>8, <1>9, <1>10, <1>11,
       <1>12, <1>13, <1>14, <1>15, <1>16, <1>17 DEF Next, Step

(* Whatever runners, administrators and the database do, the documents and *)
(* the state of the runners stay in their types.                           *)
THEOREM QueueTypeCorrect == Spec => []TypeOK
  <1>1. TypeInv => TypeOK
    BY DEF TypeInv
  <1>. QED
    BY <1>1, InitTypes, TypeStep, PTL DEF Spec

-----------------------------------------------------------------------------
(* The history variables guard no step *)

LEMMA StepOfQueue ==
    ASSUME [EffectsNext]_evars
    PROVE  [Next]_vars
  BY DEF EffectsNext, Quiet, EFind, EExecute, EExecuteFails, ECompleteRefused,
         ESettle, ERelease, ELockExpires, EPutBack, evars, Next, Step

(* What is noted about the effects of jobs restricts nothing: the module   *)
(* implements the queue.                                                   *)
THEOREM EffectsImplementQueue == EffectsSpec => Spec
  <1>1. EffectsInit => Init
    BY DEF EffectsInit
  <1>2. [EffectsNext]_evars => [Next]_vars
    BY StepOfQueue
  <1>. QED
    BY <1>1, <1>2, PTL DEF EffectsSpec, Spec

(* What happened stays noted; the rest of the state is where it was unless *)
(* the step says otherwise.                                                *)
LEMMA HistoryGrows ==
    ASSUME [EffectsNext]_evars
    PROVE  /\ shared \subseteq shared' /\ excused \subseteq excused'
           /\ sent \subseteq sent' /\ again \subseteq again'
  BY DEF EffectsNext, Quiet, EFind, EExecute, EExecuteFails, ECompleteRefused,
         ESettle, ERelease, ELockExpires, EPutBack, evars, history, Effect,
         GivenUp, Share

Types == TypeInv /\ EffectsTypeOK

LEMMA TypesStep ==
    ASSUME Types, [EffectsNext]_evars
    PROVE  Types'
  <1>. USE DEF Types, EffectsTypeOK
  <1>1. TypeInv' /\ TypeOK'
    BY StepOfQueue, TypeStep DEF TypeInv
  <1>2. CASE UNCHANGED history
    BY <1>1, <1>2 DEF history
  <1>3. ASSUME NEW w \in Runners,
               EFind(w) \/ EExecute(w) \/ EExecuteFails(w) \/ ECompleteRefused(w)
        PROVE  Types'
    <2>1. todo'[w] \subseteq Jobs
      BY <1>1 DEF TypeOK
    <2>2. stage[w] \in Executing
             => cur[w] \in Jobs /\ Subject(w) \in Events \cup {None}
      BY DEF TypeInv, TypeOK, Subject
    <2>. QED
      BY <1>1, <1>3, <2>1, <2>2
         DEF EFind, EExecute, EExecuteFails, ECompleteRefused, Execute,
             ExecuteFails, CompleteRefused, Effect, GivenUp, Share
  <1>4. ASSUME NEW w \in Runners, ESettle(w) \/ ERelease(w)
        PROVE  Types'
    <2>1. lock \in Runners => todo[lock] \subseteq Jobs
      BY DEF TypeInv, TypeOK
    <2>2. stage[w] = "settle" => cur[w] \in Jobs
      BY DEF TypeInv
    <2>3. lock \in Runners \cup {None}
      BY DEF TypeInv, TypeOK
    <2>. QED
      BY <1>1, <1>4, <2>1, <2>2, <2>3 DEF ESettle, ERelease, Settle, Share
  <1>5. CASE ELockExpires
    BY <1>1, <1>5 DEF ELockExpires, LockExpires, Share, TypeInv, TypeOK
  <1>6. ASSUME NEW a \in Admins, NEW j \in Jobs, EPutBack(a, j)
        PROVE  Types'
    BY <1>1, <1>6 DEF EPutBack, Share, TypeInv, TypeOK
  <1>. QED
    BY <1>2, <1>3, <1>4, <1>5, <1>6 DEF EffectsNext, evars

LEMMA InitEffectTypes == EffectsInit => Types
  BY InitTypes DEF EffectsInit, Types, TypeInv, EffectsTypeOK

-----------------------------------------------------------------------------
(* A batch is guarded by its key *)

Guarded ==
    \A w \in Runners :
        /\ stage[w] \in {"idle", "find", "release"} => todo[w] = {}
        /\ lock # w => todo[w] \subseteq shared

LEMMA GuardedStep ==
    ASSUME Types, Guarded, [EffectsNext]_evars
    PROVE  Guarded'
  <1>. USE QueueAssumption DEF Types, TypeInv, TypeOK, Guarded
  <1>1. shared \subseteq shared'
    BY HistoryGrows
  <1>2. ASSUME UNCHANGED <<lock, stage, todo>>
        PROVE  Guarded'
    BY <1>1, <1>2
  <1>3. ASSUME NEW w \in Runners, Acquire(w)
        PROVE  Guarded'
    BY <1>1, <1>3 DEF Acquire
  <1>4. ASSUME NEW w \in Runners, EFind(w)
        PROVE  Guarded'
    <2>1. /\ \A v \in Runners \ {w} : todo'[v] = todo[v] /\ stage'[v] = stage[v]
          /\ stage'[w] = "next" /\ lock' = lock
      BY <1>4 DEF EFind, Find
    <2>2. lock # w => todo'[w] \subseteq shared'
      BY <1>4 DEF EFind, Share
    <2>. QED
      BY <1>1, <2>1, <2>2
  <1>5. ASSUME NEW w \in Runners, NEW j \in Jobs, Begin(w, j)
        PROVE  Guarded'
    BY <1>1, <1>5 DEF Begin
  <1>6. ASSUME NEW w \in Runners, \E s \in Executing \cup {"next"} : Goto(w, s),
               UNCHANGED <<lock, todo>>
        PROVE  Guarded'
    BY <1>1, <1>6
  <1>7. ASSUME NEW w \in Runners, SaveRefused(w) \/ Crash(w)
        PROVE  Guarded'
    <2>1. /\ lock' = lock /\ todo'[w] = {}
          /\ \A v \in Runners \ {w} : todo'[v] = todo[v] /\ stage'[v] = stage[v]
      BY <1>7 DEF SaveRefused, Crash
    <2>. QED
      BY <1>1, <2>1
  <1>8. ASSUME NEW w \in Runners, ERelease(w)
        PROVE  Guarded'
    <2>1. /\ \A v \in Runners \ {w} : todo'[v] = todo[v] /\ stage'[v] = stage[v]
          /\ todo'[w] = {}
      BY <1>8 DEF ERelease, Release
    <2>2. \A v \in Runners \ {w} : todo[v] \subseteq shared'
      BY <1>1, <1>8 DEF ERelease, Share
    <2>. QED
      BY <2>1, <2>2
  <1>9. CASE ELockExpires
    <2>1. \A v \in Runners : todo[v] \subseteq shared'
      BY <1>1, <1>9 DEF ELockExpires, LockExpires, Share
    <2>. QED
      BY <1>9, <2>1 DEF ELockExpires, LockExpires
  <1>10. ASSUME NEW w \in Runners,
                \/ Complete(w) \/ Bury(w) \/ EExecute(w) \/ EExecuteFails(w)
                \/ ECompleteRefused(w) \/ ESettle(w)
         PROVE  Guarded'
    BY <1>6, <1>10
       DEF Complete, Bury, EExecute, EExecuteFails, ECompleteRefused, ESettle,
           Execute, ExecuteFails, CompleteRefused, Settle
  <1>11. CASE \/ \E e \in Events : Enqueue(e)
              \/ \E j \in Jobs : ComeDue(j)
              \/ \E a \in Admins : FindDead(a) \/ LeaveDead(a)
              \/ \E a \in Admins, j \in Jobs : EPutBack(a, j)
              \/ UNCHANGED evars
    BY <1>2, <1>11
       DEF Enqueue, ComeDue, FindDead, LeaveDead, EPutBack, PutBack, evars, vars
  <1>. QED
    BY <1>3, <1>4, <1>5, <1>7, <1>8, <1>9, <1>10, <1>11 DEF EffectsNext, Quiet
-----------------------------------------------------------------------------
(* What a save leaves of the documents *)

SameJobs(J) ==
    \A k \in J : /\ job'[k].status = job[k].status
                 /\ job'[k].event = job[k].event /\ job'[k].trail = job[k].trail
                 /\ job'[k].attempts = job[k].attempts

Saved(j, s) ==
    /\ job'[j].status = s
    /\ job'[j].event = job[j].event /\ job'[j].trail = job[j].trail
    /\ SameJobs(Jobs \ {j})

Stored(e, trail, s) ==
    \E j \in Free : /\ job'[j].status = s
                    /\ job'[j].event = e /\ job'[j].trail = trail
                    /\ SameJobs(Jobs \ {j})

LEMMA StatusSaved ==
    ASSUME TypeInv, NEW j \in Jobs, NEW s \in Status, SaveStatus(j, s)
    PROVE  Saved(j, s) /\ job'[j].attempts = job[j].attempts
  BY DEF TypeInv, TypeOK, Saved, SameJobs

LEMMA AttemptsSaved ==
    ASSUME TypeInv, NEW j \in Jobs, NEW s \in Status, NEW n \in Nat,
           SaveAttempts(j, s, n)
    PROVE  Saved(j, s) /\ job'[j].attempts = n
  <1>. USE DEF TypeInv, TypeOK
  <1>. DEFINE d == [job[j] EXCEPT !.status = s, !.attempts = n]
  <1>1. /\ d.status = s /\ d.event = job[j].event /\ d.trail = job[j].trail
        /\ d.attempts = n
    BY SavedAttempts
  <1>2. job' = [job EXCEPT ![j] = d]
    BY DEF SaveAttempts
  <1>. HIDE DEF d
  <1>. QED
    BY <1>1, <1>2 DEF Saved, SameJobs

LEMMA DocumentStored ==
    ASSUME TypeInv, NEW j \in Free, NEW e, NEW trail, NEW s,
           job' = [job EXCEPT ![j] = NewJob(e, trail, s)]
    PROVE  Stored(e, trail, s)
  <1>1. /\ job'[j].status = s /\ job'[j].event = e /\ job'[j].trail = trail
        /\ SameJobs(Jobs \ {j})
    BY DEF Free, TypeInv, TypeOK, SameJobs
  <1>. QED
    BY <1>1 DEF Stored

(* The documents that a step of the catch clause leaves.                   *)
LEMMA SettleStores ==
    ASSUME TypeInv, NEW w \in Runners, Settle(w)
    PROVE  /\ stage[w] = "settle" /\ cur[w] \in Jobs
           /\ UNCHANGED <<todo, lock, reset>>
           /\ \A v \in Runners \ {w} : /\ stage'[v] = stage[v] /\ cur'[v] = cur[v]
                                       /\ tries'[v] = tries[v]
           /\ \/ /\ stage'[w] = "next" /\ Saved(cur[w], "waiting")
                 /\ job'[cur[w]].attempts = job[cur[w]].attempts
              \/ /\ stage'[w] = "next" /\ Saved(cur[w], "dead")
                 /\ job'[cur[w]].attempts = job[cur[w]].attempts
                 /\ Subject(w) \notin Mail
              \/ /\ stage'[w] = "bury" /\ cur'[w] = cur[w] /\ tries'[w] = tries[w]
                 /\ Subject(w) \in Mail
                 /\ \/ SameJobs(Jobs)
                    \/ Stored(Subject(w), RetryTrail(w), "pending")
  <1>. USE DEF TypeInv
  <1>1. /\ stage[w] = "settle" /\ cur[w] \in Jobs
        /\ UNCHANGED <<todo, lock, reset>>
        /\ \A v \in Runners \ {w} : /\ stage'[v] = stage[v] /\ cur'[v] = cur[v]
                                    /\ tries'[v] = tries[v]
    BY DEF Settle, TypeOK
  <1>2. CASE SaveStatus(cur[w], "waiting") /\ NextJob(w)
    BY <1>1, <1>2, StatusSaved DEF TypeOK
  <1>3. CASE Subject(w) \notin Mail /\ SaveStatus(cur[w], "dead") /\ NextJob(w)
    BY <1>1, <1>3, StatusSaved DEF TypeOK
  <1>4. CASE /\ Subject(w) \in Mail /\ Goto(w, "bury") /\ UNCHANGED <<cur, tries>>
             /\ EnqueueRetry(Subject(w), RetryTrail(w))
    <2>1. stage'[w] = "bury"
      BY <1>4 DEF TypeOK
    <2>2. SameJobs(Jobs) \/ Stored(Subject(w), RetryTrail(w), "pending")
      BY <1>4, DocumentStored DEF EnqueueRetry, SameJobs
    <2>. QED
      BY <1>1, <1>4, <2>1, <2>2
  <1>. QED
    BY <1>2, <1>3, <1>4 DEF Settle
-----------------------------------------------------------------------------
(* A document that is not shared has one writer at a time *)

BatchIsPending ==
    \A w \in Runners : \A j \in todo[w] \ shared : job[j].status = "pending"

CurrentIsProcessing ==
    \A w \in Runners : stage[w] \in Executing /\ cur[w] \notin shared =>
        job[cur[w]].status = "processing"

OneExecutes ==
    \A v, w \in Runners :
        stage[v] \in Executing /\ stage[w] \in Executing /\ cur[v] = cur[w]
            => v = w \/ cur[v] \in shared

ResetIsDead ==
    \A a \in Admins : \A j \in reset[a] \ shared : job[j].status = "dead"

SharedIsStored == \A j \in shared : job[j].status # "absent"

TurnInv ==
    /\ BatchIsPending
    /\ CurrentIsProcessing
    /\ OneExecutes
    /\ ResetIsDead
    /\ SharedIsStored

KeepsCompleted ==
    \A j \in Jobs : job[j].status = "completed"
                       => job'[j].status = "completed" \/ j \in shared'

(* A step that stores a fresh document at most: nobody holds other jobs    *)
(* than before, but for those just loaded, which are due or dead.          *)
LEMMA NothingSaved ==
    ASSUME Types, TurnInv,
           \A k \in Jobs : job[k].status = "absent" \/ job'[k].status = job[k].status,
           \A v \in Runners :
              /\ todo'[v] \subseteq todo[v] \cup Due
              /\ stage'[v] \in Executing => stage[v] \in Executing /\ cur'[v] = cur[v],
           \A a \in Admins : reset'[a] \subseteq reset[a] \cup Dead,
           shared \subseteq shared',
           shared' \subseteq shared \cup Due \cup Dead
    PROVE  TurnInv' /\ KeepsCompleted
  <1>. USE DEF TurnInv
  <1>1. \A k \in Jobs : job[k].status # "absent" => job'[k].status = job[k].status
    OBVIOUS
  <1>2. \A k \in Due : k \in Jobs /\ job[k].status = "pending"
    BY DEF Due
  <1>3. \A k \in Dead : k \in Jobs /\ job[k].status = "dead"
    BY DEF Dead
  <1>4. /\ shared \subseteq Jobs
        /\ \A v \in Runners : todo[v] \subseteq Jobs
        /\ \A a \in Admins : reset[a] \subseteq Jobs
        /\ \A v \in Runners : stage[v] \in Executing => cur[v] \in Jobs
    BY DEF Types, EffectsTypeOK, TypeInv, TypeOK
  <1>5. BatchIsPending'
    BY <1>1, <1>2, <1>4 DEF BatchIsPending
  <1>6. CurrentIsProcessing'
    BY <1>1, <1>4 DEF CurrentIsProcessing
  <1>7. OneExecutes'
    BY DEF OneExecutes
  <1>8. ResetIsDead'
    BY <1>1, <1>3, <1>4 DEF ResetIsDead
  <1>9. SharedIsStored'
    BY <1>1, <1>2, <1>3, <1>4 DEF SharedIsStored
  <1>. QED
    BY <1>1, <1>5, <1>6, <1>7, <1>8, <1>9 DEF KeepsCompleted

(* A step that stores a job nobody holds, and moves nobody.                *)
LEMMA LooseJobStored ==
    ASSUME Types, TurnInv, NEW j \in Jobs,
           job[j].status \in {"absent", "waiting"}, job'[j].status # "absent",
           \A k \in Jobs \ {j} : job'[k].status = job[k].status,
           UNCHANGED <<stage, todo, cur, reset, shared>>
    PROVE  TurnInv' /\ KeepsCompleted
  <1>. USE DEF TurnInv
  <1>1. /\ shared \subseteq Jobs
        /\ \A v \in Runners : todo[v] \subseteq Jobs
        /\ \A a \in Admins : reset[a] \subseteq Jobs
        /\ \A v \in Runners : stage[v] \in Executing => cur[v] \in Jobs
    BY DEF Types, EffectsTypeOK, TypeInv, TypeOK
  <1>2. BatchIsPending'
    BY <1>1 DEF BatchIsPending
  <1>3. CurrentIsProcessing'
    BY <1>1 DEF CurrentIsProcessing
  <1>4. OneExecutes'
    BY DEF OneExecutes
  <1>5. ResetIsDead'
    BY <1>1 DEF ResetIsDead
  <1>6. SharedIsStored'
    BY <1>1 DEF SharedIsStored
  <1>. QED
    BY <1>2, <1>3, <1>4, <1>5, <1>6 DEF KeepsCompleted

(* Nobody else holds a job that is in the hands of w and not shared.       *)
LEMMA HeldAlone ==
    ASSUME Types, Guarded, TurnInv, NEW w \in Runners, NEW j \in Jobs \ shared,
           j \in todo[w] \/ (stage[w] \in Executing /\ cur[w] = j)
    PROVE  /\ \A v \in Runners \ {w} :
                 j \notin todo[v] /\ ~(stage[v] \in Executing /\ cur[v] = j)
           /\ \A a \in Admins : j \notin reset[a]
           /\ job[j].status \in {"pending", "processing"}
           /\ j \in todo[w] => job[j].status = "pending"
           /\ stage[w] \in Executing /\ cur[w] = j => job[j].status = "processing"
  <1>. USE DEF TurnInv
  <1>1. j \in todo[w] => job[j].status = "pending"
    BY DEF BatchIsPending
  <1>2. stage[w] \in Executing /\ cur[w] = j => job[j].status = "processing"
    BY DEF CurrentIsProcessing
  <1>3. ASSUME NEW v \in Runners \ {w}, j \in todo[v]
        PROVE  FALSE
    <2>1. job[j].status = "pending"
      BY <1>3 DEF BatchIsPending
    <2>2. lock = w /\ lock = v
      BY <1>2, <1>3, <2>1 DEF Guarded
    <2>. QED
      BY <2>2
  <1>4. ASSUME NEW v \in Runners \ {w}, stage[v] \in Executing, cur[v] = j
        PROVE  FALSE
    <2>1. job[j].status = "processing"
      BY <1>4 DEF CurrentIsProcessing
    <2>. QED
      BY <1>1, <1>4, <2>1 DEF OneExecutes
  <1>5. \A a \in Admins : j \notin reset[a]
    BY <1>1, <1>2 DEF ResetIsDead
  <1>. QED
    BY <1>1, <1>2, <1>3, <1>4, <1>5

(* A runner stores the next job of its batch, or the one it executes.      *)
LEMMA HeldJobStored ==
    ASSUME Types, Guarded, TurnInv, NEW w \in Runners, NEW j \in Jobs,
           j \in todo[w] \/ (stage[w] \in Executing /\ cur[w] = j),
           \A k \in Jobs \ {j} : job'[k].status = job[k].status,
           job'[j].status # "absent",
           todo'[w] \subseteq todo[w],
           j \in todo'[w] => stage[w] \in Executing /\ cur[w] = j,
           stage'[w] \in Executing =>
              cur'[w] = j /\ job'[j].status = "processing",
           \A v \in Runners \ {w} : /\ stage'[v] = stage[v]
                                    /\ todo'[v] = todo[v] /\ cur'[v] = cur[v],
           UNCHANGED <<reset, shared>>
    PROVE  TurnInv' /\ KeepsCompleted
  <1>1. /\ shared \subseteq Jobs
        /\ \A v \in Runners : todo[v] \subseteq Jobs
        /\ \A a \in Admins : reset[a] \subseteq Jobs
        /\ \A v \in Runners : stage[v] \in Executing => cur[v] \in Jobs
    BY DEF Types, EffectsTypeOK, TypeInv, TypeOK
  <1>2. j \notin shared =>
           /\ \A v \in Runners \ {w} :
                 j \notin todo[v] /\ ~(stage[v] \in Executing /\ cur[v] = j)
           /\ \A a \in Admins : j \notin reset[a]
           /\ job[j].status \in {"pending", "processing"}
           /\ j \notin todo'[w]
    <2>1. SUFFICES ASSUME j \notin shared
                   PROVE  /\ \A v \in Runners \ {w} :
                                /\ j \notin todo[v]
                                /\ ~(stage[v] \in Executing /\ cur[v] = j)
                          /\ \A a \in Admins : j \notin reset[a]
                          /\ job[j].status \in {"pending", "processing"}
                          /\ j \notin todo'[w]
      OBVIOUS
    <2>2. j \in todo[w] => job[j].status = "pending"
      BY <2>1, HeldAlone
    <2>3. stage[w] \in Executing /\ cur[w] = j => job[j].status = "processing"
      BY <2>1, HeldAlone
    <2>. QED
      BY <2>1, <2>2, <2>3, HeldAlone
  <1>. USE DEF TurnInv
  <1>3. BatchIsPending'
    BY <1>1, <1>2 DEF BatchIsPending
  <1>4. CurrentIsProcessing'
    BY <1>1, <1>2 DEF CurrentIsProcessing
  <1>5. OneExecutes'
    <2>1. ASSUME NEW v \in Runners \ {w}, stage'[v] \in Executing,
                 stage'[w] \in Executing, cur'[v] = cur'[w]
          PROVE  cur'[v] \in shared
      BY <1>2, <2>1
    <2>. QED
      BY <2>1 DEF OneExecutes
  <1>6. ResetIsDead'
    BY <1>1, <1>2 DEF ResetIsDead
  <1>7. SharedIsStored'
    BY <1>1 DEF SharedIsStored
  <1>. QED
    BY <1>2, <1>3, <1>4, <1>5, <1>6, <1>7 DEF KeepsCompleted
LEMMA TurnStep ==
    ASSUME Types, Guarded, TurnInv, [EffectsNext]_evars
    PROVE  TurnInv' /\ KeepsCompleted
  <1>. USE DEF Types, TypeInv
  <1>1. ASSUME NEW e \in Events, Enqueue(e), UNCHANGED history
        PROVE  TurnInv' /\ KeepsCompleted
    <2>1. PICK j \in Free, s \in Pending :
             job' = [job EXCEPT ![j] = NewJob(e, <<>>, s)]
      BY <1>1 DEF Enqueue
    <2>. QED
      BY <1>1, <2>1, LooseJobStored DEF Enqueue, Free, history, TypeOK
  <1>2. ASSUME NEW j \in Jobs, ComeDue(j), UNCHANGED history
        PROVE  TurnInv' /\ KeepsCompleted
    <2>1. Saved(j, "pending")
      BY <1>2, StatusSaved DEF ComeDue
    <2>. QED
      BY <1>2, <2>1, LooseJobStored DEF ComeDue, Saved, SameJobs, history
  <1>3. ASSUME NEW w \in Runners, Acquire(w) \/ SaveRefused(w) \/ Crash(w),
               UNCHANGED history
        PROVE  TurnInv' /\ KeepsCompleted
    <2>1. /\ \A v \in Runners \ {w} : /\ stage'[v] = stage[v] /\ cur'[v] = cur[v]
                                      /\ todo'[v] = todo[v]
          /\ todo'[w] \subseteq todo[w] /\ stage'[w] \notin Executing
          /\ UNCHANGED <<job, reset, shared>>
      BY <1>3 DEF Acquire, SaveRefused, Crash, TypeOK, history
    <2>. QED
      BY <2>1, NothingSaved
  <1>4. ASSUME NEW w \in Runners, EFind(w)
        PROVE  TurnInv' /\ KeepsCompleted
    <2>1. /\ \A v \in Runners \ {w} : /\ stage'[v] = stage[v] /\ cur'[v] = cur[v]
                                      /\ todo'[v] = todo[v]
          /\ todo'[w] \subseteq Due /\ stage'[w] \notin Executing
          /\ UNCHANGED <<job, reset>>
      BY <1>4 DEF EFind, Find, TypeOK
    <2>2. shared \subseteq shared' /\ shared' \subseteq shared \cup Due
      BY <1>4, <2>1 DEF EFind, Share
    <2>. QED
      BY <2>1, <2>2, NothingSaved
  <1>5. ASSUME NEW w \in Runners, NEW j \in Jobs, Begin(w, j), UNCHANGED history
        PROVE  TurnInv' /\ KeepsCompleted
    <2>1. /\ j \in todo[w] /\ todo'[w] = todo[w] \ {j}
          /\ stage'[w] = "execute" /\ cur'[w] = j
          /\ \A v \in Runners \ {w} : /\ stage'[v] = stage[v] /\ cur'[v] = cur[v]
                                      /\ todo'[v] = todo[v]
          /\ UNCHANGED <<reset, shared>>
      BY <1>5 DEF Begin, TypeOK, history
    <2>2. Saved(j, "processing")
      BY <1>5, AttemptsSaved DEF Begin, TypeOK
    <2>. QED
      BY <2>1, <2>2, HeldJobStored DEF Saved, SameJobs
  <1>6. ASSUME NEW w \in Runners,
               EExecute(w) \/ EExecuteFails(w) \/ ECompleteRefused(w)
        PROVE  TurnInv' /\ KeepsCompleted
    <2>1. /\ stage[w] \in Executing
          /\ \A v \in Runners \ {w} : stage'[v] = stage[v]
          /\ UNCHANGED <<job, cur, todo, reset, shared>>
      BY <1>6 DEF EExecute, EExecuteFails, ECompleteRefused, Execute,
                  ExecuteFails, CompleteRefused, TypeOK
    <2>. QED
      BY <2>1, NothingSaved
  <1>7. ASSUME NEW w \in Runners, stage[w] \in Executing, stage'[w] = "next",
               NEW s \in Status \ {"absent"}, Saved(cur[w], s),
               \A v \in Runners \ {w} : stage'[v] = stage[v] /\ cur'[v] = cur[v],
               UNCHANGED <<todo, reset, shared>>
        PROVE  TurnInv' /\ KeepsCompleted
    BY <1>7, HeldJobStored DEF Saved, SameJobs
  <1>8. ASSUME NEW w \in Runners, Complete(w) \/ Bury(w), UNCHANGED history
        PROVE  TurnInv' /\ KeepsCompleted
    <2>1. /\ stage[w] \in Executing /\ stage'[w] = "next"
          /\ \A v \in Runners \ {w} : stage'[v] = stage[v] /\ cur'[v] = cur[v]
          /\ UNCHANGED <<todo, reset, shared>>
      BY <1>8 DEF Complete, Bury, TypeOK, history
    <2>2. Saved(cur[w], "completed") \/ Saved(cur[w], "dead")
      BY <1>8, StatusSaved DEF Complete, Bury
    <2>. QED
      BY <1>7, <2>1, <2>2
  <1>9. ASSUME NEW w \in Runners, ESettle(w)
        PROVE  TurnInv' /\ KeepsCompleted
    <2>1. Settle(w) /\ UNCHANGED shared
      BY <1>9 DEF ESettle
    <2>2. CASE stage'[w] = "next"
      BY <1>7, <2>1, <2>2, SettleStores
    <2>3. CASE stage'[w] # "next"
      <3>1. /\ stage'[w] \in Executing => cur'[w] = cur[w]
            /\ stage[w] = "settle"
            /\ UNCHANGED <<todo, reset>>
            /\ \A v \in Runners \ {w} : stage'[v] = stage[v] /\ cur'[v] = cur[v]
        BY <2>1, <2>3, SettleStores
      <3>2. SameJobs(Jobs) \/ Stored(Subject(w), RetryTrail(w), "pending")
        BY <2>1, <2>3, SettleStores
      <3>3. \A k \in Jobs : job[k].status = "absent" \/ job'[k].status = job[k].status
        BY <3>2 DEF SameJobs, Stored, Free
      <3>. QED
        BY <2>1, <3>1, <3>3, NothingSaved
    <2>. QED
      BY <2>2, <2>3
  <1>10. ASSUME NEW w \in Runners, ERelease(w)
         PROVE  TurnInv' /\ KeepsCompleted
    <2>1. /\ \A v \in Runners \ {w} : /\ stage'[v] = stage[v] /\ cur'[v] = cur[v]
                                      /\ todo'[v] = todo[v]
          /\ todo'[w] = {} /\ stage'[w] \notin Executing
          /\ UNCHANGED <<job, reset>>
      BY <1>10 DEF ERelease, Release, TypeOK
    <2>2. lock \in Runners => todo[lock] \subseteq shared \cup Due
      BY DEF TurnInv, BatchIsPending, Due, TypeOK
    <2>3. shared \subseteq shared' /\ shared' \subseteq shared \cup Due
      BY <1>10, <2>2 DEF ERelease, Share, TypeOK
    <2>. QED
      BY <2>1, <2>3, NothingSaved
  <1>11. CASE ELockExpires
    <2>1. UNCHANGED <<job, stage, todo, cur, reset>>
      BY <1>11 DEF ELockExpires, LockExpires
    <2>2. lock \in Runners /\ todo[lock] \subseteq shared \cup Due
      BY <1>11 DEF ELockExpires, LockExpires, TurnInv, BatchIsPending, Due, TypeOK
    <2>3. shared \subseteq shared' /\ shared' \subseteq shared \cup Due
      BY <1>11, <2>2 DEF ELockExpires, Share
    <2>. QED
      BY <2>1, <2>3, NothingSaved
  <1>12. ASSUME NEW a \in Admins, FindDead(a) \/ LeaveDead(a), UNCHANGED history
         PROVE  TurnInv' /\ KeepsCompleted
    <2>1. /\ UNCHANGED <<job, stage, todo, cur, shared>>
          /\ \A b \in Admins : reset'[b] \subseteq reset[b] \cup Dead
      BY <1>12 DEF FindDead, LeaveDead, history, TypeOK
    <2>. QED
      BY <2>1, NothingSaved
  <1>13. ASSUME NEW a \in Admins, NEW j \in Jobs, EPutBack(a, j)
         PROVE  TurnInv' /\ KeepsCompleted
    <2>1. /\ j \in reset[a] /\ reset'[a] = reset[a] \ {j}
          /\ \A b \in Admins \ {a} : reset'[b] = reset[b]
          /\ UNCHANGED <<stage, cur, todo>>
      BY <1>13 DEF EPutBack, PutBack, TypeOK
    <2>2. Saved(j, "pending")
      BY <1>13, AttemptsSaved DEF EPutBack, PutBack
    <2>3. /\ shared \subseteq shared' /\ shared' \subseteq shared \cup {j}
          /\ \A b \in Admins \ {a} : j \in reset[b] => j \in shared'
      BY <1>13 DEF EPutBack, Share
    <2>4. j \notin shared => job[j].status = "dead"
      BY <2>1 DEF TurnInv, ResetIsDead
    <2>5. /\ shared \subseteq Jobs
          /\ \A v \in Runners : todo[v] \subseteq Jobs
          /\ \A b \in Admins : reset[b] \subseteq Jobs
          /\ \A v \in Runners : stage[v] \in Executing => cur[v] \in Jobs
      BY DEF EffectsTypeOK, TypeOK
    <2>6. \A k \in Jobs \ {j} : job'[k].status = job[k].status
      BY <2>2 DEF Saved, SameJobs
    <2>7. BatchIsPending'
      BY <2>1, <2>3, <2>4, <2>5, <2>6 DEF TurnInv, BatchIsPending
    <2>8. CurrentIsProcessing'
      BY <2>1, <2>3, <2>4, <2>5, <2>6 DEF TurnInv, CurrentIsProcessing
    <2>9. OneExecutes'
      BY <2>1, <2>3 DEF TurnInv, OneExecutes
    <2>10. ResetIsDead'
      BY <2>1, <2>3, <2>5, <2>6 DEF TurnInv, ResetIsDead
    <2>11. SharedIsStored'
      BY <2>2, <2>3, <2>5, <2>6 DEF TurnInv, SharedIsStored, Saved
    <2>. QED
      BY <2>3, <2>4, <2>6, <2>7, <2>8, <2>9, <2>10, <2>11
         DEF TurnInv, KeepsCompleted
  <1>14. CASE UNCHANGED evars
    BY <1>14, NothingSaved DEF evars, vars, history
  <1>. QED
    BY <1>1, <1>2, <1>3, <1>4, <1>5, <1>6, <1>8, <1>9, <1>10, <1>11, <1>12,
       <1>13, <1>14 DEF EffectsNext, Quiet

QueueInv == Types /\ Guarded /\ TurnInv

LEMMA InitQueue == EffectsInit => QueueInv
  <1>1. EffectsInit => Types
    BY InitEffectTypes
  <1>2. EffectsInit => Guarded
    BY DEF EffectsInit, Init, Guarded
  <1>3. EffectsInit => TurnInv
    BY DEF EffectsInit, Init, TurnInv, BatchIsPending, CurrentIsProcessing,
           OneExecutes, ResetIsDead, SharedIsStored
  <1>. QED
    BY <1>1, <1>2, <1>3 DEF QueueInv

LEMMA QueueStep == QueueInv /\ [EffectsNext]_evars => QueueInv' /\ KeepsCompleted
  BY TypesStep, GuardedStep, TurnStep DEF QueueInv

(* No job is in the hands of two runners, though batches outlast the key,  *)
(* the key is deleted by whoever ends a batch, and processes stop: but for *)
(* the jobs of a batch that lost its key before it had begun them.         *)
THEOREM LockSeparates == EffectsSpec => []OneProcessor
  <1>1. QueueInv => OneProcessor
    <2>1. SUFFICES ASSUME QueueInv, NEW v \in Runners, NEW w \in Runners, v # w,
                          NEW j \in Hands(v) \cap Hands(w), j \notin shared
                   PROVE  FALSE
      BY DEF OneProcessor
    <2>2. /\ j \in Jobs \ shared
          /\ j \in todo[v] \/ (stage[v] \in Executing /\ cur[v] = j)
          /\ j \in todo[w] \/ (stage[w] \in Executing /\ cur[w] = j)
      BY <2>1 DEF Hands, QueueInv, Types, TypeInv, TypeOK
    <2>3. /\ j \notin todo[w]
          /\ ~(stage[w] \in Executing /\ cur[w] = j)
      BY <2>1, <2>2, HeldAlone DEF QueueInv
    <2>. QED
      BY <2>2, <2>3
  <1>. QED
    BY <1>1, InitQueue, QueueStep, PTL DEF EffectsSpec

(* A job that was completed is never executed nor put back again, unless   *)
(* two callers could hold it at once: processes may stop anywhere, and     *)
(* saves may be refused.                                                   *)
THEOREM CompletedStaysCompleted == EffectsSpec => CompletedIsFinal
  <1>1. QueueInv /\ [EffectsNext]_evars
           => [\A j \in Jobs : job[j].status = "completed"
                  => job'[j].status = "completed" \/ j \in shared']_evars
    BY QueueStep DEF KeepsCompleted
  <1>. QED
    BY <1>1, InitQueue, QueueStep, PTL DEF EffectsSpec, CompletedIsFinal
-----------------------------------------------------------------------------
(* What was enqueued stays *)

IdentityKept ==
    \A k \in Jobs : job[k].status # "absent" =>
        /\ job'[k].status # "absent"
        /\ job'[k].event = job[k].event /\ job'[k].trail = job[k].trail

RootIsKept ==
    \A j \in Jobs : job[j].status # "absent" => Enqueued(job[j].event, <<>>)

(* Only e-mails are enqueued again.                                        *)
OneForEvent ==
    \A j, k \in Jobs :
        /\ job[j].status # "absent" /\ job[k].status # "absent"
        /\ job[j].event = job[k].event /\ job[j].event \notin Mail
        => j = k

RootInv == RootIsKept /\ OneForEvent

(* What a runner or an administrator holds was stored.                     *)
LEMMA HeldIsStored ==
    ASSUME QueueInv
    PROVE  /\ \A w \in Runners : \A j \in todo[w] : job[j].status # "absent"
           /\ \A w \in Runners : stage[w] \in Executing =>
                 cur[w] \in Jobs /\ job[cur[w]].status # "absent"
           /\ \A a \in Admins : \A j \in reset[a] : job[j].status # "absent"
  BY DEF QueueInv, Types, TypeInv, TurnInv, BatchIsPending, CurrentIsProcessing,
         ResetIsDead, SharedIsStored

(* A stored job is saved, a new one is enqueued, or a dead e-mail again.   *)
LEMMA StoreKinds ==
    ASSUME QueueInv, [EffectsNext]_evars
    PROVE  \/ SameJobs(Jobs)
           \/ \E j \in Jobs, s \in Status \ {"absent"} :
                 job[j].status # "absent" /\ Saved(j, s)
           \/ \E e \in Events, s \in Pending :
                 ~Enqueued(e, <<>>) /\ Stored(e, <<>>, s)
           \/ \E j \in Jobs : \E t \in Seq(Nat) :
                 /\ job[j].status # "absent" /\ job[j].event \in Mail
                 /\ Stored(job[j].event, t, "pending")
  <1>. DEFINE SavedOne == \E j \in Jobs, s \in Status \ {"absent"} :
                             job[j].status # "absent" /\ Saved(j, s)
              NewOne == \E e \in Events, s \in Pending :
                           ~Enqueued(e, <<>>) /\ Stored(e, <<>>, s)
              NewRetry == \E j \in Jobs : \E t \in Seq(Nat) :
                             /\ job[j].status # "absent" /\ job[j].event \in Mail
                             /\ Stored(job[j].event, t, "pending")
  <1>. USE DEF QueueInv, Types
  <1>1. ASSUME job' = job
        PROVE  SameJobs(Jobs)
    BY <1>1 DEF SameJobs
  <1>2. ASSUME NEW e \in Events, Enqueue(e)
        PROVE  NewOne
    BY <1>2, DocumentStored DEF Enqueue
  <1>3. ASSUME NEW j \in Jobs, ComeDue(j)
        PROVE  SavedOne
    BY <1>3, StatusSaved DEF ComeDue
  <1>4. ASSUME NEW w \in Runners, NEW j \in Jobs, Begin(w, j)
        PROVE  SavedOne
    <2>1. Saved(j, "processing")
      BY <1>4, AttemptsSaved DEF Begin, TypeInv, TypeOK
    <2>2. job[j].status # "absent"
      BY <1>4, HeldIsStored DEF Begin
    <2>. QED
      BY <2>1, <2>2
  <1>5. ASSUME NEW w \in Runners, Complete(w) \/ Bury(w)
        PROVE  SavedOne
    <2>1. cur[w] \in Jobs /\ job[cur[w]].status # "absent"
      BY <1>5, HeldIsStored DEF Complete, Bury
    <2>2. Saved(cur[w], "completed") \/ Saved(cur[w], "dead")
      BY <1>5, <2>1, StatusSaved DEF Complete, Bury
    <2>. QED
      BY <2>1, <2>2
  <1>6. ASSUME NEW w \in Runners, Settle(w)
        PROVE  SameJobs(Jobs) \/ SavedOne \/ NewRetry
    <2>1. cur[w] \in Jobs /\ job[cur[w]].status # "absent"
      BY <1>6, HeldIsStored DEF Settle
    <2>2. RetryTrail(w) \in Seq(Nat)
      BY <2>1 DEF RetryTrail, TypeInv, TypeOK
    <2>3. CASE Saved(cur[w], "waiting") \/ Saved(cur[w], "dead")
      BY <2>1, <2>3
    <2>4. CASE Subject(w) \in Mail /\ Stored(Subject(w), RetryTrail(w), "pending")
      BY <2>1, <2>2, <2>4 DEF Subject
    <2>. QED
      BY <1>6, <2>3, <2>4, SettleStores
  <1>7. ASSUME NEW a \in Admins, NEW j \in Jobs, PutBack(a, j)
        PROVE  SavedOne
    <2>1. Saved(j, "pending")
      BY <1>7, AttemptsSaved DEF PutBack
    <2>2. job[j].status # "absent"
      BY <1>7, HeldIsStored DEF PutBack
    <2>. QED
      BY <2>1, <2>2
  <1>8. ASSUME NEW w \in Runners,
               \/ Acquire(w) \/ Find(w) \/ Execute(w) \/ ExecuteFails(w)
               \/ CompleteRefused(w) \/ SaveRefused(w) \/ Release(w) \/ Crash(w)
        PROVE  job' = job
    BY <1>8 DEF Acquire, Find, Execute, ExecuteFails, CompleteRefused,
                SaveRefused, Release, Crash
  <1>9. ASSUME \/ LockExpires \/ UNCHANGED vars
               \/ \E a \in Admins : FindDead(a) \/ LeaveDead(a)
        PROVE  SameJobs(Jobs)
    BY <1>1, <1>9 DEF LockExpires, vars, FindDead, LeaveDead
  <1>10. [Next]_vars
    BY StepOfQueue
  <1>. HIDE DEF SavedOne, NewOne, NewRetry
  <1>11. SameJobs(Jobs) \/ SavedOne \/ NewOne \/ NewRetry
    BY <1>1, <1>2, <1>3, <1>4, <1>5, <1>6, <1>7, <1>8, <1>9, <1>10 DEF Next, Step
  <1>. QED
    BY <1>11 DEF SavedOne, NewOne, NewRetry

LEMMA IdentityStep ==
    ASSUME QueueInv, [EffectsNext]_evars
    PROVE  IdentityKept
  <1>1. CASE SameJobs(Jobs)
    BY <1>1 DEF SameJobs, IdentityKept
  <1>2. ASSUME NEW j \in Jobs, NEW s \in Status \ {"absent"}, Saved(j, s)
        PROVE  IdentityKept
    BY <1>2 DEF Saved, SameJobs, IdentityKept
  <1>3. ASSUME NEW e, NEW t, NEW s, Stored(e, t, s)
        PROVE  IdentityKept
    BY <1>3 DEF Stored, SameJobs, Free, IdentityKept
  <1>. QED
    BY <1>1, <1>2, <1>3, StoreKinds

LEMMA RootStays ==
    ASSUME IdentityKept, RootIsKept, NEW j \in Jobs, job[j].status # "absent"
    PROVE  Enqueued(job[j].event, <<>>)'
  <1>1. PICK k \in Jobs \ Free : job[k].event = job[j].event /\ job[k].trail = <<>>
    BY DEF RootIsKept, Enqueued
  <1>2. /\ job'[k].event = job'[j].event /\ job'[k].trail = <<>>
        /\ job'[k].status # "absent"
    BY <1>1 DEF IdentityKept, Free
  <1>. QED
    BY <1>2 DEF Enqueued, Free

LEMMA RootStep ==
    ASSUME QueueInv, RootInv, [EffectsNext]_evars
    PROVE  RootInv'
  <1>. USE DEF RootInv
  <1>1. IdentityKept
    BY IdentityStep
  <1>2. ASSUME \A k \in Jobs : job[k].status = "absent" => job'[k].status = "absent"
        PROVE  RootInv'
    <2>1. RootIsKept'
      BY <1>1, <1>2, RootStays DEF RootIsKept
    <2>2. OneForEvent'
      BY <1>1, <1>2 DEF OneForEvent, IdentityKept
    <2>. QED
      BY <2>1, <2>2
  <1>3. ASSUME NEW e \in Events, NEW s \in Pending, ~Enqueued(e, <<>>),
               Stored(e, <<>>, s)
        PROVE  RootInv'
    <2>1. PICK j \in Free : /\ job'[j].status = s /\ job'[j].event = e
                            /\ job'[j].trail = <<>> /\ SameJobs(Jobs \ {j})
      BY <1>3 DEF Stored
    <2>2. j \in Jobs /\ Enqueued(job[j].event, <<>>)'
      BY <2>1 DEF Enqueued, Free
    <2>3. RootIsKept'
      <3>1. ASSUME NEW k \in Jobs \ {j}, job'[k].status # "absent"
            PROVE  Enqueued(job[k].event, <<>>)'
        BY <1>1, <2>1, <3>1, RootStays DEF SameJobs
      <3>. QED
        BY <2>2, <3>1 DEF RootIsKept
    <2>4. \A k \in Jobs : job[k].status # "absent" => job[k].event # e
      BY <1>3 DEF RootIsKept
    <2>5. OneForEvent'
      BY <2>1, <2>4 DEF OneForEvent, SameJobs
    <2>. QED
      BY <2>3, <2>5
  <1>4. ASSUME NEW i \in Jobs, NEW t, job[i].status # "absent",
               job[i].event \in Mail, Stored(job[i].event, t, "pending")
        PROVE  RootInv'
    <2>1. PICK j \in Free : /\ job'[j].event = job[i].event
                            /\ SameJobs(Jobs \ {j})
      BY <1>4 DEF Stored
    <2>2. Enqueued(job[j].event, <<>>)'
      <3>1. Enqueued(job[i].event, <<>>)' /\ job'[j].event = job'[i].event
        BY <1>1, <1>4, <2>1, RootStays DEF IdentityKept
      <3>. QED
        BY <3>1 DEF Enqueued
    <2>3. RootIsKept'
      <3>1. ASSUME NEW k \in Jobs \ {j}, job'[k].status # "absent"
            PROVE  Enqueued(job[k].event, <<>>)'
        BY <1>1, <2>1, <3>1, RootStays DEF SameJobs
      <3>. QED
        BY <2>2, <3>1 DEF RootIsKept
    <2>4. OneForEvent'
      BY <1>4, <2>1 DEF OneForEvent, SameJobs
    <2>. QED
      BY <2>3, <2>4
  <1>5. CASE SameJobs(Jobs)
    BY <1>2, <1>5 DEF SameJobs
  <1>6. ASSUME NEW j \in Jobs, NEW s \in Status, job[j].status # "absent",
               Saved(j, s)
        PROVE  RootInv'
    BY <1>2, <1>6 DEF Saved, SameJobs
  <1>. QED
    BY <1>3, <1>4, <1>5, <1>6, StoreKinds
-----------------------------------------------------------------------------
(* One effect for each event *)

SentIsOver ==
    \A j \in sent : Sure(job[j].event) =>
        /\ job[j].status \in {"processing", "completed"}
        /\ \A w \in Runners :
              stage[w] \in {"execute", "settle", "bury"} => cur[w] # j

SentIsStored == \A j \in sent : job[j].status # "absent"

Open(j) ==
    \/ job[j].status \in Pending
    \/ j \in sent
    \/ \E w \in Runners : stage[w] \in {"execute", "settle"} /\ cur[w] = j

OneOpen ==
    \A j, k \in Jobs :
        /\ Open(j) /\ Open(k)
        /\ job[j].event = job[k].event /\ Sure(job[j].event)
        => j = k

AgainIsKnown == \A j \in again : ~Sure(job[j].event)

EffectInv ==
    /\ SentIsOver
    /\ SentIsStored
    /\ OneOpen
    /\ AgainIsKnown

LEMMA OpenIsStored ==
    ASSUME QueueInv, SentIsStored, NEW j \in Jobs, Open(j)
    PROVE  job[j].status # "absent"
  BY HeldIsStored DEF Open, SentIsStored

(* What is noted of an event or a job stays noted.                         *)
LEMMA SureBefore ==
    ASSUME QueueInv, [EffectsNext]_evars, NEW k \in Jobs,
           job[k].status # "absent", Sure(job[k].event)'
    PROVE  job'[k].event = job[k].event /\ Sure(job[k].event) /\ k \notin shared'
  <1>1. IdentityKept /\ shared \subseteq shared' /\ excused \subseteq excused'
    BY IdentityStep, HistoryGrows
  <1>2. job'[k].event = job[k].event
    BY <1>1 DEF IdentityKept
  <1>3. job[k].event \notin excused /\ k \notin shared'
    BY <1>1, <1>2 DEF Sure
  <1>4. ASSUME NEW j \in shared
        PROVE  job[j].event # job[k].event
    <2>1. j \in Jobs /\ job'[j].event = job[j].event /\ j \in shared'
      BY <1>1, <1>4
         DEF QueueInv, Types, EffectsTypeOK, TurnInv, SharedIsStored, IdentityKept
    <2>. QED
      BY <1>2, <2>1 DEF Sure
  <1>. QED
    BY <1>2, <1>3, <1>4 DEF Sure

(* A step that takes no effect and opens no job, but perhaps the only one  *)
(* of an event that is no e-mail.                                          *)
LEMMA NothingOpened ==
    ASSUME QueueInv, RootInv, EffectInv, [EffectsNext]_evars,
           UNCHANGED <<sent, again>>,
           \A k \in Jobs : Open(k)' /\ Sure(job[k].event)' =>
              /\ job[k].status # "absent"
              /\ Open(k) \/ job[k].event \notin Mail,
           \A k \in sent : Sure(job[k].event)' =>
              /\ job'[k].status \in {"processing", "completed"}
              /\ \A w \in Runners :
                    stage'[w] \in {"execute", "settle", "bury"} => cur'[w] # k
    PROVE  EffectInv'
  <1>. USE DEF EffectInv
  <1>1. SentIsOver'
    BY DEF SentIsOver
  <1>2. sent \subseteq Jobs /\ again \subseteq sent
    BY DEF QueueInv, Types, EffectsTypeOK
  <1>3. SentIsStored'
    BY <1>2, IdentityStep DEF SentIsStored, IdentityKept
  <1>4. OneOpen'
    <2>1. SUFFICES ASSUME NEW j \in Jobs, NEW k \in Jobs, Open(j)', Open(k)',
                          job'[j].event = job'[k].event, Sure(job[j].event)'
                   PROVE  j = k
      BY DEF OneOpen
    <2>2. Sure(job[k].event)'
      BY <2>1 DEF Sure
    <2>3. /\ job[j].status # "absent" /\ (Open(j) \/ job[j].event \notin Mail)
          /\ job[k].status # "absent" /\ (Open(k) \/ job[k].event \notin Mail)
      BY <2>1, <2>2
    <2>4. job[j].event = job[k].event /\ Sure(job[j].event)
      BY <2>1, <2>2, <2>3, SureBefore
    <2>. QED
      BY <2>3, <2>4 DEF OneOpen, RootInv, OneForEvent
  <1>5. AgainIsKnown'
    <2>1. SUFFICES ASSUME NEW j \in again, Sure(job[j].event)'
                   PROVE  FALSE
      BY DEF AgainIsKnown
    <2>2. j \in Jobs /\ job[j].status # "absent"
      BY <1>2 DEF SentIsStored
    <2>. QED
      BY <2>1, <2>2, SureBefore DEF AgainIsKnown
  <1>. QED
    BY <1>1, <1>3, <1>4, <1>5

(* Such a step that stores no document, and gives w no job to execute.     *)
LEMMA NothingOpenedUnstored ==
    ASSUME QueueInv, RootInv, EffectInv, [EffectsNext]_evars,
           UNCHANGED <<sent, again, job>>,
           \A v \in Runners : stage'[v] \in {"execute", "settle", "bury"} =>
              /\ cur'[v] = cur[v]
              /\ \/ stage'[v] = stage[v]
                 \/ stage[v] = "execute" /\ stage'[v] = "settle"
    PROVE  EffectInv'
  <1>1. ASSUME NEW k \in Jobs, Open(k)'
        PROVE  Open(k)
    BY <1>1 DEF Open
  <1>2. \A k \in Jobs : Open(k) => job[k].status # "absent"
    BY OpenIsStored DEF EffectInv
  <1>3. ASSUME NEW k \in sent, Sure(job[k].event)'
        PROVE  /\ job'[k].status \in {"processing", "completed"}
               /\ \A w \in Runners :
                     stage'[w] \in {"execute", "settle", "bury"} => cur'[w] # k
    <2>1. k \in Jobs /\ job[k].status # "absent"
      BY DEF QueueInv, Types, EffectsTypeOK, EffectInv, SentIsStored
    <2>2. Sure(job[k].event)
      BY <1>3, <2>1, SureBefore
    <2>. QED
      BY <2>2 DEF EffectInv, SentIsOver
  <1>. QED
    BY <1>1, <1>2, <1>3, NothingOpened

(* A sure job in the hands of w: it was not sent, or is about to complete. *)
LEMMA SureJobOfRunner ==
    ASSUME QueueInv, EffectInv, [EffectsNext]_evars, NEW w \in Runners,
           NEW j, stage[w] \in Executing, cur[w] = j, Sure(job[j].event)'
    PROVE  /\ job[j].status = "processing" /\ job'[j].event = job[j].event
           /\ stage[w] # "complete" => j \notin sent
           /\ \A v \in Runners \ {w} : ~(stage[v] \in Executing /\ cur[v] = j)
  <1>1. j \in Jobs /\ job[j].status # "absent"
    BY HeldIsStored
  <1>2. Sure(job[j].event) /\ j \notin shared /\ job'[j].event = job[j].event
    BY <1>1, SureBefore, HistoryGrows
  <1>3. stage[w] # "complete" => j \notin sent
    BY <1>2 DEF EffectInv, SentIsOver
  <1>. QED
    BY <1>1, <1>2, <1>3, HeldAlone DEF QueueInv
(* A new job: no job of its event is open, for none was ever enqueued.     *)
LEMMA EnqueueEffect ==
    ASSUME QueueInv, RootInv, EffectInv, [EffectsNext]_evars,
           NEW e \in Events, Enqueue(e), UNCHANGED history
    PROVE  EffectInv'
  <1>1. PICK j \in Free, s \in Pending :
           job' = [job EXCEPT ![j] = NewJob(e, <<>>, s)]
    BY DEF Enqueue
  <1>2. /\ j \in Jobs /\ job[j].status = "absent" /\ job'[j].event = e
        /\ job'[j].status = s /\ \A k \in Jobs \ {j} : job'[k] = job[k]
    BY <1>1 DEF Free, QueueInv, Types, TypeInv, TypeOK
  <1>3. UNCHANGED <<stage, cur, sent, again, shared, excused>>
    BY DEF Enqueue, history
  <1>4. sent \subseteq Jobs \ {j} /\ again \subseteq sent
    BY <1>2 DEF QueueInv, Types, EffectsTypeOK, EffectInv, SentIsStored
  <1>5. \A k \in Jobs \ {j} : Sure(job[k].event)' /\ job[k].status # "absent"
           => Sure(job[k].event)
    BY SureBefore
  <1>. USE DEF EffectInv
  <1>6. SentIsOver'
    BY <1>2, <1>3, <1>4, <1>5 DEF SentIsOver, SentIsStored
  <1>7. SentIsStored'
    BY <1>2, <1>3, <1>4 DEF SentIsStored
  <1>8. OneOpen'
    <2>1. \A k \in Jobs : job[k].status # "absent" => job[k].event # e
      BY DEF Enqueue, RootInv, RootIsKept
    <2>2. \A k \in Jobs \ {j} : Open(k)' => Open(k) /\ job[k].status # "absent"
      BY <1>2, <1>3, OpenIsStored DEF Open
    <2>. QED
      BY <1>2, <1>5, <2>1, <2>2 DEF OneOpen
  <1>9. AgainIsKnown'
    BY <1>2, <1>3, <1>4, <1>5 DEF AgainIsKnown, SentIsStored
  <1>. QED
    BY <1>6, <1>7, <1>8, <1>9

(* A job that comes due or is begun was pending before, and not sent.      *)
LEMMA PendingMoves ==
    ASSUME QueueInv, RootInv, EffectInv, [EffectsNext]_evars,
           NEW j \in Jobs, NEW s \in Status,
           j \notin shared => job[j].status \in Pending,
           job[j].status # "absent", Saved(j, s),
           UNCHANGED <<sent, again>>,
           \A v \in Runners : stage'[v] \in {"execute", "settle", "bury"} =>
              (stage'[v] = stage[v] /\ cur'[v] = cur[v]) \/ cur'[v] = j
    PROVE  EffectInv'
  <1>1. Sure(job[j].event)' => job[j].status \in Pending /\ j \notin sent
    <2>1. SUFFICES ASSUME Sure(job[j].event)'
                   PROVE  job[j].status \in Pending /\ j \notin sent
      OBVIOUS
    <2>2. Sure(job[j].event) /\ j \notin shared
      BY <2>1, SureBefore, HistoryGrows
    <2>. QED
      BY <2>2 DEF EffectInv, SentIsOver
  <1>2. ASSUME NEW k \in Jobs \ {j}, Open(k)'
        PROVE  Open(k) /\ job[k].status # "absent"
    <2>1. Open(k)
      BY <1>2 DEF Open, Saved, SameJobs
    <2>. QED
      BY <2>1, OpenIsStored DEF EffectInv
  <1>3. Sure(job[j].event)' => Open(j)
    BY <1>1 DEF Open
  <1>4. ASSUME NEW k \in sent, Sure(job[k].event)'
        PROVE  /\ job'[k].status \in {"processing", "completed"}
               /\ \A w \in Runners :
                     stage'[w] \in {"execute", "settle", "bury"} => cur'[w] # k
    <2>1. k \in Jobs \ {j} /\ job[k].status # "absent"
      BY <1>1, <1>4 DEF QueueInv, Types, EffectsTypeOK, EffectInv, SentIsStored
    <2>2. Sure(job[k].event)
      BY <1>4, <2>1, SureBefore
    <2>. QED
      BY <2>1, <2>2 DEF EffectInv, SentIsOver, Saved, SameJobs
  <1>. QED
    BY <1>2, <1>3, <1>4, NothingOpened

(* The job of w takes effect: it completes, or is given up.                *)
LEMMA EffectTaken ==
    ASSUME QueueInv, RootInv, EffectInv, [EffectsNext]_evars,
           NEW w \in Runners, stage[w] = "execute", Effect(w),
           UNCHANGED <<job, cur>>,
           \A v \in Runners \ {w} : stage'[v] = stage[v],
           stage'[w] = "complete" \/ (stage'[w] = "settle" /\ GivenUp(w))
    PROVE  EffectInv'
  <1>. USE DEF EffectInv
  <1>1. PICK j \in Jobs : cur[w] = j /\ job[j].status # "absent"
    BY HeldIsStored
  <1>2. sent' = sent \cup {j} /\ again' = again \cup ({j} \cap sent)
    BY <1>1 DEF Effect
  <1>3. ASSUME Sure(job[j].event)'
        PROVE  /\ stage'[w] = "complete"
               /\ job[j].status = "processing" /\ j \notin sent
               /\ \A v \in Runners \ {w} : ~(stage[v] \in Executing /\ cur[v] = j)
    <2>1. stage'[w] # "settle"
      BY <1>1, <1>3 DEF GivenUp, Subject, Sure
    <2>. QED
      BY <1>1, <1>3, <2>1, SureJobOfRunner
  <1>4. sent \subseteq Jobs /\ again \subseteq sent
    BY DEF QueueInv, Types, EffectsTypeOK
  <1>5. \A k \in Jobs : Sure(job[k].event)' /\ job[k].status # "absent"
           => Sure(job[k].event)
    BY SureBefore
  <1>6. SentIsOver'
    <2>1. ASSUME NEW k \in sent', Sure(job[k].event)'
          PROVE  /\ job'[k].status \in {"processing", "completed"}
                 /\ \A v \in Runners :
                       stage'[v] \in {"execute", "settle", "bury"} => cur'[v] # k
      <3>1. CASE k = j
        BY <1>1, <1>3, <2>1, <3>1
      <3>2. CASE k # j
        <4>1. k \in sent /\ Sure(job[k].event)
          BY <1>2, <1>4, <1>5, <2>1, <3>2 DEF SentIsStored
        <4>. QED
          BY <1>1, <3>2, <4>1 DEF SentIsOver
      <3>. QED
        BY <3>1, <3>2
    <2>. QED
      BY <2>1 DEF SentIsOver
  <1>7. SentIsStored'
    BY <1>1, <1>2 DEF SentIsStored
  <1>8. OneOpen'
    <2>1. \A k \in Jobs : Open(k)' => Open(k) \/ k = j
      BY <1>1, <1>2 DEF Open
    <2>2. Open(j)
      BY <1>1 DEF Open
    <2>3. \A k \in Jobs : Open(k) => job[k].status # "absent"
      BY OpenIsStored
    <2>. QED
      BY <1>5, <2>1, <2>2, <2>3 DEF OneOpen
  <1>9. AgainIsKnown'
    <2>1. SUFFICES ASSUME NEW k \in again', Sure(job[k].event)'
                   PROVE  FALSE
      BY DEF AgainIsKnown
    <2>2. k \in again
      BY <1>2, <1>3, <2>1
    <2>. QED
      BY <1>4, <1>5, <2>1, <2>2 DEF AgainIsKnown, SentIsStored
  <1>. QED
    BY <1>6, <1>7, <1>8, <1>9

(* The catch clause takes over a job whose effect took place.              *)
LEMMA CompletionRefused ==
    ASSUME QueueInv, RootInv, EffectInv, [EffectsNext]_evars,
           NEW w \in Runners, ECompleteRefused(w)
    PROVE  EffectInv'
  <1>1. PICK j \in Jobs : cur[w] = j
    BY HeldIsStored DEF ECompleteRefused, CompleteRefused
  <1>2. /\ UNCHANGED <<job, cur, sent, again>>
        /\ \A v \in Runners \ {w} : stage'[v] = stage[v]
    BY DEF ECompleteRefused, CompleteRefused, QueueInv, Types, TypeInv, TypeOK
  <1>3. ~Sure(job[j].event)'
    BY <1>1, <1>2 DEF ECompleteRefused, GivenUp, Subject, Sure
  <1>4. ASSUME NEW k \in Jobs, Open(k)', Sure(job[k].event)'
        PROVE  Open(k) /\ job[k].status # "absent"
    <2>1. k # j
      BY <1>3, <1>4
    <2>2. Open(k)
      BY <1>1, <1>2, <1>4, <2>1 DEF Open
    <2>. QED
      BY <2>2, OpenIsStored DEF EffectInv
  <1>5. ASSUME NEW k \in sent, Sure(job[k].event)'
        PROVE  /\ job'[k].status \in {"processing", "completed"}
               /\ \A v \in Runners :
                     stage'[v] \in {"execute", "settle", "bury"} => cur'[v] # k
    <2>1. k # j
      BY <1>3, <1>5
    <2>2. k \in Jobs /\ job[k].status # "absent"
      BY DEF QueueInv, Types, EffectsTypeOK, EffectInv, SentIsStored
    <2>3. Sure(job[k].event)
      BY <1>5, <2>2, SureBefore
    <2>. QED
      BY <1>1, <1>2, <2>1, <2>3 DEF EffectInv, SentIsOver
  <1>. QED
    BY <1>2, <1>4, <1>5, NothingOpened
(* The job a runner executes is stored as completed, waiting or dead.      *)
LEMMA FinishEffect ==
    ASSUME QueueInv, RootInv, EffectInv, [EffectsNext]_evars,
           NEW w \in Runners, NEW s \in Status, stage'[w] = "next",
           \/ stage[w] = "complete" /\ s = "completed"
           \/ stage[w] = "settle" /\ s \in {"waiting", "dead"}
           \/ stage[w] = "bury" /\ s = "dead",
           Saved(cur[w], s),
           UNCHANGED <<sent, again>>,
           \A v \in Runners \ {w} : stage'[v] = stage[v] /\ cur'[v] = cur[v]
    PROVE  EffectInv'
  <1>1. PICK j \in Jobs : cur[w] = j /\ job[j].status # "absent"
    BY HeldIsStored
  <1>2. /\ job'[j].status = s
        /\ \A k \in Jobs \ {j} : job'[k].status = job[k].status
    BY <1>1 DEF Saved, SameJobs
  <1>3. ASSUME Sure(job[j].event)'
        PROVE  /\ stage[w] # "complete" => j \notin sent
               /\ \A v \in Runners \ {w} : ~(stage[v] \in Executing /\ cur[v] = j)
    BY <1>1, <1>3, SureJobOfRunner
  <1>4. ASSUME NEW k \in Jobs, Open(k)', Sure(job[k].event)'
        PROVE  Open(k) /\ job[k].status # "absent"
    <2>1. Open(k)
      <3>1. CASE k # j
        BY <1>2, <1>4, <3>1 DEF Open
      <3>2. CASE k = j
        BY <1>1, <1>2, <1>3, <1>4, <3>2 DEF Open
      <3>. QED
        BY <3>1, <3>2
    <2>. QED
      BY <2>1, OpenIsStored DEF EffectInv
  <1>5. ASSUME NEW k \in sent, Sure(job[k].event)'
        PROVE  /\ job'[k].status \in {"processing", "completed"}
               /\ \A v \in Runners :
                     stage'[v] \in {"execute", "settle", "bury"} => cur'[v] # k
    <2>1. k \in Jobs /\ job[k].status # "absent"
      BY DEF QueueInv, Types, EffectsTypeOK, EffectInv, SentIsStored
    <2>2. Sure(job[k].event)
      BY <1>5, <2>1, SureBefore
    <2>3. CASE k # j
      BY <1>2, <2>1, <2>2, <2>3 DEF EffectInv, SentIsOver
    <2>4. CASE k = j
      BY <1>1, <1>2, <1>3, <1>5, <2>4
    <2>. QED
      BY <2>3, <2>4
  <1>. QED
    BY <1>4, <1>5, NothingOpened

(* A dead e-mail: the job that tries it again opens as the old one closes. *)
LEMMA RetryEffect ==
    ASSUME QueueInv, RootInv, EffectInv, [EffectsNext]_evars,
           NEW w \in Runners, stage[w] = "settle", stage'[w] = "bury",
           Stored(Subject(w), RetryTrail(w), "pending"),
           UNCHANGED <<cur, sent, again>>,
           \A v \in Runners \ {w} : stage'[v] = stage[v]
    PROVE  EffectInv'
  <1>. USE DEF EffectInv
  <1>1. PICK j \in Jobs : cur[w] = j /\ job[j].status # "absent"
    BY HeldIsStored
  <1>2. PICK n \in Free : /\ job'[n].event = job[j].event
                          /\ job'[n].status = "pending"
                          /\ SameJobs(Jobs \ {n})
    BY <1>1 DEF Stored, Subject
  <1>3. n \in Jobs /\ job[n].status = "absent" /\ n # j /\ n \notin sent
    BY <1>1, <1>2 DEF Free, SentIsStored
  <1>4. \A k \in Jobs \ {n} : /\ job'[k].status = job[k].status
                              /\ job'[k].event = job[k].event
    BY <1>2 DEF SameJobs
  <1>5. ASSUME Sure(job[j].event)'
        PROVE  /\ job[j].status = "processing" /\ j \notin sent
               /\ \A v \in Runners \ {w} : ~(stage[v] \in Executing /\ cur[v] = j)
    BY <1>1, <1>5, SureJobOfRunner
  <1>6. sent \subseteq Jobs \ {n} /\ again \subseteq sent
    BY <1>3 DEF QueueInv, Types, EffectsTypeOK
  <1>7. \A k \in Jobs : Sure(job[k].event)' /\ job[k].status # "absent"
           => Sure(job[k].event)
    BY SureBefore
  <1>8. SentIsOver'
    BY <1>1, <1>4, <1>6, <1>7 DEF SentIsOver, SentIsStored
  <1>9. SentIsStored'
    BY <1>4, <1>6 DEF SentIsStored
  <1>10. OneOpen'
    <2>1. \A k \in Jobs \ {n} : Open(k)' => Open(k) /\ job[k].status # "absent"
      BY <1>1, <1>3, <1>4, OpenIsStored DEF Open
    <2>2. Open(j)
      BY <1>1 DEF Open
    <2>3. Sure(job[j].event)' => ~Open(j)'
      BY <1>1, <1>3, <1>4, <1>5 DEF Open
    <2>4. ASSUME NEW k \in Jobs \ {n}, Open(k)', job'[k].event = job'[n].event,
                 Sure(job[k].event)'
          PROVE  FALSE
      <3>1. job[k].event = job[j].event /\ Open(k) /\ Sure(job[k].event)
        BY <1>2, <1>4, <1>7, <2>1, <2>4
      <3>2. k = j
        BY <2>2, <3>1 DEF OneOpen
      <3>. QED
        BY <2>3, <2>4, <3>2
    <2>5. ASSUME NEW k \in Jobs \ {n}, NEW h \in Jobs \ {n}, Open(k)', Open(h)',
                 job'[k].event = job'[h].event, Sure(job[k].event)'
          PROVE  k = h
      <3>1. /\ job[k].event = job[h].event /\ Open(k) /\ Open(h)
            /\ Sure(job[k].event)
        BY <1>4, <1>7, <2>1, <2>5
      <3>. QED
        BY <3>1 DEF OneOpen
    <2>6. ASSUME NEW k \in Jobs, NEW h \in Jobs, Open(k)', Open(h)',
                 job'[k].event = job'[h].event, Sure(job[k].event)'
          PROVE  k = h
      <3>1. Sure(job[h].event)'
        BY <2>6 DEF Sure
      <3>. QED
        BY <2>4, <2>5, <2>6, <3>1
    <2>. QED
      BY <2>6 DEF OneOpen
  <1>11. AgainIsKnown'
    BY <1>6, <1>7 DEF AgainIsKnown, SentIsStored
  <1>. QED
    BY <1>8, <1>9, <1>10, <1>11

(* A dead job that is put back is the only one of its event, or excused.   *)
LEMMA PutBackEffect ==
    ASSUME QueueInv, RootInv, EffectInv, [EffectsNext]_evars,
           NEW a \in Admins, NEW j \in Jobs, EPutBack(a, j)
    PROVE  EffectInv'
  <1>1. Saved(j, "pending") /\ job[j].status # "absent"
    BY AttemptsSaved, HeldIsStored DEF EPutBack, PutBack, QueueInv, Types
  <1>2. UNCHANGED <<stage, cur, sent, again>>
    BY DEF EPutBack, PutBack
  <1>3. /\ job'[j].status = "pending" /\ job'[j].event = job[j].event
        /\ \A k \in Jobs \ {j} : job'[k].status = job[k].status
    BY <1>1 DEF Saved, SameJobs
  <1>4. Sure(job[j].event)' => job[j].event \notin Mail /\ j \notin sent
    <2>1. SUFFICES ASSUME Sure(job[j].event)'
                   PROVE  job[j].event \notin Mail /\ j \notin sent
      OBVIOUS
    <2>2. Sure(job[j].event) /\ j \notin shared
      BY <1>1, <2>1, SureBefore, HistoryGrows
    <2>3. job[j].status = "dead"
      BY <2>2 DEF EPutBack, PutBack, QueueInv, TurnInv, ResetIsDead
    <2>4. job[j].event \notin Mail
      BY <1>3, <2>1 DEF EPutBack, Sure
    <2>. QED
      BY <2>2, <2>3, <2>4 DEF EffectInv, SentIsOver
  <1>5. ASSUME NEW k \in Jobs, Open(k)', Sure(job[k].event)'
        PROVE  job[k].status # "absent" /\ (Open(k) \/ job[k].event \notin Mail)
    <2>1. CASE k = j
      BY <1>1, <1>4, <1>5, <2>1
    <2>2. CASE k # j
      <3>1. Open(k)
        BY <1>2, <1>3, <1>5, <2>2 DEF Open
      <3>. QED
        BY <3>1, OpenIsStored DEF EffectInv
    <2>. QED
      BY <2>1, <2>2
  <1>6. ASSUME NEW k \in sent, Sure(job[k].event)'
        PROVE  /\ job'[k].status \in {"processing", "completed"}
               /\ \A v \in Runners :
                     stage'[v] \in {"execute", "settle", "bury"} => cur'[v] # k
    <2>1. k \in Jobs \ {j} /\ job[k].status # "absent"
      BY <1>4, <1>6 DEF QueueInv, Types, EffectsTypeOK, EffectInv, SentIsStored
    <2>2. Sure(job[k].event)
      BY <1>6, <2>1, SureBefore
    <2>. QED
      BY <1>2, <1>3, <2>1, <2>2 DEF EffectInv, SentIsOver
  <1>. QED
    BY <1>2, <1>5, <1>6, NothingOpened

LEMMA EffectStep ==
    ASSUME QueueInv, RootInv, EffectInv, [EffectsNext]_evars
    PROVE  EffectInv'
  <1>1. ASSUME NEW e \in Events, Enqueue(e), UNCHANGED history
        PROVE  EffectInv'
    BY <1>1, EnqueueEffect
  <1>2. ASSUME NEW j \in Jobs, ComeDue(j), UNCHANGED history
        PROVE  EffectInv'
    <2>1. Saved(j, "pending")
      BY <1>2, StatusSaved DEF ComeDue, QueueInv, Types
    <2>. QED
      BY <1>2, <2>1, PendingMoves DEF ComeDue, history
  <1>3. ASSUME NEW w \in Runners, NEW j \in Jobs, Begin(w, j), UNCHANGED history
        PROVE  EffectInv'
    <2>1. Saved(j, "processing")
      BY <1>3, AttemptsSaved DEF Begin, QueueInv, Types, TypeInv, TypeOK
    <2>2. /\ job[j].status # "absent"
          /\ j \notin shared => job[j].status \in Pending
      BY <1>3, HeldIsStored DEF Begin, QueueInv, TurnInv, BatchIsPending
    <2>3. \A v \in Runners : stage'[v] \in {"execute", "settle", "bury"} =>
             (stage'[v] = stage[v] /\ cur'[v] = cur[v]) \/ cur'[v] = j
      BY <1>3 DEF Begin, QueueInv, Types, TypeInv, TypeOK
    <2>. QED
      BY <1>3, <2>1, <2>2, <2>3, PendingMoves DEF history
  <1>4. ASSUME NEW w \in Runners,
               \/ Acquire(w) \/ SaveRefused(w) \/ Crash(w)
               \/ EFind(w) \/ ERelease(w),
               UNCHANGED <<sent, again>>
        PROVE  EffectInv'
    <2>1. /\ \A v \in Runners \ {w} : stage'[v] = stage[v] /\ cur'[v] = cur[v]
          /\ stage'[w] \notin Executing /\ UNCHANGED job
      BY <1>4 DEF Acquire, SaveRefused, Crash, EFind, ERelease, Find, Release,
                  QueueInv, Types, TypeInv, TypeOK
    <2>. QED
      BY <1>4, <2>1, NothingOpenedUnstored
  <1>5. ASSUME NEW w \in Runners, EExecute(w) \/ EExecuteFails(w)
        PROVE  EffectInv'
    <2>1. /\ stage[w] = "execute" /\ UNCHANGED <<job, cur>>
          /\ \A v \in Runners \ {w} : stage'[v] = stage[v]
          /\ stage'[w] \in {"complete", "settle"}
      BY <1>5 DEF EExecute, EExecuteFails, Execute, ExecuteFails,
                  QueueInv, Types, TypeInv, TypeOK
    <2>2. CASE Effect(w) /\ (stage'[w] = "complete" \/ GivenUp(w))
      BY <2>1, <2>2, EffectTaken
    <2>3. CASE UNCHANGED <<sent, again>> /\ stage'[w] = "settle"
      BY <2>1, <2>3, NothingOpenedUnstored
    <2>. QED
      BY <1>5, <2>2, <2>3
         DEF EExecute, EExecuteFails, Execute, ExecuteFails, QueueInv, Types,
             TypeInv, TypeOK
  <1>6. ASSUME NEW w \in Runners, ECompleteRefused(w)
        PROVE  EffectInv'
    BY <1>6, CompletionRefused
  <1>7. ASSUME NEW w \in Runners, Complete(w) \/ Bury(w), UNCHANGED history
        PROVE  EffectInv'
    <2>1. /\ stage'[w] = "next" /\ UNCHANGED <<sent, again>>
          /\ \A v \in Runners \ {w} : stage'[v] = stage[v] /\ cur'[v] = cur[v]
      BY <1>7 DEF Complete, Bury, QueueInv, Types, TypeInv, TypeOK, history
    <2>2. \/ stage[w] = "complete" /\ Saved(cur[w], "completed")
          \/ stage[w] = "bury" /\ Saved(cur[w], "dead")
      BY <1>7, StatusSaved DEF Complete, Bury, QueueInv, Types, TypeInv
    <2>. QED
      BY <2>1, <2>2, FinishEffect
  <1>8. ASSUME NEW w \in Runners, ESettle(w)
        PROVE  EffectInv'
    <2>1. /\ stage[w] = "settle" /\ UNCHANGED <<sent, again>>
          /\ \A v \in Runners \ {w} : stage'[v] = stage[v] /\ cur'[v] = cur[v]
      BY <1>8, SettleStores DEF ESettle, QueueInv, Types
    <2>2. CASE stage'[w] = "next"
      <3>1. Saved(cur[w], "waiting") \/ Saved(cur[w], "dead")
        BY <1>8, <2>2, SettleStores DEF ESettle, QueueInv, Types
      <3>. QED
        BY <2>1, <2>2, <3>1, FinishEffect
    <2>3. CASE stage'[w] # "next"
      <3>1. stage'[w] = "bury" /\ cur' = cur
        <4>1. stage'[w] = "bury"
          BY <1>8, <2>3, SettleStores DEF ESettle, QueueInv, Types
        <4>2. ~NextJob(w)
          BY <4>1 DEF QueueInv, Types, TypeInv, TypeOK
        <4>. QED
          BY <1>8, <4>1, <4>2 DEF ESettle, Settle
      <3>2. CASE SameJobs(Jobs)
        <4>1. ASSUME NEW k \in Jobs, Open(k)'
              PROVE  Open(k) /\ job[k].status # "absent"
          <5>1. Open(k)
            BY <2>1, <3>1, <3>2, <4>1 DEF Open, SameJobs
          <5>. QED
            BY <5>1, OpenIsStored DEF EffectInv
        <4>2. ASSUME NEW k \in sent, Sure(job[k].event)'
              PROVE  /\ job'[k].status \in {"processing", "completed"}
                     /\ \A v \in Runners :
                           stage'[v] \in {"execute", "settle", "bury"}
                              => cur'[v] # k
          <5>1. k \in Jobs /\ job[k].status # "absent"
            BY DEF QueueInv, Types, EffectsTypeOK, EffectInv, SentIsStored
          <5>2. Sure(job[k].event)
            BY <4>2, <5>1, SureBefore
          <5>. QED
            BY <2>1, <3>1, <3>2, <5>1, <5>2 DEF EffectInv, SentIsOver, SameJobs
        <4>. QED
          BY <2>1, <4>1, <4>2, NothingOpened
      <3>3. CASE Stored(Subject(w), RetryTrail(w), "pending")
        BY <2>1, <3>1, <3>3, RetryEffect
      <3>. QED
        BY <1>8, <3>1, <3>2, <3>3, SettleStores DEF ESettle, QueueInv, Types
    <2>. QED
      BY <2>2, <2>3
  <1>9. ASSUME NEW a \in Admins, NEW j \in Jobs, EPutBack(a, j)
        PROVE  EffectInv'
    BY <1>9, PutBackEffect
  <1>10. ASSUME UNCHANGED <<job, stage, cur, sent, again>>
         PROVE  EffectInv'
    BY <1>10, NothingOpenedUnstored
  <1>. QED
    BY <1>1, <1>2, <1>3, <1>4, <1>5, <1>6, <1>7, <1>8, <1>9, <1>10
       DEF EffectsNext, Quiet, EFind, ERelease, ELockExpires, LockExpires,
           FindDead, LeaveDead, history, evars, vars

(* An event has its effect once at most, over its job and all its retries, *)
(* however many runners and administrators there are, wherever they stop   *)
(* and whatever is refused: but for the events of jobs given up after      *)
(* their effect, of e-mails put back beside their retry, and of jobs that  *)
(* two callers could hold at once.                                         *)
THEOREM EventsSentOnce == EffectsSpec => []EventSentOnce
  <1>1. EffectsInit => RootInv /\ EffectInv
    BY DEF EffectsInit, Init, RootInv, RootIsKept, OneForEvent, EffectInv,
           SentIsOver, SentIsStored, OneOpen, Open, AgainIsKnown
  <1>2. QueueInv /\ RootInv /\ EffectInv /\ [EffectsNext]_evars
           => QueueInv' /\ RootInv' /\ EffectInv'
    BY QueueStep, RootStep, EffectStep
  <1>3. QueueInv /\ EffectInv => EventSentOnce
    BY DEF QueueInv, Types, EffectsTypeOK, EffectInv, AgainIsKnown, OneOpen,
           Open, EventSentOnce
  <1>. QED
    BY <1>1, <1>2, <1>3, InitQueue, PTL DEF EffectsSpec
-----------------------------------------------------------------------------
(* No dead e-mail is lost *)

(* What a runner counts is what it stored.                                 *)
CountIsStored ==
    \A w \in Runners : stage[w] \in Executing /\ cur[w] \notin shared =>
        tries[w][cur[w]] = job[cur[w]].attempts

(* The job that tries the e-mail again is stored before the job is buried. *)
RetryIsStored ==
    \A w \in Runners : stage[w] = "bury" /\ cur[w] \notin lost \cup shared =>
        Enqueued(Subject(w), RetryTrail(w))

MailInv ==
    /\ CountIsStored
    /\ RetryIsStored
    /\ DeadMailIsRetried

LEMMA EnqueuedStays ==
    ASSUME IdentityKept, NEW e, NEW t, Enqueued(e, t)
    PROVE  Enqueued(e, t)'
  BY DEF IdentityKept, Enqueued, Free

(* A step that neither kills a job nor gives one up.                       *)
LEMMA NobodyDies ==
    ASSUME QueueInv, MailInv, [EffectsNext]_evars,
           \A k \in Jobs \ (lost' \cup shared') : job'[k].status = "dead" =>
              /\ job[k].status = "dead" /\ job'[k].attempts = job[k].attempts
              /\ k \notin lost,
           \A w \in Runners : stage'[w] \in Executing /\ cur'[w] \notin shared' =>
              tries'[w][cur'[w]] = job'[cur'[w]].attempts,
           \A w \in Runners : stage'[w] = "bury" /\ cur'[w] \notin lost' \cup shared' =>
              /\ stage[w] = "bury" /\ cur'[w] = cur[w] /\ tries'[w] = tries[w]
              /\ cur[w] \notin lost
    PROVE  MailInv'
  <1>. USE DEF MailInv
  <1>1. IdentityKept /\ shared \subseteq shared'
    BY IdentityStep, HistoryGrows
  <1>2. CountIsStored'
    BY DEF CountIsStored
  <1>3. RetryIsStored'
    <2>1. SUFFICES ASSUME NEW w \in Runners, stage'[w] = "bury",
                          cur'[w] \notin lost' \cup shared'
                   PROVE  Enqueued(Subject(w), RetryTrail(w))'
      BY DEF RetryIsStored
    <2>2. /\ cur[w] \in Jobs /\ stage[w] = "bury" /\ cur'[w] = cur[w]
          /\ job[cur[w]].status # "absent" /\ tries'[w] = tries[w]
          /\ cur[w] \notin lost \cup shared
      BY <1>1, <2>1, HeldIsStored
    <2>3. PICK e, t : e = Subject(w) /\ t = RetryTrail(w)
      OBVIOUS
    <2>4. Subject(w)' = e /\ RetryTrail(w)' = t
      BY <1>1, <2>2, <2>3 DEF Subject, RetryTrail, IdentityKept
    <2>5. Enqueued(e, t)
      BY <2>2, <2>3 DEF RetryIsStored
    <2>6. Enqueued(e, t)'
      BY <1>1, <2>5, EnqueuedStays
    <2>. QED
      BY <2>4, <2>6 DEF Enqueued
  <1>4. DeadMailIsRetried'
    <2>1. SUFFICES ASSUME NEW k \in Dead', k \notin lost' \cup shared',
                          job'[k].event \in Mail
                   PROVE  Enqueued(job[k].event,
                                   Append(job[k].trail, job[k].attempts))'
      BY DEF DeadMailIsRetried
    <2>2. /\ k \in Dead \ (lost \cup shared) /\ job'[k].event = job[k].event
          /\ job'[k].trail = job[k].trail /\ job'[k].attempts = job[k].attempts
      BY <1>1, <2>1 DEF Dead, IdentityKept
    <2>3. PICK e, t : /\ e = job[k].event
                      /\ t = Append(job[k].trail, job[k].attempts)
      OBVIOUS
    <2>4. Enqueued(e, t)
      BY <2>1, <2>2, <2>3 DEF DeadMailIsRetried
    <2>5. Enqueued(e, t)'
      BY <1>1, <2>4, EnqueuedStays
    <2>. QED
      BY <2>2, <2>3, <2>5 DEF Enqueued
  <1>. QED
    BY <1>2, <1>3, <1>4

(* Such a step that stores no document.                                    *)
LEMMA NobodyDiesUnstored ==
    ASSUME QueueInv, MailInv, [EffectsNext]_evars, UNCHANGED <<job, lost>>,
           \A v \in Runners : stage'[v] \in Executing =>
              /\ stage[v] \in Executing /\ cur'[v] = cur[v] /\ tries'[v] = tries[v]
              /\ stage'[v] = "bury" => stage[v] = "bury"
    PROVE  MailInv'
  <1>1. shared \subseteq shared'
    BY HistoryGrows
  <1>. QED
    BY <1>1, NobodyDies DEF MailInv, CountIsStored

(* Such a step that stores a job which nobody executes.                    *)
LEMMA NobodyDiesLoose ==
    ASSUME QueueInv, MailInv, [EffectsNext]_evars, NEW j \in Jobs,
           j \notin shared => job[j].status # "processing",
           job'[j].status # "dead",
           \A k \in Jobs \ {j} : /\ job'[k].status = job[k].status
                                 /\ job'[k].attempts = job[k].attempts,
           UNCHANGED <<stage, cur, tries, lost>>
    PROVE  MailInv'
  <1>1. shared \subseteq shared'
    BY HistoryGrows
  <1>2. ASSUME NEW v \in Runners, stage[v] \in Executing, cur[v] \notin shared'
        PROVE  cur[v] \in Jobs \ {j} /\ cur[v] \notin shared
    BY <1>1, <1>2, HeldIsStored DEF QueueInv, TurnInv, CurrentIsProcessing
  <1>3. ASSUME NEW v \in Runners, stage[v] \in Executing, cur[v] \notin shared'
        PROVE  tries[v][cur[v]] = job'[cur[v]].attempts
    BY <1>2, <1>3 DEF MailInv, CountIsStored
  <1>. QED
    BY <1>3, NobodyDies

(* The next job of a batch is counted.                                     *)
LEMMA BeginMail ==
    ASSUME QueueInv, MailInv, [EffectsNext]_evars, NEW w \in Runners,
           NEW j \in Jobs, Begin(w, j), UNCHANGED history
    PROVE  MailInv'
  <1>1. /\ j \in todo[w] /\ stage'[w] = "execute" /\ cur'[w] = j
        /\ tries'[w][j] = tries[w][j] + 1
        /\ \A v \in Runners \ {w} : /\ stage'[v] = stage[v] /\ cur'[v] = cur[v]
                                    /\ tries'[v] = tries[v]
        /\ UNCHANGED <<shared, lost>>
    BY DEF Begin, QueueInv, Types, TypeInv, TypeOK, history
  <1>2. Saved(j, "processing") /\ job'[j].attempts = tries[w][j] + 1
    BY AttemptsSaved DEF Begin, QueueInv, Types, TypeInv, TypeOK
  <1>3. ASSUME NEW v \in Runners \ {w}, stage[v] \in Executing, cur[v] \notin shared
        PROVE  tries[v][cur[v]] = job'[cur[v]].attempts
    <2>1. cur[v] \in Jobs \ {j}
      BY <1>1, <1>3, HeldAlone, HeldIsStored DEF QueueInv
    <2>2. job'[cur[v]].attempts = job[cur[v]].attempts
      BY <1>2, <2>1 DEF Saved, SameJobs
    <2>. QED
      BY <1>3, <2>2 DEF MailInv, CountIsStored
  <1>. QED
    BY <1>1, <1>2, <1>3, NobodyDies DEF Saved, SameJobs

(* The job a runner executes is stored in its last status: if it died, and *)
(* is an e-mail, the job that tries it again is there.                     *)
LEMMA FinishMail ==
    ASSUME QueueInv, MailInv, [EffectsNext]_evars, NEW w \in Runners,
           stage[w] \in Executing, stage'[w] = "next",
           NEW s \in Status, Saved(cur[w], s),
           job'[cur[w]].attempts = job[cur[w]].attempts,
           \A v \in Runners \ {w} : /\ stage'[v] = stage[v] /\ cur'[v] = cur[v]
                                    /\ tries'[v] = tries[v],
           UNCHANGED <<shared, lost>>,
           s = "dead" => stage[w] = "bury" \/ Subject(w) \notin Mail
    PROVE  MailInv'
  <1>1. PICK j \in Jobs : cur[w] = j /\ job[j].status # "absent"
    BY HeldIsStored
  <1>2. /\ job'[j].status = s /\ job'[j].event = job[j].event
        /\ job'[j].trail = job[j].trail
        /\ \A k \in Jobs \ {j} : job'[k].status = job[k].status
        /\ \A k \in Jobs : job'[k].attempts = job[k].attempts
    BY <1>1 DEF Saved, SameJobs
  <1>3. ASSUME NEW v \in Runners, stage'[v] \in Executing, cur'[v] \notin shared'
        PROVE  tries'[v][cur'[v]] = job'[cur'[v]].attempts
    <2>1. v # w /\ cur[v] \in Jobs /\ cur[v] \notin shared
      BY <1>3, HeldIsStored
    <2>. QED
      BY <1>2, <1>3, <2>1 DEF MailInv, CountIsStored
  <1>4. CASE s # "dead" \/ j \in lost \cup shared
    BY <1>2, <1>3, <1>4, NobodyDies
  <1>5. CASE s = "dead" /\ j \notin lost \cup shared
    <2>1. IdentityKept
      BY IdentityStep
    <2>2. CountIsStored'
      BY <1>3 DEF CountIsStored
    <2>3. RetryIsStored'
      <3>1. SUFFICES ASSUME NEW v \in Runners, stage'[v] = "bury",
                            cur'[v] \notin lost' \cup shared'
                     PROVE  Enqueued(Subject(v), RetryTrail(v))'
        BY DEF RetryIsStored
      <3>2. /\ v # w /\ cur[v] \in Jobs /\ stage[v] = "bury" /\ cur'[v] = cur[v]
            /\ job[cur[v]].status # "absent" /\ tries'[v] = tries[v]
            /\ cur[v] \notin lost \cup shared
        BY <3>1, HeldIsStored
      <3>3. PICK e, t : e = Subject(v) /\ t = RetryTrail(v)
        OBVIOUS
      <3>4. Subject(v)' = e /\ RetryTrail(v)' = t
        BY <2>1, <3>2, <3>3 DEF Subject, RetryTrail, IdentityKept
      <3>5. Enqueued(e, t)
        BY <3>2, <3>3 DEF MailInv, RetryIsStored
      <3>6. Enqueued(e, t)'
        BY <2>1, <3>5, EnqueuedStays
      <3>. QED
        BY <3>4, <3>6 DEF Enqueued
    <2>4. DeadMailIsRetried'
      <3>1. SUFFICES ASSUME NEW k \in Dead', k \notin lost' \cup shared',
                            job'[k].event \in Mail
                     PROVE  Enqueued(job[k].event,
                                     Append(job[k].trail, job[k].attempts))'
        BY DEF DeadMailIsRetried
      <3>2. /\ k \in Jobs /\ job[k].status # "absent" /\ k \notin lost \cup shared
            /\ job'[k].status = "dead" /\ job'[k].attempts = job[k].attempts
        BY <1>1, <1>2, <3>1 DEF Dead
      <3>3. job'[k].event = job[k].event /\ job'[k].trail = job[k].trail
        BY <2>1, <3>2 DEF IdentityKept
      <3>4. PICK e, t : /\ e = job[k].event
                        /\ t = Append(job[k].trail, job[k].attempts)
        OBVIOUS
      <3>5. Enqueued(e, t)
        <4>1. CASE k = j
          <5>1. /\ stage[w] = "bury" /\ Subject(w) = e
                /\ tries[w][j] = job[j].attempts
            BY <1>1, <1>5, <3>1, <3>3, <3>4, <4>1
               DEF Subject, MailInv, CountIsStored
          <5>2. RetryTrail(w) = t
            BY <1>1, <3>4, <4>1, <5>1 DEF RetryTrail
          <5>. QED
            BY <1>1, <1>5, <5>1, <5>2 DEF MailInv, RetryIsStored
        <4>2. CASE k # j
          <5>1. k \in Dead
            BY <1>2, <3>2, <4>2 DEF Dead
          <5>. QED
            BY <3>1, <3>2, <3>3, <3>4, <5>1 DEF MailInv, DeadMailIsRetried
        <4>. QED
          BY <4>1, <4>2
      <3>6. Enqueued(e, t)'
        BY <2>1, <3>5, EnqueuedStays
      <3>. QED
        BY <3>2, <3>3, <3>4, <3>6 DEF Enqueued
    <2>. QED
      BY <2>2, <2>3, <2>4 DEF MailInv
  <1>. QED
    BY <1>4, <1>5
(* A dead e-mail is enqueued once more, unless that was done before, or    *)
(* the error is swallowed, which is noted.                                 *)
LEMMA RetryMail ==
    ASSUME QueueInv, MailInv, [EffectsNext]_evars, NEW w \in Runners,
           ESettle(w), stage'[w] = "bury"
    PROVE  MailInv'
  <1>1. IdentityKept /\ UNCHANGED shared
    BY IdentityStep DEF ESettle
  <1>2. PICK j \in Jobs : cur[w] = j /\ job[j].status # "absent"
    BY HeldIsStored DEF ESettle, Settle
  <1>3. /\ stage[w] = "settle" /\ cur'[w] = j /\ tries'[w] = tries[w]
        /\ \A v \in Runners \ {w} : /\ stage'[v] = stage[v] /\ cur'[v] = cur[v]
                                    /\ tries'[v] = tries[v]
    BY <1>2, SettleStores DEF ESettle, QueueInv, Types
  <1>4. /\ \A k \in Jobs : job[k].status # "absent" =>
              /\ job'[k].status = job[k].status
              /\ job'[k].attempts = job[k].attempts
        /\ \A k \in Jobs : job[k].status = "absent" => job'[k].status # "dead"
    <2>1. SameJobs(Jobs) \/ Stored(Subject(w), RetryTrail(w), "pending")
      BY SettleStores DEF ESettle, QueueInv, Types
    <2>2. CASE SameJobs(Jobs)
      BY <2>2 DEF SameJobs
    <2>3. CASE Stored(Subject(w), RetryTrail(w), "pending")
      BY <2>3 DEF Stored, SameJobs, Free
    <2>. QED
      BY <2>1, <2>2, <2>3
  <1>5. /\ \A k \in Jobs \ {j} : k \notin lost' => k \notin lost
        /\ j \notin lost' => Enqueued(Subject(w), RetryTrail(w))'
    BY <1>2 DEF ESettle
  <1>6. j \notin shared =>
           /\ job[j].status = "processing"
           /\ \A v \in Runners \ {w} : ~(stage[v] \in Executing /\ cur[v] = j)
    BY <1>2, <1>3, HeldAlone DEF QueueInv
  <1>7. CountIsStored'
    <2>1. SUFFICES ASSUME NEW v \in Runners, stage'[v] \in Executing,
                          cur'[v] \notin shared'
                   PROVE  tries'[v][cur'[v]] = job'[cur'[v]].attempts
      BY DEF CountIsStored
    <2>2. /\ stage[v] \in Executing /\ cur'[v] = cur[v] /\ tries'[v] = tries[v]
          /\ cur[v] \notin shared
      BY <1>1, <1>2, <1>3, <2>1
    <2>3. cur[v] \in Jobs /\ job[cur[v]].status # "absent"
      BY <2>2, HeldIsStored
    <2>. QED
      BY <1>4, <2>2, <2>3 DEF MailInv, CountIsStored
  <1>8. RetryIsStored'
    <2>1. SUFFICES ASSUME NEW v \in Runners, stage'[v] = "bury",
                          cur'[v] \notin lost' \cup shared'
                   PROVE  Enqueued(Subject(v), RetryTrail(v))'
      BY DEF RetryIsStored
    <2>2. CASE v = w
      BY <1>3, <1>5, <2>1, <2>2
    <2>3. CASE v # w
      <3>1. /\ cur[v] \in Jobs /\ stage[v] = "bury" /\ cur'[v] = cur[v]
            /\ job[cur[v]].status # "absent" /\ tries'[v] = tries[v]
            /\ cur[v] \notin shared
        BY <1>1, <1>3, <2>1, <2>3, HeldIsStored
      <3>2. cur[v] \notin lost
        BY <1>5, <1>6, <2>1, <2>3, <3>1
      <3>3. PICK e, t : e = Subject(v) /\ t = RetryTrail(v)
        OBVIOUS
      <3>4. Subject(v)' = e /\ RetryTrail(v)' = t
        BY <1>1, <3>1, <3>3 DEF Subject, RetryTrail, IdentityKept
      <3>5. Enqueued(e, t)
        BY <3>1, <3>2, <3>3 DEF MailInv, RetryIsStored
      <3>6. Enqueued(e, t)'
        BY <1>1, <3>5, EnqueuedStays
      <3>. QED
        BY <3>4, <3>6 DEF Enqueued
    <2>. QED
      BY <2>2, <2>3
  <1>9. DeadMailIsRetried'
    <2>1. SUFFICES ASSUME NEW k \in Dead', k \notin lost' \cup shared',
                          job'[k].event \in Mail
                   PROVE  Enqueued(job[k].event,
                                   Append(job[k].trail, job[k].attempts))'
      BY DEF DeadMailIsRetried
    <2>2. /\ k \in Jobs /\ job[k].status = "dead"
          /\ job'[k].attempts = job[k].attempts /\ k \notin shared
      BY <1>1, <1>4, <2>1 DEF Dead
    <2>3. k \in Dead \ (lost \cup shared)
      BY <1>5, <1>6, <2>1, <2>2 DEF Dead
    <2>4. job'[k].event = job[k].event /\ job'[k].trail = job[k].trail
      BY <1>1, <2>2 DEF IdentityKept
    <2>5. PICK e, t : /\ e = job[k].event
                      /\ t = Append(job[k].trail, job[k].attempts)
      OBVIOUS
    <2>6. Enqueued(e, t)
      BY <2>1, <2>3, <2>4, <2>5 DEF MailInv, DeadMailIsRetried
    <2>7. Enqueued(e, t)'
      BY <1>1, <2>6, EnqueuedStays
    <2>. QED
      BY <2>2, <2>4, <2>5, <2>7 DEF Enqueued
  <1>. QED
    BY <1>7, <1>8, <1>9 DEF MailInv

LEMMA MailStep ==
    ASSUME QueueInv, MailInv, [EffectsNext]_evars
    PROVE  MailInv'
  <1>. USE DEF QueueInv, Types
  <1>1. ASSUME NEW e \in Events, Enqueue(e), UNCHANGED history
        PROVE  MailInv'
    <2>1. PICK j \in Free, s \in Pending :
             job' = [job EXCEPT ![j] = NewJob(e, <<>>, s)]
      BY <1>1 DEF Enqueue
    <2>2. /\ j \in Jobs /\ job[j].status = "absent" /\ job'[j].status = s
          /\ \A k \in Jobs \ {j} : job'[k] = job[k]
      BY <2>1 DEF Free, TypeInv, TypeOK
    <2>. QED
      BY <1>1, <2>2, NobodyDiesLoose DEF Enqueue, history
  <1>2. ASSUME NEW j \in Jobs, ComeDue(j), UNCHANGED history
        PROVE  MailInv'
    <2>1. Saved(j, "pending")
      BY <1>2, StatusSaved DEF ComeDue
    <2>. QED
      BY <1>2, <2>1, NobodyDiesLoose DEF ComeDue, Saved, SameJobs, history
  <1>3. ASSUME NEW w \in Runners, NEW j \in Jobs, Begin(w, j), UNCHANGED history
        PROVE  MailInv'
    BY <1>3, BeginMail
  <1>4. ASSUME NEW w \in Runners,
               \/ Acquire(w) \/ SaveRefused(w) \/ Crash(w)
               \/ EFind(w) \/ ERelease(w),
               UNCHANGED lost
        PROVE  MailInv'
    <2>1. /\ \A v \in Runners \ {w} : /\ stage'[v] = stage[v] /\ cur'[v] = cur[v]
                                      /\ tries'[v] = tries[v]
          /\ stage'[w] \notin Executing /\ UNCHANGED job
      BY <1>4 DEF Acquire, SaveRefused, Crash, EFind, ERelease, Find, Release,
                  TypeInv, TypeOK
    <2>. QED
      BY <1>4, <2>1, NobodyDiesUnstored
  <1>5. ASSUME NEW w \in Runners,
               EExecute(w) \/ EExecuteFails(w) \/ ECompleteRefused(w)
        PROVE  MailInv'
    <2>1. /\ stage[w] \in Executing /\ stage'[w] # "bury"
          /\ \A v \in Runners \ {w} : stage'[v] = stage[v]
          /\ UNCHANGED <<job, cur, tries, lost>>
      BY <1>5 DEF EExecute, EExecuteFails, ECompleteRefused, Execute,
                  ExecuteFails, CompleteRefused, TypeInv, TypeOK
    <2>. QED
      BY <2>1, NobodyDiesUnstored
  <1>6. ASSUME NEW w \in Runners, Complete(w) \/ Bury(w), UNCHANGED history
        PROVE  MailInv'
    <2>1. /\ stage'[w] = "next" /\ UNCHANGED <<shared, lost>>
          /\ \A v \in Runners \ {w} : /\ stage'[v] = stage[v] /\ cur'[v] = cur[v]
                                      /\ tries'[v] = tries[v]
      BY <1>6 DEF Complete, Bury, TypeInv, TypeOK, history
    <2>2. /\ \/ stage[w] = "complete" /\ Saved(cur[w], "completed")
             \/ stage[w] = "bury" /\ Saved(cur[w], "dead")
          /\ job'[cur[w]].attempts = job[cur[w]].attempts
      BY <1>6, StatusSaved DEF Complete, Bury, TypeInv
    <2>. QED
      BY <2>1, <2>2, FinishMail
  <1>7. ASSUME NEW w \in Runners, ESettle(w)
        PROVE  MailInv'
    <2>1. CASE stage'[w] = "bury"
      BY <1>7, <2>1, RetryMail
    <2>2. CASE stage'[w] # "bury"
      <3>1. /\ stage[w] = "settle" /\ stage'[w] = "next"
            /\ \A v \in Runners \ {w} : /\ stage'[v] = stage[v] /\ cur'[v] = cur[v]
                                        /\ tries'[v] = tries[v]
            /\ job'[cur[w]].attempts = job[cur[w]].attempts
            /\ \/ Saved(cur[w], "waiting")
               \/ Saved(cur[w], "dead") /\ Subject(w) \notin Mail
        BY <1>7, <2>2, SettleStores DEF ESettle
      <3>2. UNCHANGED <<shared, lost>>
        BY <1>7, <2>2 DEF ESettle
      <3>. QED
        BY <3>1, <3>2, FinishMail
    <2>. QED
      BY <2>1, <2>2
  <1>8. ASSUME NEW a \in Admins, NEW j \in Jobs, EPutBack(a, j)
        PROVE  MailInv'
    <2>1. Saved(j, "pending")
      BY <1>8, AttemptsSaved DEF EPutBack, PutBack
    <2>2. j \notin shared => job[j].status = "dead"
      BY <1>8 DEF EPutBack, PutBack, TurnInv, ResetIsDead
    <2>3. UNCHANGED <<stage, cur, tries, lost>>
      BY <1>8 DEF EPutBack, PutBack
    <2>. QED
      BY <2>1, <2>2, <2>3, NobodyDiesLoose DEF Saved, SameJobs
  <1>9. ASSUME UNCHANGED <<job, stage, cur, tries, lost>>
        PROVE  MailInv'
    BY <1>9, NobodyDiesUnstored
  <1>. QED
    BY <1>1, <1>2, <1>3, <1>4, <1>5, <1>6, <1>7, <1>8, <1>9
       DEF EffectsNext, Quiet, EFind, ERelease, ELockExpires, LockExpires,
           FindDead, LeaveDead, history, evars, vars

(* An e-mail that died has a job that tries it again, stored under the     *)
(* attempts that it died with, wherever processes stop and whatever is     *)
(* refused: but for those whose retry could not be stored, and for jobs    *)
(* that two callers could hold at once.                                    *)
THEOREM DeadMailHasRetry == EffectsSpec => []DeadMailIsRetried
  <1>1. EffectsInit => MailInv
    BY DEF EffectsInit, Init, MailInv, CountIsStored, RetryIsStored,
           DeadMailIsRetried, Dead
  <1>2. QueueInv /\ MailInv /\ [EffectsNext]_evars => QueueInv' /\ MailInv'
    BY QueueStep, MailStep
  <1>3. MailInv => DeadMailIsRetried
    BY DEF MailInv
  <1>. QED
    BY <1>1, <1>2, <1>3, InitQueue, PTL DEF EffectsSpec
=============================================================================
