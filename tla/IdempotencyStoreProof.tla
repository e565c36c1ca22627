----------------------- MODULE IdempotencyStoreProof ------------------------
(***************************************************************************)
(* Theorems about IdempotencyStore, for any number of calls and            *)
(* fingerprints.                                                           *)
(*                                                                         *)
(* RecordInv, while the record outlives its callers (~MayExpire), relates  *)
(* it to what the calls have done: the record, once there, fixes the       *)
(* fingerprint of all that perform; a completed record is final and every  *)
(* answer with a result was drawn from it.                                 *)
(* HolderInv, for calls that never perform beyond staleMs, says that one   *)
(* call at most holds the reservation, that the reservation is then young, *)
(* and that the effects nobody has to account for are the holder's or the  *)
(* completed record's.                                                     *)
(* BackedInv asks for neither: what a call completes, what the record      *)
(* stores and what is answered are effects made for the same fingerprint.  *)
(***************************************************************************)
EXTENDS IdempotencyStore, TLAPS

-----------------------------------------------------------------------------
(* The inductive invariants *)

NothingBeforeReservation ==
    rec.status = "absent" => /\ effects = {}
                             /\ \A c \in Calls : /\ pc[c] = "new"
                                                 /\ ans[c].kind = "none"

PerformersAgree ==
    /\ \A c \in Calls : pc[c] \in Performing => print[c] = rec.print
    /\ \A c \in effects : print[c] = rec.print /\ pc[c] # "new"

CompletersMadeIt == \A c \in Calls : pc[c] = "complete" => made[c] \in effects

CompletedIsBacked == rec.status = "completed" => rec.result \in effects

AnswersFromRecord ==
    \A c \in Calls : ans[c].kind \in Settled =>
        /\ rec.status = "completed"
        /\ ans[c].effect = rec.result
        /\ print[c] = rec.print
        /\ pc[c] = "done"

RecordInv ==
    /\ TypeOK
    /\ NothingBeforeReservation
    /\ PerformersAgree
    /\ CompletersMadeIt
    /\ CompletedIsBacked
    /\ AnswersFromRecord

Clean == {c \in effects : /\ ans[c].kind \notin {"crashed", "failed"}
                          /\ pc[c] # "markFailed"}

OneHolder ==
    \A c \in Calls : pc[c] \in Performing =>
        /\ rec.status = "in_progress" /\ ~rec.old
        /\ pc[c] # "completeReload"
        /\ \A d \in Calls : pc[d] \in Performing => d = c

EffectsAreLate ==
    \A c \in effects : pc[c] \in {"complete", "markFailed", "done"}

CleanIsBacked ==
    \A c \in Clean : \/ pc[c] = "complete"
                     \/ rec.status = "completed" /\ pc[c] = "done"

CleanIsUnique == \A c, d \in Clean : c = d

HolderInv ==
    /\ RecordInv
    /\ OneHolder
    /\ EffectsAreLate
    /\ CleanIsBacked
    /\ CleanIsUnique

-----------------------------------------------------------------------------
(* Every step preserves the types *)

USE DEF Stage, Performing, Waiting, AnswerKind, Settled, Status, RecordDoc,
        Answer, NoRecord, NewRecord, At, Goto, AnswerWith, Refuse, Replay, Reads

(* The documents the two compare-and-swaps that change several fields      *)
(* leave behind.                                                           *)
LEMMA ResumedRecord ==
    ASSUME TypeOK, NEW c \in Calls, Resume(c), Resumable(c)
    PROVE  rec' = [status |-> "in_progress", print |-> rec.print,
                   old |-> FALSE, result |-> None]
  BY DEF Resume, TypeOK

LEMMA CompletedRecord ==
    ASSUME TypeOK, NEW c \in Calls, Complete(c), Reserved(c)
    PROVE  rec' = [status |-> "completed", print |-> rec.print,
                   old |-> rec.old, result |-> made[c]]
  BY DEF Complete, TypeOK

LEMMA TypeStep ==
    ASSUME TypeOK, [Next]_vars
    PROVE  TypeOK'
  <1>. USE StoreAssumption DEF TypeOK
  <1>1. ASSUME NEW c \in Calls, NEW f \in Prints, Reserve(c, f)
        PROVE  TypeOK'
    <2>1. CASE rec.status = "absent"
      <3>1. rec' = NewRecord(f)
        BY <1>1, <2>1 DEF Reserve
      <3>2. NewRecord(f) \in RecordDoc
        OBVIOUS
      <3>. QED
        BY <1>1, <2>1, <3>1, <3>2 DEF Reserve
    <2>2. CASE ~(rec.status = "absent")
      BY <1>1, <2>2 DEF Reserve
    <2>. QED
      BY <2>1, <2>2
  <1>2. ASSUME NEW c \in Calls, Load(c)
        PROVE  TypeOK'
    BY <1>2 DEF Load
  <1>3. ASSUME NEW c \in Calls, Poll(c)
        PROVE  TypeOK'
    BY <1>3 DEF Poll
  <1>4. ASSUME NEW c \in Calls, GiveUp(c)
        PROVE  TypeOK'
    BY <1>4 DEF GiveUp
  <1>5. ASSUME NEW c \in Calls, TakeOver(c)
        PROVE  TypeOK'
    <2>1. CASE Abandoned(c)
      BY <1>5, <2>1 DEF TakeOver
    <2>2. CASE ~Abandoned(c)
      BY <1>5, <2>2 DEF TakeOver
    <2>. QED
      BY <2>1, <2>2
  <1>6. ASSUME NEW c \in Calls, Resume(c)
        PROVE  TypeOK'
    <2>1. CASE Resumable(c)
      <3>1. rec' = [status |-> "in_progress", print |-> rec.print, old |-> FALSE,
                    result |-> None]
        BY <1>6, <2>1, ResumedRecord
      <3>. QED
        BY <3>1, <1>6, <2>1 DEF Resume
    <2>2. CASE ~Resumable(c)
      BY <1>6, <2>2 DEF Resume
    <2>. QED
      BY <2>1, <2>2
  <1>7. ASSUME NEW c \in Calls, ResumeReload(c)
        PROVE  TypeOK'
    BY <1>7 DEF ResumeReload
  <1>8. ASSUME NEW c \in Calls, PerformEffect(c)
        PROVE  TypeOK'
    BY <1>8 DEF PerformEffect
  <1>9. ASSUME NEW c \in Calls, PerformFails(c)
        PROVE  TypeOK'
    BY <1>9 DEF PerformFails
  <1>10. ASSUME NEW c \in Calls, PerformRecovers(c)
        PROVE  TypeOK'
    <2>1. PICK e \in Calls :
             \/ made' = [made EXCEPT ![c] = e] /\ Goto(c, "complete")
             \/ (Refuse(c, "conflict") \/ Goto(c, "markFailed"))
                   /\ UNCHANGED made
      BY <1>10 DEF PerformRecovers, Already
    <2>. QED
      BY <1>10, <2>1 DEF PerformRecovers
  <1>11. ASSUME NEW c \in Calls, Complete(c)
        PROVE  TypeOK'
    <2>1. CASE Reserved(c)
      <3>1. rec' = [status |-> "completed", print |-> rec.print, old |-> rec.old,
                    result |-> made[c]]
        BY <1>11, <2>1, CompletedRecord
      <3>. QED
        BY <3>1, <1>11, <2>1 DEF Complete
    <2>2. CASE ~Reserved(c)
      BY <1>11, <2>2 DEF Complete
    <2>. QED
      BY <2>1, <2>2
  <1>12. ASSUME NEW c \in Calls, CompleteReload(c)
        PROVE  TypeOK'
    BY <1>12 DEF CompleteReload
  <1>13. ASSUME NEW c \in Calls, MarkFailed(c)
        PROVE  TypeOK'
    BY <1>13 DEF MarkFailed
  <1>14. ASSUME NEW c \in Calls, Crash(c)
        PROVE  TypeOK'
    BY <1>14 DEF Crash
  <1>15. CASE Age
    BY <1>15 DEF Age
  <1>16. CASE Expire
    BY <1>16 DEF Expire
  <1>17. CASE UNCHANGED vars
    BY <1>17 DEF vars
  <1>. QED
    BY <1>1, <1>2, <1>3, <1>4, <1>5, <1>6, <1>7, <1>8, <1>9, <1>10, <1>11, <1>12, <1>13, <1>14, <1>15, <1>16, <1>17 DEF Next, Continue

(* While the record does not expire, every step preserves RecordInv.       *)
LEMMA RecordStep ==
    ASSUME RecordInv, [Next]_vars, ~MayExpire
    PROVE  RecordInv'
  <1>. USE StoreAssumption DEF RecordInv, TypeOK, NothingBeforeReservation,
           PerformersAgree, CompletersMadeIt, CompletedIsBacked,
           AnswersFromRecord
  <1>0. TypeOK'
    BY TypeStep
  <1>1. ASSUME NEW c \in Calls, NEW f \in Prints, Reserve(c, f)
        PROVE  RecordInv'
    <2>1. CASE rec.status = "absent"
      BY <1>0, <1>1, <2>1 DEF Reserve
    <2>2. CASE ~rec.status = "absent"
      BY <1>0, <1>1, <2>2 DEF Reserve
    <2>. QED
      BY <2>1, <2>2
  <1>2. ASSUME NEW c \in Calls, Load(c)
        PROVE  RecordInv'
    BY <1>0, <1>2 DEF Load, Foreign, Mine, Stale, Reserved, Resumable
  <1>3. ASSUME NEW c \in Calls, Poll(c)
        PROVE  RecordInv'
    BY <1>0, <1>3 DEF Poll, Foreign, Mine, Resumable, Abandoned, Stale
  <1>4. ASSUME NEW c \in Calls, GiveUp(c)
        PROVE  RecordInv'
    BY <1>0, <1>4 DEF GiveUp
  <1>5. ASSUME NEW c \in Calls, TakeOver(c)
        PROVE  RecordInv'
    BY <1>0, <1>5 DEF TakeOver, Mine, Abandoned, Stale
  <1>6. ASSUME NEW c \in Calls, Resume(c)
        PROVE  RecordInv'
    <2>1. CASE Resumable(c)
      <3>1. rec' = [status |-> "in_progress", print |-> rec.print, old |-> FALSE,
                    result |-> None]
        BY <1>6, <2>1, ResumedRecord
      <3>. QED
        BY <3>1, <1>0, <1>6, <2>1 DEF Resume, Mine, Resumable
    <2>2. CASE ~Resumable(c)
      BY <1>0, <1>6, <2>2 DEF Resume, Mine, Resumable
    <2>. QED
      BY <2>1, <2>2
  <1>7. ASSUME NEW c \in Calls, ResumeReload(c)
        PROVE  RecordInv'
    BY <1>0, <1>7 DEF ResumeReload, Foreign, Mine
  <1>8. ASSUME NEW c \in Calls, PerformEffect(c)
        PROVE  RecordInv'
    BY <1>0, <1>8 DEF PerformEffect, Already
  <1>9. ASSUME NEW c \in Calls, PerformFails(c)
        PROVE  RecordInv'
    BY <1>0, <1>9 DEF PerformFails
  <1>10. ASSUME NEW c \in Calls, PerformRecovers(c)
        PROVE  RecordInv'
    <2>1. PICK e \in effects :
             \/ made' = [made EXCEPT ![c] = e] /\ Goto(c, "complete")
             \/ (Refuse(c, "conflict") \/ Goto(c, "markFailed"))
                   /\ UNCHANGED made
      BY <1>10 DEF PerformRecovers, Already
    <2>2. pc[c] = "perform" /\ UNCHANGED <<rec, print, effects>>
      BY <1>10 DEF PerformRecovers
    <2>. QED
      BY <1>0, <2>1, <2>2
  <1>11. ASSUME NEW c \in Calls, Complete(c)
        PROVE  RecordInv'
    <2>1. CASE Reserved(c)
      <3>1. rec' = [status |-> "completed", print |-> rec.print, old |-> rec.old,
                    result |-> made[c]]
        BY <1>11, <2>1, CompletedRecord
      <3>. QED
        BY <3>1, <1>0, <1>11, <2>1 DEF Complete, Mine, Reserved
    <2>2. CASE ~Reserved(c)
      BY <1>0, <1>11, <2>2 DEF Complete, Mine, Reserved
    <2>. QED
      BY <2>1, <2>2
  <1>12. ASSUME NEW c \in Calls, CompleteReload(c)
        PROVE  RecordInv'
    BY <1>0, <1>12 DEF CompleteReload, Mine
  <1>13. ASSUME NEW c \in Calls, MarkFailed(c)
        PROVE  RecordInv'
    BY <1>0, <1>13 DEF MarkFailed, Reserved, Mine
  <1>14. ASSUME NEW c \in Calls, Crash(c)
        PROVE  RecordInv'
    BY <1>0, <1>14 DEF Crash
  <1>15. CASE Age
    BY <1>0, <1>15 DEF Age
  <1>16. CASE Expire
    BY <1>16 DEF Expire
  <1>17. CASE UNCHANGED vars
    BY <1>0, <1>17 DEF vars
  <1>. QED
    BY <1>1, <1>2, <1>3, <1>4, <1>5, <1>6, <1>7, <1>8, <1>9, <1>10, <1>11, <1>12, <1>13, <1>14, <1>15, <1>16, <1>17 DEF Next, Continue

(* While calls are prompt too, every step preserves HolderInv.             *)
LEMMA HolderStep ==
    ASSUME HolderInv, [Next]_vars, ~MayExpire, Prompt
    PROVE  HolderInv'
  <1>. USE StoreAssumption DEF HolderInv, TypeOK, OneHolder, EffectsAreLate,
           CleanIsBacked, CleanIsUnique, Clean
  <1>0. RecordInv /\ RecordInv' /\ TypeOK /\ TypeOK'
    BY RecordStep DEF RecordInv
  <1>00. /\ NothingBeforeReservation
        /\ PerformersAgree
        /\ AnswersFromRecord
    BY <1>0 DEF RecordInv
  <1>1. ASSUME NEW c \in Calls, NEW f \in Prints, Reserve(c, f)
        PROVE  HolderInv'
    <2>1. CASE rec.status = "absent"
      BY <1>0, <1>00, <1>1, <2>1 DEF Reserve, NothingBeforeReservation
    <2>2. CASE ~(rec.status = "absent")
      BY <1>0, <1>00, <1>1, <2>2 DEF Reserve, PerformersAgree
    <2>. QED
      BY <2>1, <2>2
  <1>2. ASSUME NEW c \in Calls, Load(c)
        PROVE  HolderInv'
    BY <1>0, <1>00, <1>2 DEF Load, Foreign, Mine, Stale, Reserved, Resumable
  <1>3. ASSUME NEW c \in Calls, Poll(c)
        PROVE  HolderInv'
    BY <1>0, <1>00, <1>3 DEF Poll, Foreign, Mine, Resumable, Abandoned, Stale
  <1>4. ASSUME NEW c \in Calls, GiveUp(c)
        PROVE  HolderInv'
    BY <1>0, <1>00, <1>4 DEF GiveUp
  <1>5. ASSUME NEW c \in Calls, TakeOver(c)
        PROVE  HolderInv'
    <2>1. CASE Abandoned(c)
      BY <1>0, <1>5, <2>1 DEF TakeOver, Stale, Abandoned, Resumable, RecordInv
    <2>2. CASE ~Abandoned(c)
      BY <1>0, <1>5, <2>2 DEF TakeOver
    <2>. QED
      BY <2>1, <2>2
  <1>6. ASSUME NEW c \in Calls, Resume(c)
        PROVE  HolderInv'
    <2>1. CASE Resumable(c)
      <3>1. rec' = [status |-> "in_progress", print |-> rec.print, old |-> FALSE,
                    result |-> None]
        BY <1>0, <1>6, <2>1, ResumedRecord
      <3>2. pc' = [pc EXCEPT ![c] = "perform"] /\ UNCHANGED <<ans, effects>>
        BY <1>6, <2>1 DEF Resume
      <3>3. rec.status = "failed" /\ pc[c] \in {"resume", "waitResume"}
        BY <1>6, <2>1 DEF Resume, Resumable
      <3>. QED
        BY <1>0, <3>1, <3>2, <3>3
    <2>2. CASE ~Resumable(c)
      BY <1>0, <1>6, <2>2 DEF Resume
    <2>. QED
      BY <2>1, <2>2
  <1>7. ASSUME NEW c \in Calls, ResumeReload(c)
        PROVE  HolderInv'
    BY <1>0, <1>00, <1>7 DEF ResumeReload, Foreign, Mine
  <1>8. ASSUME NEW c \in Calls, PerformEffect(c)
        PROVE  HolderInv'
    BY <1>0, <1>00, <1>8 DEF PerformEffect, Already
  <1>9. ASSUME NEW c \in Calls, PerformFails(c)
        PROVE  HolderInv'
    BY <1>0, <1>00, <1>9 DEF PerformFails
  <1>10. ASSUME NEW c \in Calls, PerformRecovers(c)
        PROVE  HolderInv'
    BY <1>0, <1>00, <1>10 DEF PerformRecovers, Already
  <1>11. ASSUME NEW c \in Calls, Complete(c)
        PROVE  HolderInv'
    <2>1. Reserved(c) /\ pc[c] = "complete"
      BY <1>0, <1>00, <1>11 DEF Complete, Reserved, Mine, PerformersAgree,
         NothingBeforeReservation
    <2>2. rec' = [status |-> "completed", print |-> rec.print, old |-> rec.old,
                  result |-> made[c]]
      BY <1>0, <1>11, <2>1, CompletedRecord
    <2>3. /\ pc' = [pc EXCEPT ![c] = "done"]
          /\ ans' = [ans EXCEPT ![c] = [kind |-> "performed", effect |-> made[c]]]
          /\ UNCHANGED effects
      BY <1>11, <2>1 DEF Complete
    <2>. QED
      BY <1>0, <2>1, <2>2, <2>3 DEF Reserved
  <1>12. ASSUME NEW c \in Calls, CompleteReload(c)
        PROVE  HolderInv'
    BY <1>0, <1>00, <1>12 DEF CompleteReload, Mine
  <1>13. ASSUME NEW c \in Calls, MarkFailed(c)
        PROVE  HolderInv'
    BY <1>0, <1>00, <1>13 DEF MarkFailed, Reserved, Mine
  <1>14. ASSUME NEW c \in Calls, Crash(c)
        PROVE  HolderInv'
    BY <1>0, <1>00, <1>14 DEF Crash
  <1>15. CASE Age
    BY <1>0, <1>15 DEF Age
  <1>16. CASE Expire
    BY <1>16 DEF Expire
  <1>17. CASE UNCHANGED vars
    BY <1>0, <1>17 DEF vars
  <1>. QED
    BY <1>1, <1>2, <1>3, <1>4, <1>5, <1>6, <1>7, <1>8, <1>9, <1>10, <1>11, <1>12, <1>13, <1>14, <1>15, <1>16, <1>17 DEF Next, Continue

LEMMA StartsHolder ==
    ASSUME Init
    PROVE  HolderInv
  BY StoreAssumption
  DEF Init, HolderInv, RecordInv, TypeOK, NothingBeforeReservation,
      PerformersAgree, CompletersMadeIt, CompletedIsBacked,
      AnswersFromRecord, OneHolder, EffectsAreLate, CleanIsBacked,
      CleanIsUnique, Clean

-----------------------------------------------------------------------------
(* Expiry and overruns: what holds whatever becomes of the record *)

(* The effect took place for a request with the fingerprint f.             *)
MadeFor(e, f) == e \in effects /\ print[e] = f

(* Nobody completes, stores or answers with an effect that did not take    *)
(* place for its own request.                                              *)
BackedInv ==
    /\ TypeOK
    /\ \A c \in effects : pc[c] # "new"
    /\ \A c \in Calls : pc[c] = "complete" => MadeFor(made[c], print[c])
    /\ rec.status = "completed" => MadeFor(rec.result, rec.print)
    /\ \A c \in Calls : ans[c].kind \in Settled =>
          pc[c] = "done" /\ MadeFor(ans[c].effect, print[c])

OneEffect == \A c, d \in effects : c = d

(* A step of one call: what it completes, stores and answers with decides. *)
LEMMA OneCallMoves ==
    ASSUME BackedInv, TypeOK', NEW c \in Calls, pc'[c] # "new",
           \A d \in Calls \ {c} : /\ pc'[d] = pc[d] /\ ans'[d] = ans[d]
                                  /\ made'[d] = made[d] /\ print'[d] = print[d],
           effects \subseteq effects' /\ effects' \subseteq effects \cup {c},
           pc[c] = "new" \/ print'[c] = print[c],
           pc'[c] = "complete" =>
              made'[c] \in effects' /\ print'[made'[c]] = print'[c],
           rec'.status = "completed" =>
              \/ rec.status = "completed" /\ rec'.result = rec.result
                    /\ rec'.print = rec.print
              \/ rec'.result \in effects' /\ print'[rec'.result] = rec'.print,
           ans'[c].kind \in Settled =>
              /\ pc'[c] = "done" /\ ans'[c].effect \in effects'
              /\ print'[ans'[c].effect] = print'[c]
    PROVE  BackedInv'
  <1>1. \A e \in effects : e \in effects' /\ print'[e] = print[e] /\ pc'[e] # "new"
    BY DEF BackedInv, TypeOK
  <1>2. \A e \in effects' : pc'[e] # "new"
    BY <1>1
  <1>3. ASSUME NEW d \in Calls, pc'[d] = "complete"
        PROVE  made'[d] \in effects' /\ print'[made'[d]] = print'[d]
    BY <1>1, <1>3 DEF BackedInv, MadeFor
  <1>4. ASSUME rec'.status = "completed"
        PROVE  rec'.result \in effects' /\ print'[rec'.result] = rec'.print
    BY <1>1, <1>4 DEF BackedInv, MadeFor
  <1>5. ASSUME NEW d \in Calls, ans'[d].kind \in Settled
        PROVE  /\ pc'[d] = "done" /\ ans'[d].effect \in effects'
               /\ print'[ans'[d].effect] = print'[d]
    BY <1>1, <1>5 DEF BackedInv, MadeFor
  <1>. QED
    BY <1>2, <1>3, <1>4, <1>5 DEF BackedInv, MadeFor

(* A step that only reads the record: a result it answers with is replayed *)
(* from a completed record with the call's fingerprint.                    *)
LEMMA OneCallReads ==
    ASSUME BackedInv, TypeOK', NEW c \in Calls, Reads,
           pc[c] \notin {"new", "done"},
           \/ \E stage \in Stage \ {"new", "complete"} : Goto(c, stage)
           \/ \E kind \in AnswerKind \ Settled : Refuse(c, kind)
           \/ Mine(c) /\ rec.status = "completed" /\ Replay(c)
    PROVE  BackedInv'
  <1>. USE DEF TypeOK
  <1>1. \A d \in Calls \ {c} : pc'[d] = pc[d] /\ ans'[d] = ans[d]
    BY DEF BackedInv
  <1>2. pc'[c] \notin {"new", "complete"}
    BY DEF BackedInv
  <1>3. CASE ans'[c].kind \notin Settled
    BY <1>1, <1>2, <1>3, OneCallMoves
  <1>4. CASE ans'[c].kind \in Settled
    <2>1. Mine(c) /\ rec.status = "completed" /\ Replay(c)
      BY <1>4 DEF BackedInv
    <2>2. /\ ans'[c].effect = rec.result /\ pc'[c] = "done"
          /\ MadeFor(rec.result, print[c])
      BY <2>1 DEF BackedInv, Mine
    <2>. QED
      BY <1>1, <1>2, <2>2, OneCallMoves DEF MadeFor
  <1>. QED
    BY <1>3, <1>4

(* A step that moves the record and its call, and answers with no result.  *)
LEMMA OneCallWrites ==
    ASSUME BackedInv, TypeOK', NEW c \in Calls, pc[c] \notin {"new", "done"},
           UNCHANGED <<print, made, effects>>,
           rec' = rec \/ rec'.status # "completed",
           \/ \E stage \in Stage \ {"new", "complete"} : Goto(c, stage)
           \/ \E kind \in AnswerKind \ Settled : Refuse(c, kind)
    PROVE  BackedInv'
  <1>1. /\ \A d \in Calls \ {c} : pc'[d] = pc[d] /\ ans'[d] = ans[d]
        /\ pc'[c] \notin {"new", "complete"} /\ ans'[c].kind \notin Settled
    BY DEF BackedInv, TypeOK
  <1>. QED
    BY <1>1, OneCallMoves

LEMMA BackedStep ==
    ASSUME BackedInv, [Next]_vars
    PROVE  BackedInv'
  <1>. USE StoreAssumption DEF TypeOK
  <1>0. TypeOK'
    BY TypeStep DEF BackedInv
  <1>1. ASSUME NEW c \in Calls, NEW f \in Prints, Reserve(c, f)
        PROVE  BackedInv'
    <2>1. /\ \A d \in Calls \ {c} : /\ pc'[d] = pc[d] /\ print'[d] = print[d]
          /\ pc'[c] \in {"perform", "load"} /\ pc[c] = "new"
          /\ UNCHANGED <<ans, made, effects>>
          /\ rec' = rec \/ rec'.status # "completed"
      BY <1>1 DEF Reserve, BackedInv
    <2>2. ans'[c].kind \notin Settled
      BY <2>1 DEF BackedInv
    <2>. QED
      BY <1>0, <2>1, <2>2, OneCallMoves
  <1>2. ASSUME NEW c \in Calls, Load(c)
        PROVE  BackedInv'
    BY <1>0, <1>2, OneCallReads DEF Load
  <1>3. ASSUME NEW c \in Calls, Poll(c)
        PROVE  BackedInv'
    BY <1>0, <1>3, OneCallReads DEF Poll
  <1>4. ASSUME NEW c \in Calls, GiveUp(c)
        PROVE  BackedInv'
    BY <1>0, <1>4, OneCallReads DEF GiveUp
  <1>5. ASSUME NEW c \in Calls, TakeOver(c)
        PROVE  BackedInv'
    <2>1. rec' = rec \/ rec'.status # "completed"
      BY <1>5 DEF TakeOver, Abandoned, Stale, BackedInv
    <2>. QED
      BY <1>0, <1>5, <2>1, OneCallWrites DEF TakeOver
  <1>6. ASSUME NEW c \in Calls, Resume(c)
        PROVE  BackedInv'
    <2>1. rec' = rec \/ rec'.status # "completed"
      BY <1>6, ResumedRecord DEF Resume, BackedInv
    <2>. QED
      BY <1>0, <1>6, <2>1, OneCallWrites DEF Resume
  <1>7. ASSUME NEW c \in Calls, ResumeReload(c)
        PROVE  BackedInv'
    BY <1>0, <1>7, OneCallReads DEF ResumeReload
  <1>8. ASSUME NEW c \in Calls, PerformEffect(c)
        PROVE  BackedInv'
    <2>1. /\ pc[c] = "perform" /\ pc'[c] \in {"complete", "markFailed"}
          /\ made' = [made EXCEPT ![c] = c] /\ effects' = effects \cup {c}
          /\ UNCHANGED <<rec, print, ans>>
          /\ \A d \in Calls \ {c} : pc'[d] = pc[d]
      BY <1>8 DEF PerformEffect, BackedInv
    <2>2. ans'[c].kind \notin Settled
      BY <2>1 DEF BackedInv
    <2>3. /\ made'[c] = c
          /\ \A d \in Calls \ {c} : made'[d] = made[d]
      BY <2>1 DEF BackedInv
    <2>. QED
      BY <1>0, <2>1, <2>2, <2>3, OneCallMoves
  <1>9. ASSUME NEW c \in Calls, PerformFails(c)
        PROVE  BackedInv'
    BY <1>0, <1>9, OneCallReads DEF PerformFails
  <1>10. ASSUME NEW c \in Calls, PerformRecovers(c)
         PROVE  BackedInv'
    <2>1. pc[c] = "perform" /\ UNCHANGED <<rec, print, effects>>
      BY <1>10 DEF PerformRecovers
    <2>2. CASE \E e \in effects : /\ print[e] = print[c]
                                  /\ made' = [made EXCEPT ![c] = e]
                                  /\ Goto(c, "complete")
      <3>1. /\ pc'[c] = "complete" /\ ans' = ans
            /\ made'[c] \in effects /\ print[made'[c]] = print[c]
            /\ \A d \in Calls \ {c} : pc'[d] = pc[d] /\ made'[d] = made[d]
        BY <2>2 DEF BackedInv
      <3>2. ans'[c].kind \notin Settled
        BY <2>1, <3>1 DEF BackedInv
      <3>. QED
        BY <1>0, <2>1, <3>1, <3>2, OneCallMoves
    <2>3. CASE UNCHANGED made /\ (Refuse(c, "conflict") \/ Goto(c, "markFailed"))
      BY <1>0, <2>1, <2>3, OneCallReads
    <2>. QED
      BY <1>10, <2>2, <2>3 DEF PerformRecovers, Already
  <1>11. ASSUME NEW c \in Calls, Complete(c)
         PROVE  BackedInv'
    <2>1. pc[c] = "complete" /\ UNCHANGED <<print, made, effects>>
      BY <1>11 DEF Complete
    <2>2. CASE Reserved(c)
      <3>1. rec' = [status |-> "completed", print |-> rec.print,
                    old |-> rec.old, result |-> made[c]]
        BY <1>11, <2>2, CompletedRecord DEF BackedInv
      <3>2. rec.print = print[c] /\ MadeFor(made[c], print[c])
        BY <2>1, <2>2 DEF Reserved, Mine, BackedInv
      <3>3. /\ pc'[c] = "done" /\ ans'[c].effect = made[c]
            /\ \A d \in Calls \ {c} : pc'[d] = pc[d] /\ ans'[d] = ans[d]
        BY <1>11, <2>2 DEF Complete, BackedInv
      <3>. QED
        BY <1>0, <2>1, <3>1, <3>2, <3>3, OneCallMoves DEF MadeFor
    <2>3. CASE ~Reserved(c)
      BY <1>0, <1>11, <2>1, <2>3, OneCallReads DEF Complete
    <2>. QED
      BY <2>2, <2>3
  <1>12. ASSUME NEW c \in Calls, CompleteReload(c)
         PROVE  BackedInv'
    BY <1>0, <1>12, OneCallReads DEF CompleteReload
  <1>13. ASSUME NEW c \in Calls, MarkFailed(c)
         PROVE  BackedInv'
    <2>1. rec' = rec \/ rec'.status # "completed"
      BY <1>13 DEF MarkFailed, BackedInv
    <2>. QED
      BY <1>0, <1>13, <2>1, OneCallWrites DEF MarkFailed
  <1>14. ASSUME NEW c \in Calls, Crash(c)
         PROVE  BackedInv'
    BY <1>0, <1>14, OneCallReads DEF Crash
  <1>15. CASE Age
    BY <1>0, <1>15 DEF Age, BackedInv, MadeFor
  <1>16. CASE Expire
    BY <1>0, <1>16 DEF Expire, BackedInv, MadeFor
  <1>17. CASE UNCHANGED vars
    BY <1>0, <1>17 DEF vars, BackedInv, MadeFor
  <1>. QED
    BY <1>1, <1>2, <1>3, <1>4, <1>5, <1>6, <1>7, <1>8, <1>9, <1>10, <1>11,
       <1>12, <1>13, <1>14, <1>15, <1>16, <1>17 DEF Next, Continue

(* A replay-safe command meets the effect that was made before.            *)
LEMMA OneEffectStep ==
    ASSUME ReplaySafe, OneEffect, [Next]_vars
    PROVE  OneEffect'
  <1>1. ASSUME NEW c \in Calls, PerformEffect(c)
        PROVE  OneEffect'
    BY <1>1 DEF PerformEffect, Already, OneEffect
  <1>2. CASE UNCHANGED effects
    BY <1>2 DEF OneEffect
  <1>. QED
    BY <1>1, <1>2
       DEF Next, Continue, vars, Reserve, Load, Poll, GiveUp, TakeOver, Resume,
           ResumeReload, PerformFails, PerformRecovers, Complete,
           CompleteReload, MarkFailed, Crash, Age, Expire

-----------------------------------------------------------------------------
(* The theorems *)

(* The record and every call's memory stay in their types, with expiry,    *)
(* crashes, failures and overlong performs.                                *)
THEOREM StoreTypeCorrect ==
    Spec => []TypeOK
  <1>1. Init => TypeOK
    BY StartsHolder DEF HolderInv, RecordInv
  <1>2. TypeOK /\ [Next]_vars => TypeOK'
    BY TypeStep
  <1>. QED
    BY <1>1, <1>2, PTL DEF Spec

(* While the record is retained, all callers that are given a result are   *)
(* given the same one, of an effect that took place for the fingerprint    *)
(* they all carry - however many calls crash, fail or overrun.             *)
THEOREM OneResultPerKey ==
    ASSUME ~MayExpire
    PROVE  Spec => [](AnswersAgree /\ OneFingerprint /\ CompletionIsPerformed)
  <1>1. Init => RecordInv
    BY StartsHolder DEF HolderInv
  <1>2. RecordInv /\ [Next]_vars => RecordInv'
    BY RecordStep
  <1>3. RecordInv => AnswersAgree /\ OneFingerprint /\ CompletionIsPerformed
    <2>. SUFFICES ASSUME RecordInv
                  PROVE  AnswersAgree /\ OneFingerprint /\ CompletionIsPerformed
      OBVIOUS
    <2>. USE DEF RecordInv, PerformersAgree, CompletedIsBacked,
                 AnswersFromRecord
    <2>1. AnswersAgree
      BY DEF AnswersAgree
    <2>2. OneFingerprint
      BY DEF OneFingerprint
    <2>3. CompletionIsPerformed
      BY DEF CompletionIsPerformed
    <2>. QED
      BY <2>1, <2>2, <2>3
  <1>. QED
    BY <1>1, <1>2, <1>3, PTL DEF Spec

(* While, in addition, no perform outlasts staleMs, a second effect of a   *)
(* key always has a crash or a thrown error to account for it.             *)
THEOREM DuplicatesAreAccounted ==
    ASSUME ~MayExpire, Prompt
    PROVE  Spec => []EffectsAreAccounted
  <1>1. Init => HolderInv
    BY StartsHolder
  <1>2. HolderInv /\ [Next]_vars => HolderInv'
    BY HolderStep
  <1>3. HolderInv => EffectsAreAccounted
    BY DEF HolderInv, CleanIsUnique, Clean, EffectsAreAccounted
  <1>. QED
    BY <1>1, <1>2, <1>3, PTL DEF Spec

(* Whatever the record lives through - expiry, reuse for another request,  *)
(* performs that overrun, crashes - a completed record and every answer    *)
(* with a result name an effect that took place for that request.          *)
THEOREM CompletionsArePerformed ==
    Spec => []CompletionIsPerformed
  <1>1. Init => BackedInv
    BY StoreAssumption DEF Init, BackedInv, TypeOK
  <1>2. BackedInv /\ [Next]_vars => BackedInv'
    BY BackedStep
  <1>3. BackedInv => CompletionIsPerformed
    BY DEF BackedInv, MadeFor, CompletionIsPerformed
  <1>. QED
    BY <1>1, <1>2, <1>3, PTL DEF Spec

(* A command that recognises its own effect has one effect for each key    *)
(* and one request that it serves, and all results are that effect, though *)
(* the record expires under the calls and is taken over while its holder   *)
(* still performs.                                                         *)
THEOREM ReplaySafeCommands ==
    ASSUME ReplaySafe
    PROVE  Spec => [](AnswersAgree /\ OneFingerprint)
  <1>1. Init => BackedInv /\ OneEffect
    BY StoreAssumption DEF Init, BackedInv, TypeOK, OneEffect
  <1>2. BackedInv /\ OneEffect /\ [Next]_vars => BackedInv' /\ OneEffect'
    BY BackedStep, OneEffectStep
  <1>3. BackedInv /\ OneEffect => AnswersAgree /\ OneFingerprint
    <2>. SUFFICES ASSUME BackedInv, OneEffect
                  PROVE  AnswersAgree /\ OneFingerprint
      OBVIOUS
    <2>1. \A c, d \in Calls :
             ans[c].kind \in Settled /\ ans[d].kind \in Settled
                => ans[c].effect = ans[d].effect
      BY DEF BackedInv, MadeFor, OneEffect
    <2>2. \A c \in Calls : c \in effects \/ ans[c].kind \in Settled
             => \E e \in effects : print[c] = print[e]
      BY DEF BackedInv, MadeFor
    <2>. QED
      BY <2>1, <2>2 DEF AnswersAgree, OneFingerprint, OneEffect
  <1>. QED
    BY <1>1, <1>2, <1>3, PTL DEF Spec
=============================================================================
