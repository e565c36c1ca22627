-------------------------- MODULE IdempotencyStore --------------------------
(***************************************************************************)
(* The shared idempotency store: calls of one high-value command that      *)
(* carry the same key race for one IdempotencyRecord.  The record is       *)
(* reserved by a unique insert, completed with the result of the command,  *)
(* and found by every later call of the same key.  Different keys are      *)
(* different documents, so one key is modelled.  A call runs on any API    *)
(* instance and alternates reads of the record with findOneAndUpdate.      *)
(*                                                                         *)
(* Time is the age of the record: rec.old says that createdAt is at least  *)
(* staleMs in the past.  Waiting calls may give up at any time, since the  *)
(* wait is much shorter than staleMs and both clocks are unrelated.        *)
(***************************************************************************)
EXTENDS Naturals, FiniteSets

CONSTANTS
    Calls,      \* calls of execute with this key, over all API instances
    Prints,     \* request fingerprints the calls may carry
    None,       \* absence of a fingerprint or an effect
    Prompt,     \* whether a call is never still performing after staleMs
    MayCrash,   \* whether an API instance may stop during a call
    MayFail,    \* whether perform may throw, before or after its effect
    MayExpire,  \* whether the record may outlive its retention
    ReplaySafe  \* whether perform itself recognises an effect already made

ASSUME StoreAssumption ==
    /\ None \notin Calls \cup Prints
    /\ {Prompt, MayCrash, MayFail, MayExpire, ReplaySafe} \subseteq BOOLEAN

VARIABLES
    rec,      \* the stored record
    pc,       \* [Calls -> the next database operation of the call]
    print,    \* [Calls -> the fingerprint the call carries]
    made,     \* [Calls -> the effect its perform returned]
    ans,      \* [Calls -> the answer the caller got]
    effects   \* the calls whose perform took effect: each is one side effect

vars == <<rec, pc, print, made, ans, effects>>

-----------------------------------------------------------------------------
(* Types *)

Performing == {"perform", "complete", "completeReload", "markFailed"}
Waiting    == {"wait", "waitAgain"}
Stage      == Performing \cup Waiting \cup
              {"new", "load", "takeOver", "waitTakeOver", "resume",
               "waitResume", "resumeReload", "done"}

Settled    == {"performed", "replay"}
AnswerKind == Settled \cup {"none", "conflict", "inFlight", "lost",
                            "failed", "crashed"}

Status    == {"absent", "in_progress", "completed", "failed"}
RecordDoc == [status : Status, print : Prints \cup {None}, old : BOOLEAN,
              result : Calls \cup {None}]
Answer    == [kind : AnswerKind, effect : Calls \cup {None}]

NoRecord == [status |-> "absent", print |-> None, old |-> FALSE,
             result |-> None]
NewRecord(f) == [status |-> "in_progress", print |-> f, old |-> FALSE,
                 result |-> None]

TypeOK ==
    /\ rec \in RecordDoc
    /\ pc \in [Calls -> Stage]
    /\ print \in [Calls -> Prints \cup {None}]
    /\ made \in [Calls -> Calls \cup {None}]
    /\ ans \in [Calls -> Answer]
    /\ effects \in SUBSET Calls

Init ==
    /\ rec = NoRecord
    /\ pc = [c \in Calls |-> "new"]
    /\ print = [c \in Calls |-> None]
    /\ made = [c \in Calls |-> None]
    /\ ans = [c \in Calls |-> [kind |-> "none", effect |-> None]]
    /\ effects = {}

-----------------------------------------------------------------------------
(* What a read of the record tells a call *)

(* The stored fingerprint is the call's.  The faulty form takes any.       *)
FaultyMine(c) == rec.status # "absent" /\ c \in Calls
Mine(c)       == rec.status # "absent" /\ rec.print = print[c]

Foreign(c) == rec.status # "absent" /\ ~Mine(c)

(* isStale, on a reservation that is still open.  The faulty form does not *)
(* look at the age.                                                        *)
FaultyStale == rec.status = "in_progress"
Stale       == rec.status = "in_progress" /\ rec.old

(* The filters of the three findOneAndUpdate calls.                        *)
Reserved(c)    == Mine(c) /\ rec.status = "in_progress"
Abandoned(c)   == Mine(c) /\ Stale
Resumable(c)   == Mine(c) /\ rec.status = "failed"

-----------------------------------------------------------------------------
(* How a call moves on *)

At(c, stages) == pc[c] \in stages

Goto(c, stage) ==
    /\ pc' = [pc EXCEPT ![c] = stage]
    /\ UNCHANGED ans

AnswerWith(c, kind, effect) ==
    /\ pc' = [pc EXCEPT ![c] = "done"]
    /\ ans' = [ans EXCEPT ![c] = [kind |-> kind, effect |-> effect]]

Refuse(c, kind) == AnswerWith(c, kind, None)
Replay(c)       == AnswerWith(c, "replay", rec.result)

Reads == UNCHANGED <<rec, print, made, effects>>

-----------------------------------------------------------------------------
(* execute: the reservation *)

(* model.create: the unique index lets one call insert the record, which   *)
(* then performs; the others load what is there.                           *)
Reserve(c, f) ==
    /\ At(c, {"new"})
    /\ print' = [print EXCEPT ![c] = f]
    /\ IF rec.status = "absent"
         THEN /\ rec' = NewRecord(f)
              /\ Goto(c, "perform")
         ELSE /\ Goto(c, "load")
              /\ UNCHANGED rec
    /\ UNCHANGED <<made, effects>>

(* The load after a duplicate key, and the five ways it is answered.       *)
Load(c) ==
    /\ At(c, {"load"})
    /\ \/ rec.status = "absent" /\ Refuse(c, "lost")
       \/ Foreign(c) /\ Refuse(c, "conflict")
       \/ Mine(c) /\ rec.status = "completed" /\ Replay(c)
       \/ Reserved(c) /\ ~Stale /\ Goto(c, "wait")
       \/ Reserved(c) /\ Stale /\ Goto(c, "takeOver")
       \/ Resumable(c) /\ Goto(c, "resume")
    /\ Reads

(* waitForCompletion: one poll that ends the wait.  A poll that finds a    *)
(* fresh reservation changes nothing.  The wait after a lost takeover      *)
(* (waitAgain) only replays: whatever else it finds is in flight.          *)
Poll(c) ==
    /\ At(c, Waiting)
    /\ \/ rec.status = "absent" /\ Refuse(c, "inFlight")
       \/ Foreign(c) /\ Refuse(c, "conflict")
       \/ Mine(c) /\ rec.status = "completed" /\ Replay(c)
       \/ Resumable(c) /\ At(c, {"wait"}) /\ Goto(c, "waitResume")
       \/ Abandoned(c) /\ At(c, {"wait"}) /\ Goto(c, "waitTakeOver")
       \/ (Resumable(c) \/ Abandoned(c)) /\ At(c, {"waitAgain"})
             /\ Refuse(c, "inFlight")
    /\ Reads

(* waitForCompletion: the deadline passes.  The faulty form waits forever. *)
FaultyGiveUp(c) == At(c, {}) /\ UNCHANGED vars
GiveUp(c) ==
    /\ At(c, Waiting)
    /\ Refuse(c, "inFlight")
    /\ Reads

(* tryTakeOverStale: a compare-and-swap that makes the reservation young   *)
(* again.                                                                  *)
TakeOver(c) ==
    /\ At(c, {"takeOver", "waitTakeOver"})
    /\ IF Abandoned(c)
         THEN rec' = [rec EXCEPT !.old = FALSE] /\ Goto(c, "perform")
         ELSE /\ UNCHANGED rec
              /\ IF At(c, {"takeOver"}) THEN Goto(c, "waitAgain")
                                        ELSE Refuse(c, "inFlight")
    /\ UNCHANGED <<print, made, effects>>

(* tryResumeFailed: a compare-and-swap from failed back to in progress.    *)
Resume(c) ==
    /\ At(c, {"resume", "waitResume"})
    /\ IF Resumable(c)
         THEN /\ rec' = [rec EXCEPT !.status = "in_progress", !.old = FALSE,
                                    !.result = None]
              /\ Goto(c, "perform")
         ELSE /\ UNCHANGED rec
              /\ IF At(c, {"resume"}) THEN Goto(c, "resumeReload")
                                      ELSE Refuse(c, "inFlight")
    /\ UNCHANGED <<print, made, effects>>

ResumeReload(c) ==
    /\ At(c, {"resumeReload"})
    /\ \/ Mine(c) /\ rec.status = "completed" /\ Replay(c)
       \/ Foreign(c) /\ Refuse(c, "conflict")
       \/ /\ ~Foreign(c) /\ ~(Mine(c) /\ rec.status = "completed")
          /\ Refuse(c, "inFlight")
    /\ Reads

-----------------------------------------------------------------------------
(* performAndComplete *)

(* The effects this call's perform would meet: a replay-safe command keeps *)
(* its command id under a unique index and finds the document it made.     *)
(* The faulty form is a command that recovers no duplicate.                *)
FaultyAlready(c) == IF c \in effects THEN effects ELSE {}
Already(c)       == IF ReplaySafe THEN effects ELSE {}

(* perform takes effect and returns, or throws before or after its effect. *)
PerformEffect(c) ==
    /\ At(c, {"perform"})
    /\ Already(c) = {}
    /\ effects' = effects \cup {c}
    /\ made' = [made EXCEPT ![c] = c]
    /\ \/ Goto(c, "complete")
       \/ MayFail /\ Goto(c, "markFailed")
    /\ UNCHANGED <<rec, print>>

PerformFails(c) ==
    /\ At(c, {"perform"})
    /\ MayFail
    /\ Goto(c, "markFailed")
    /\ Reads

(* The unique command id is taken: the document is returned to the same    *)
(* request; to a different one the command answers with a conflict, as the *)
(* code the store rethrows (recoverDuplicateCase) or as a code of its own  *)
(* that fails the record (recoverDuplicateCreate).  The faulty form        *)
(* returns the document without comparing the requests.                    *)
FaultyPerformRecovers(c) ==
    /\ At(c, {"perform"})
    /\ \E e \in Already(c) : made' = [made EXCEPT ![c] = e]
    /\ Goto(c, "complete")
    /\ UNCHANGED <<rec, print, effects>>
PerformRecovers(c) ==
    /\ At(c, {"perform"})
    /\ \E e \in Already(c) :
          \/ /\ print[e] = print[c]
             /\ made' = [made EXCEPT ![c] = e]
             /\ Goto(c, "complete")
          \/ /\ print[e] # print[c]
             /\ Refuse(c, "conflict") \/ Goto(c, "markFailed")
             /\ UNCHANGED made
    /\ UNCHANGED <<rec, print, effects>>

(* The update that completes the reservation, whoever holds it.            *)
Complete(c) ==
    /\ At(c, {"complete"})
    /\ IF Reserved(c)
         THEN /\ rec' = [rec EXCEPT !.status = "completed",
                                    !.result = made[c]]
              /\ AnswerWith(c, "performed", made[c])
         ELSE /\ Goto(c, "completeReload")
              /\ UNCHANGED rec
    /\ UNCHANGED <<print, made, effects>>

CompleteReload(c) ==
    /\ At(c, {"completeReload"})
    /\ IF Mine(c) /\ rec.status = "completed"
         THEN Replay(c)
         ELSE Goto(c, "markFailed")
    /\ Reads

(* The catch clause: the reservation, whoever holds it, becomes failed.    *)
MarkFailed(c) ==
    /\ At(c, {"markFailed"})
    /\ rec' = IF Reserved(c) THEN [rec EXCEPT !.status = "failed"] ELSE rec
    /\ Refuse(c, "failed")
    /\ UNCHANGED <<print, made, effects>>

-----------------------------------------------------------------------------
(* The environment *)

(* The record reaches staleMs.  Prompt rules out that it does so while a   *)
(* call that has not stopped is still performing.                          *)
Age ==
    /\ rec.status # "absent" /\ ~rec.old
    /\ Prompt => \A c \in Calls : pc[c] \notin Performing
    /\ rec' = [rec EXCEPT !.old = TRUE]
    /\ UNCHANGED <<pc, print, made, ans, effects>>

(* The TTL index removes the record.                                       *)
Expire ==
    /\ MayExpire
    /\ rec.status # "absent" /\ rec.old
    /\ rec' = NoRecord
    /\ UNCHANGED <<pc, print, made, ans, effects>>

(* The instance that runs a call stops.                                    *)
Crash(c) ==
    /\ MayCrash
    /\ pc[c] \notin {"new", "done"}
    /\ Refuse(c, "crashed")
    /\ Reads

Continue(c) ==
    \/ Load(c) \/ Poll(c) \/ GiveUp(c) \/ TakeOver(c) \/ Resume(c)
    \/ ResumeReload(c)
    \/ PerformEffect(c) \/ PerformFails(c) \/ PerformRecovers(c)
    \/ Complete(c) \/ CompleteReload(c) \/ MarkFailed(c)

Next ==
    \/ \E c \in Calls, f \in Prints : Reserve(c, f)
    \/ \E c \in Calls : Continue(c) \/ Crash(c)
    \/ Age
    \/ Expire

Spec     == Init /\ [][Next]_vars
FairSpec == Spec /\ \A c \in Calls : WF_vars(Continue(c))

-----------------------------------------------------------------------------
(* Properties *)

(* Calls of one key that are answered with a result are all given the same *)
(* one, whichever of them performed, took over, resumed or replayed:       *)
(* "one logical side effect".                                              *)
AnswersAgree ==
    \A c, d \in Calls :
        ans[c].kind \in Settled /\ ans[d].kind \in Settled
            => ans[c].effect = ans[d].effect

(* A key that was used for one request is never used to perform another    *)
(* nor to answer it: a different fingerprint meets a conflict.             *)
OneFingerprint ==
    \A c, d \in Calls :
        (c \in effects \/ ans[c].kind \in Settled)
            /\ (d \in effects \/ ans[d].kind \in Settled)
            => print[c] = print[d]

(* Recovery never invents a completion: a completed record, and every      *)
(* answer drawn from it, names an effect that took place for that request. *)
CompletionIsPerformed ==
    /\ rec.status = "completed" =>
          rec.result \in effects /\ print[rec.result] = rec.print
    /\ \A c \in Calls : ans[c].kind \in Settled =>
          ans[c].effect \in effects /\ print[ans[c].effect] = print[c]

(* While no perform outlasts staleMs, a second effect is always owed to an *)
(* earlier perform that stopped or threw after its effect: takeovers,      *)
(* resumed failures and replays never let two calls perform.               *)
EffectsAreAccounted ==
    LET Clean == {c \in effects : /\ ans[c].kind \notin {"crashed", "failed"}
                                  /\ pc[c] # "markFailed"}
    IN \A c, d \in Clean : c = d

(* Every call is answered: no wait, takeover or resume holds it forever.   *)
EveryCallAnswered ==
    \A c \in Calls : pc[c] # "new" ~> pc[c] = "done"
=============================================================================
