------------------------- MODULE GbsCaseLifeProof --------------------------
(***************************************************************************)
(* Theorems about GbsCaseLife, for any number of handlers, tasks and kinds *)
(* of tasks, and callers naming any version.  SeenIsPast is the meaning of *)
(* recordVersion: what a handler has loaded is the stored case as long as  *)
(* the versions agree, so that the compare-and-swap turns a decision on    *)
(* the one into a decision on the other, for the handlers whose caller has *)
(* named the version they loaded.                                          *)
(***************************************************************************)
EXTENDS GbsCaseLife, TLAPS

ClerkRec == [op : Command \cup {"idle", "task"}, seen : CaseDoc, ver : Nat,
             task : Tasks \cup {None}, key : Keys \cup {None}]

SeenIsPast ==
    \A p \in Clerks : clerk[p].op # "idle" =>
        /\ clerk[p].seen.ver <= kase.ver
        /\ clerk[p].seen.ver = kase.ver => clerk[p].seen = kase

OpenTaskLoaded ==
    \A p \in Clerks : clerk[p].op = "task" =>
        clerk[p].task \in Tasks /\ clerk[p].seen.tasks[clerk[p].task].st = "open"

CaseInv == CaseTypeOK /\ SeenIsPast /\ OpenTaskLoaded /\ ReadyMeansDone

LEMMA IdleClerkType == IdleClerk \in ClerkRec /\ IdleClerk.op = "idle"
  BY DEF IdleClerk, ClerkRec, NewCase, NoTask, CaseDoc, TaskState, Open

LEMMA CaseInitInv == CaseInit => CaseInv
<1> SUFFICES ASSUME CaseInit PROVE CaseInv
  OBVIOUS
<1>1. /\ kase \in CaseDoc /\ kase.status = "open"
      /\ clerk \in [Clerks -> ClerkRec] /\ \A p \in Clerks : clerk[p].op = "idle"
  BY IdleClerkType DEF CaseInit, NewCase, NoTask, CaseDoc, TaskState, Open
<1>2. CaseTypeOK
  BY <1>1 DEF CaseInit, CaseTypeOK, ClerkRec
<1> QED
  BY <1>1, <1>2 DEF CaseInv, SeenIsPast, OpenTaskLoaded, ReadyMeansDone

-----------------------------------------------------------------------------
(* The handler may decide what it has loaded is ready.                     *)
Sighted(p) == ~unseen /\ ~NamedLater(p)

(* A handler ends with or without its update: of the new case, what the    *)
(* invariant asks is its type and, when it is ready, its tasks.            *)
LEMMA UpdateInv ==
    ASSUME CaseInv, NEW p \in Clerks, NEW from, NEW new, Update(p, from, new),
           clerk[p].op # "idle",
           new \in CaseDoc, new.ver = kase.ver,
           /\ Sighted(p) /\ (clerk[p].ver = clerk[p].seen.ver => kase = clerk[p].seen)
           /\ new.status \in {"ready_for_submission", "completed"}
           => Done(new.tasks)
    PROVE  CaseInv'
<1> DEFINE wins == kase.ver = clerk[p].ver /\ kase.status \in from
<1>1. kase \in CaseDoc /\ clerk \in [Clerks -> ClerkRec] /\ unseen \in BOOLEAN
  BY DEF CaseInv, CaseTypeOK, ClerkRec
<1>2. /\ kase' = IF wins THEN [new EXCEPT !.ver = kase.ver + 1] ELSE kase
      /\ clerk' = [clerk EXCEPT ![p] = IdleClerk]
      /\ unseen' = (unseen \/ (wins /\ NamedLater(p)))
      /\ generic' = generic
  BY DEF Update, Write
<1> HIDE DEF wins
<1>3. /\ wins => /\ kase'.ver = kase.ver + 1
                 /\ kase'.status = new.status /\ kase'.tasks = new.tasks
      /\ kase' \in CaseDoc
  BY <1>1, <1>2 DEF CaseDoc
<1>4. unseen' \in BOOLEAN /\ (unseen => unseen')
  BY <1>1, <1>2
<1>5. /\ clerk' \in [Clerks -> ClerkRec]
      /\ \A q \in Clerks : clerk'[q].op # "idle" => q # p /\ clerk'[q] = clerk[q]
  BY <1>1, <1>2, IdleClerkType
<1>6. CaseTypeOK'
  BY <1>2, <1>3, <1>4, <1>5 DEF CaseInv, CaseTypeOK, ClerkRec
<1>7. SeenIsPast'
  <2> SUFFICES ASSUME NEW q \in Clerks, clerk'[q].op # "idle"
               PROVE  /\ clerk'[q].seen.ver <= kase'.ver
                      /\ clerk'[q].seen.ver = kase'.ver => clerk'[q].seen = kase'
    BY DEF SeenIsPast
  <2>1. /\ clerk'[q] = clerk[q] /\ clerk[q].op # "idle"
        /\ clerk[q].seen.ver \in Nat /\ kase.ver \in Nat
    BY <1>1, <1>5 DEF ClerkRec, CaseDoc
  <2>2. /\ clerk[q].seen.ver <= kase.ver
        /\ clerk[q].seen.ver = kase.ver => clerk[q].seen = kase
    BY <2>1 DEF CaseInv, SeenIsPast
  <2> QED
    BY <1>2, <1>3, <2>1, <2>2
<1>8. OpenTaskLoaded'
  BY <1>5 DEF CaseInv, OpenTaskLoaded
<1>9. ReadyMeansDone'
  <2>1. CASE ~wins
    BY <1>2, <1>4, <2>1 DEF CaseInv, ReadyMeansDone, Done
  <2>2. CASE wins
    <3> SUFFICES ASSUME ~unseen',
                        new.status \in {"ready_for_submission", "completed"}
                 PROVE  Done(new.tasks)
      BY <1>3, <2>2 DEF ReadyMeansDone, Done
    <3>1. Sighted(p)
      BY <1>2, <2>2 DEF Sighted
    <3>2. clerk[p].ver = kase.ver
      BY <2>2 DEF wins
    <3>3. clerk[p].ver = clerk[p].seen.ver => kase = clerk[p].seen
      BY <3>2 DEF CaseInv, SeenIsPast
    <3> QED
      BY <3>1, <3>3
  <2> QED
    BY <2>1, <2>2
<1> QED
  BY <1>6, <1>7, <1>8, <1>9 DEF CaseInv

(* A handler that starts or is refused leaves the case alone.              *)
LEMMA ClerkInv ==
    ASSUME CaseInv, NEW p \in Clerks,
           NEW c \in ClerkRec,
           clerk' = [clerk EXCEPT ![p] = c], UNCHANGED <<kase, generic, unseen>>,
           c.op # "idle" => c.seen = kase,
           c.op = "task" => c.task \in Tasks /\ c.seen.tasks[c.task].st = "open"
    PROVE  CaseInv'
  BY DEF CaseInv, CaseTypeOK, ClerkRec, SeenIsPast, OpenTaskLoaded,
         ReadyMeansDone, Done, CaseDoc

LEMMA CaseStepInv ==
    ASSUME CaseInv, [CaseNext]_caseVars
    PROVE  CaseInv'
<1>1. CASE UNCHANGED caseVars
  BY <1>1 DEF CaseInv, CaseTypeOK, SeenIsPast, OpenTaskLoaded, ReadyMeansDone,
              Done, caseVars
<1>2. ASSUME NEW p \in Clerks, CaseStep(p) PROVE CaseInv'
  <2>0. /\ kase \in CaseDoc /\ kase.ver \in Nat /\ clerk[p] \in ClerkRec
        /\ clerk[p].key \in Keys \cup {None} /\ clerk[p].seen \in CaseDoc
    BY DEF CaseInv, CaseTypeOK, CaseDoc, ClerkRec
  <2>a. Claims \subseteq Nat
    BY <2>0, CLAssumption DEF Claims
  <2>1. CASE Load(p)
    <3>1. PICK op \in Command, key \in Keys, ver \in Claims :
            clerk' = [clerk EXCEPT ![p] =
                [op |-> op, seen |-> kase, ver |-> ver, task |-> None,
                 key |-> IF op = "request" THEN key ELSE None]]
      BY <2>1 DEF Load
    <3> DEFINE c == [op |-> op, seen |-> kase, ver |-> ver, task |-> None,
                     key |-> IF op = "request" THEN key ELSE None]
    <3>2. c \in ClerkRec /\ c.seen = kase /\ c.op # "task"
      BY <2>0, <2>a DEF ClerkRec, Command
    <3>3. UNCHANGED <<kase, generic, unseen>> /\ clerk' = [clerk EXCEPT ![p] = c]
      BY <2>1, <3>1 DEF Load
    <3> HIDE DEF c
    <3> QED
      BY <3>2, <3>3, ClerkInv
  <2>2. ASSUME NEW t \in Tasks, LoadTask(p, t) PROVE CaseInv'
    <3>1. PICK ver \in Claims :
            clerk' = [clerk EXCEPT ![p] = [op |-> "task", seen |-> kase,
                                           ver |-> ver, task |-> t, key |-> None]]
      BY <2>2 DEF LoadTask
    <3> DEFINE c == [op |-> "task", seen |-> kase, ver |-> ver, task |-> t,
                     key |-> None]
    <3>2. /\ c \in ClerkRec /\ c.seen = kase /\ c.task = t
          /\ kase.tasks[t].st = "open"
      BY <2>0, <2>2, <2>a DEF ClerkRec, LoadTask
    <3>3. UNCHANGED <<kase, generic, unseen>> /\ clerk' = [clerk EXCEPT ![p] = c]
      BY <2>2, <3>1 DEF LoadTask
    <3> HIDE DEF c
    <3> QED
      BY <3>2, <3>3, ClerkInv
  <2>3. CASE StartPreparation(p)
    <3> DEFINE new == [kase EXCEPT !.status = "in_progress"]
    <3>1. new \in CaseDoc /\ new.ver = kase.ver /\ new.status = "in_progress"
      BY <2>0 DEF CaseDoc, Open
    <3> HIDE DEF new
    <3>2. Update(p, {"open"}, new) /\ clerk[p].op # "idle"
      BY <2>3 DEF StartPreparation, new
    <3> QED
      BY <3>1, <3>2, UpdateInv
  <2>4. CASE RequestCustomerAction(p)
    <3>1. PICK t \in Tasks :
            Update(p, Preparing,
                   [kase EXCEPT !.status = "awaiting_client",
                                !.tasks[t] = [key |-> clerk[p].key, st |-> "open"]])
      BY <2>4 DEF RequestCustomerAction
    <3> DEFINE new == [kase EXCEPT !.status = "awaiting_client",
                          !.tasks[t] = [key |-> clerk[p].key, st |-> "open"]]
    <3>2. new \in CaseDoc /\ new.ver = kase.ver /\ new.status = "awaiting_client"
      BY <2>0 DEF CaseDoc, TaskState, Open
    <3>3. Update(p, Preparing, new)
      BY <3>1
    <3> HIDE DEF new
    <3>4. clerk[p].op # "idle"
      BY <2>4 DEF RequestCustomerAction
    <3> QED
      BY <3>2, <3>3, <3>4, UpdateInv
  <2>5. CASE MarkReady(p)
    <3> DEFINE new == [kase EXCEPT !.status = "ready_for_submission"]
    <3>1. new \in CaseDoc /\ new.ver = kase.ver /\ new.tasks = kase.tasks
      BY <2>0 DEF CaseDoc, Open
    <3> HIDE DEF new
    <3>2. Update(p, Preparing, new) /\ clerk[p].op = "ready"
          /\ Done(clerk[p].seen.tasks)
      BY <2>5 DEF MarkReady, new
    <3>3. Sighted(p) => clerk[p].ver = clerk[p].seen.ver
      BY <3>2 DEF Sighted, NamedLater
    <3> QED
      BY <3>1, <3>2, <3>3, UpdateInv
  <2>6. CASE MarkUnable(p)
    <3> DEFINE new == [kase EXCEPT !.status = "unable_to_proceed"]
    <3>1. new \in CaseDoc /\ new.ver = kase.ver /\ new.status = "unable_to_proceed"
      BY <2>0 DEF CaseDoc, Terminal
    <3> HIDE DEF new
    <3>2. Update(p, Open, new) /\ clerk[p].op # "idle"
      BY <2>6 DEF MarkUnable, new
    <3> QED
      BY <3>1, <3>2, UpdateInv
  <2>7. CASE CompleteGenericService(p)
    <3> DEFINE new == [kase EXCEPT !.status = "completed"]
    <3>1. new \in CaseDoc /\ new.ver = kase.ver /\ new.tasks = kase.tasks
      BY <2>0 DEF CaseDoc, Terminal
    <3> HIDE DEF new
    <3>2. Update(p, Open \ {"open"}, new) /\ clerk[p].op = "complete"
          /\ Done(clerk[p].seen.tasks)
      BY <2>7 DEF CompleteGenericService, new
    <3>3. Sighted(p) => clerk[p].ver = clerk[p].seen.ver
      BY <3>2 DEF Sighted, NamedLater
    <3> QED
      BY <3>1, <3>2, <3>3, UpdateInv
  <2>8. CASE CompleteTask(p)
    <3> DEFINE t == clerk[p].task
               tasks == [clerk[p].seen.tasks EXCEPT ![t].st = "completed"]
               resumed == Done(tasks) /\ clerk[p].seen.status = "awaiting_client"
               new == [kase EXCEPT !.tasks = tasks,
                            !.status = IF resumed THEN "in_progress" ELSE @]
    <3>1. t \in Tasks /\ clerk[p].op = "task" /\ Update(p, Open, new)
      BY <2>8 DEF CompleteTask, CaseInv, OpenTaskLoaded
    <3>2. tasks \in [Tasks -> TaskState]
          /\ \A u \in Tasks : /\ tasks[u].key = clerk[p].seen.tasks[u].key
                              /\ u # t => tasks[u] = clerk[p].seen.tasks[u]
                              /\ tasks[t].st = "completed"
      BY <2>0, <3>1 DEF CaseDoc, TaskState
    <3>3. /\ new \in CaseDoc /\ new.ver = kase.ver /\ new.tasks = tasks
          /\ new.status \in {"in_progress", kase.status}
      <4> HIDE DEF tasks, resumed
      <4> QED BY <2>0, <3>2 DEF CaseDoc, Open
    <3>4. Done(clerk[p].seen.tasks) => Done(tasks)
      BY <3>2 DEF Done
    <3>5. ASSUME kase = clerk[p].seen, Sighted(p),
                 new.status \in {"ready_for_submission", "completed"}
          PROVE  Done(new.tasks)
      <4> HIDE DEF new, tasks
      <4> QED BY <3>3, <3>4, <3>5 DEF CaseInv, ReadyMeansDone, Sighted
    <3>6. Sighted(p) => clerk[p].ver = clerk[p].seen.ver
      BY <3>1 DEF Sighted, NamedLater
    <3> HIDE DEF new
    <3> QED
      BY <3>1, <3>3, <3>5, <3>6, UpdateInv
  <2>9. CASE CancelCase(p)
    <3> DEFINE new == [kase EXCEPT !.status = "cancelled"]
    <3>1. new \in CaseDoc /\ new.ver = kase.ver /\ new.status = "cancelled"
      BY <2>0 DEF CaseDoc, Terminal
    <3> HIDE DEF new
    <3>2. Update(p, Open, new) /\ clerk[p].op # "idle"
      BY <2>9 DEF CancelCase, new
    <3> QED
      BY <3>1, <3>2, UpdateInv
  <2>10. CASE Refuse(p)
    BY <2>10, IdleClerkType, ClerkInv DEF Refuse
  <2> QED
    BY <1>2, <2>1, <2>2, <2>3, <2>4, <2>5, <2>6, <2>7, <2>8, <2>9, <2>10
       DEF CaseStep
<1> QED
  BY <1>1, <1>2 DEF CaseNext

-----------------------------------------------------------------------------
(* The arrays written back keep every task, since a write that succeeds    *)
(* has been computed from the stored array, unless its caller has named a  *)
(* later version than the one loaded.                                      *)
WritesLater ==
    \E p \in Clerks : /\ clerk[p].op = "task" /\ NamedLater(p)
                      /\ clerk'[p].op = "idle"

KeepsTasks ==
    \A t \in Tasks :
        /\ kase.tasks[t] # NoTask => kase'.tasks[t].key = kase.tasks[t].key
        /\ kase.tasks[t].st = "completed" => kase'.tasks[t] = kase.tasks[t]

LEMMA CaseStepKeeps ==
    ASSUME CaseInv, [CaseNext]_caseVars
    PROVE  WritesLater \/ KeepsTasks
<1>1. CASE kase'.tasks = kase.tasks
  BY <1>1 DEF KeepsTasks
<1>2. ASSUME NEW p \in Clerks, CaseStep(p), kase'.tasks # kase.tasks
      PROVE  WritesLater \/ KeepsTasks
  <2>0. kase \in CaseDoc
    BY DEF CaseInv, CaseTypeOK
  <2>1. CASE RequestCustomerAction(p)
    <3>1. PICK t \in Tasks :
            /\ kase.tasks[t] = NoTask
            /\ Update(p, Preparing,
                   [kase EXCEPT !.status = "awaiting_client",
                                !.tasks[t] = [key |-> clerk[p].key, st |-> "open"]])
      BY <2>1 DEF RequestCustomerAction
    <3>2. kase'.tasks = [kase.tasks EXCEPT ![t] =
                           [key |-> clerk[p].key, st |-> "open"]]
      BY <1>2, <2>0, <3>1 DEF Update, Write, CaseDoc
    <3> QED
      BY <2>0, <3>1, <3>2 DEF KeepsTasks, CaseDoc, NoTask
  <2>2. CASE CompleteTask(p)
    <3> DEFINE t == clerk[p].task
    <3>0. /\ clerk[p].op = "task" /\ clerk'[p].op = "idle"
          /\ kase.ver = clerk[p].ver
      BY <1>2, <2>2, IdleClerkType
         DEF CompleteTask, Update, Write, CaseInv, CaseTypeOK
    <3> SUFFICES ASSUME clerk[p].ver = clerk[p].seen.ver
                 PROVE  KeepsTasks
      BY <3>0 DEF WritesLater, NamedLater
    <3>1. /\ clerk[p].seen = kase
          /\ kase'.tasks = [clerk[p].seen.tasks EXCEPT ![t].st = "completed"]
      BY <1>2, <2>0, <2>2, <3>0
         DEF CompleteTask, Update, Write, CaseInv, SeenIsPast, CaseDoc
    <3>2. t \in Tasks /\ kase.tasks[t].st = "open"
      BY <2>2, <3>1 DEF CompleteTask, CaseInv, OpenTaskLoaded
    <3> QED
      BY <2>0, <3>1, <3>2 DEF KeepsTasks, CaseDoc, TaskState
  <2>3. CASE \/ StartPreparation(p) \/ MarkReady(p) \/ MarkUnable(p)
             \/ CompleteGenericService(p) \/ CancelCase(p)
    BY <1>2, <2>0, <2>3
       DEF StartPreparation, MarkReady, MarkUnable, CompleteGenericService,
           CancelCase, Update, Write, CaseDoc
  <2>4. CASE Load(p) \/ (\E t \in Tasks : LoadTask(p, t)) \/ Refuse(p)
    BY <1>2, <2>4 DEF Load, LoadTask, Refuse
  <2> QED
    BY <1>2, <2>1, <2>2, <2>3, <2>4 DEF CaseStep
<1> QED
  BY <1>1, <1>2 DEF CaseNext, caseVars

-----------------------------------------------------------------------------
(* The case and its handlers keep their types.                             *)
THEOREM CaseTypeCorrect == CaseSpec => []CaseTypeOK
<1>1. CaseInv => CaseTypeOK
  BY DEF CaseInv
<1> QED
  BY <1>1, CaseInitInv, CaseStepInv, PTL DEF CaseSpec

(* No case is ready for submission or completed with a required task left, *)
(* whatever is requested between the check and the update, until the first *)
(* check or write-back of an older load than the version named for it.     *)
THEOREM ReadyCasesAreDone == CaseSpec => []ReadyMeansDone
<1>1. CaseInv => ReadyMeansDone
  BY DEF CaseInv
<1> QED
  BY <1>1, CaseInitInv, CaseStepInv, PTL DEF CaseSpec

(* No handler loses a task requested while it was at work, and none undoes *)
(* what the customer has done, except in the step that writes an array     *)
(* older than the version the customer named for it.                       *)
THEOREM NoTaskIsLost == CaseSpec => TasksAreKept
<1>1. CaseInv /\ [CaseNext]_caseVars => [WritesLater \/ KeepsTasks]_kase
  BY CaseStepKeeps
<1> QED
  BY <1>1, CaseInitInv, CaseStepInv, PTL
     DEF CaseSpec, TasksAreKept, KeepsTasks, WritesLater
=============================================================================
