---------------------------- MODULE GbsCaseLife ----------------------------
(***************************************************************************)
(* One Business Services case after its opening: the provider prepares it, *)
(* asks the customer for actions (tasks) and closes it, the customer does  *)
(* the tasks or cancels.  Modelled from gbsCaseService.js.                 *)
(*                                                                         *)
(* Every command loads the case, decides, and then updates the case that   *)
(* is stored by then, under a filter on status and on the recordVersion    *)
(* its caller has named.                                                   *)
(***************************************************************************)
EXTENDS Naturals

CONSTANTS
    Clerks,      \* command handlers, of the provider and of the customer
    Tasks,       \* ids of tasks: publicTaskRef
    Keys,        \* the kinds of tasks of the catalogue: taskKey
    Required,    \* those that are required
    None,        \* null
    MaxCaseVersion,
    AheadCase    \* how far a caller's expectedVersion runs ahead of the load

ASSUME CLAssumption == /\ Required \subseteq Keys
                       /\ None \notin Keys \cup Tasks
                       /\ {MaxCaseVersion, AheadCase} \subseteq Nat

VARIABLES
    kase,    \* the GbsCase
    generic, \* workflowTemplateKey = generic_professional_service
    clerk,   \* the handlers: the command in progress, the case it loaded and
             \* the version its caller named
    unseen   \* history: tasks have been judged or written back from a load
             \* older than the version named with it

caseVars == <<kase, generic, clerk, unseen>>

Open      == {"open", "in_progress", "awaiting_client", "ready_for_submission"}
Terminal  == {"cancelled", "unable_to_proceed", "completed"}
Preparing == {"in_progress", "awaiting_client"}

TaskState == [key : Keys \cup {None}, st : {"none", "open", "completed"}]
CaseDoc == [status : Open \cup Terminal, ver : Nat, tasks : [Tasks -> TaskState]]
Command == {"start", "request", "ready", "unable", "complete", "cancel"}

CaseTypeOK ==
    /\ kase \in CaseDoc
    /\ generic \in BOOLEAN
    /\ clerk \in [Clerks -> [op : Command \cup {"idle", "task"}, seen : CaseDoc,
                             ver : Nat, task : Tasks \cup {None},
                             key : Keys \cup {None}]]
    /\ unseen \in BOOLEAN

NoTask == [key |-> None, st |-> "none"]

Done(tasks) == \A t \in Tasks : tasks[t].key \in Required
                                   => tasks[t].st = "completed"

NewCase == [status |-> "open", ver |-> 0, tasks |-> [t \in Tasks |-> NoTask]]
IdleClerk == [op |-> "idle", seen |-> NewCase, ver |-> 0, task |-> None,
              key |-> None]

CaseInit ==
    /\ kase = NewCase
    /\ generic \in BOOLEAN
    /\ clerk = [p \in Clerks |-> IdleClerk]
    /\ unseen = FALSE

-----------------------------------------------------------------------------
(* Definitions named Faulty... are bugs the properties must notice: each is *)
(* tried in place of the definition that follows it.                       *)

(* The tasks p decided on may be older than the version it named.          *)
NamedLater(p) == /\ clerk[p].ver # clerk[p].seen.ver
                 /\ clerk[p].op \in {"ready", "complete", "task"}

(* mutateGbsCaseRecord: compare-and-swap on the recordVersion the caller   *)
(* has named, and a filter on the status; the handler ends either way.     *)
Write(p, wins, new) ==
    /\ kase' = IF wins THEN [new EXCEPT !.ver = kase.ver + 1] ELSE kase
    /\ clerk' = [clerk EXCEPT ![p] = IdleClerk]
    /\ unseen' = (unseen \/ (wins /\ NamedLater(p)))
    /\ UNCHANGED generic
FaultyUpdate(p, from, new) == Write(p, kase.status \in from, new)
Update(p, from, new) ==
    Write(p, kase.ver = clerk[p].ver /\ kase.status \in from, new)

(* expectedVersion is what the caller says and is never compared with the  *)
(* case that was loaded.  One below the load can only fail; one above it   *)
(* meets the case if others carry it that far before the update.           *)
Claims == kase.ver .. kase.ver + AheadCase

(* The load, and the checks on what was loaded.                            *)
Load(p) ==
    /\ clerk[p].op = "idle"
    /\ kase.ver < MaxCaseVersion
    /\ \E op \in Command, key \in Keys, ver \in Claims :
         /\ kase.status \in Terminal => op = "unable"
         /\ clerk' = [clerk EXCEPT ![p] =
                [op |-> op, seen |-> kase, ver |-> ver, task |-> None,
                 key |-> IF op = "request" THEN key ELSE None]]
    /\ UNCHANGED <<kase, generic, unseen>>

LoadTask(p, t) ==
    /\ clerk[p].op = "idle"
    /\ kase.ver < MaxCaseVersion
    /\ kase.status \notin Terminal
    /\ kase.tasks[t].st = "open"
    /\ \E ver \in Claims :
         clerk' = [clerk EXCEPT ![p] = [op |-> "task", seen |-> kase, ver |-> ver,
                                        task |-> t, key |-> None]]
    /\ UNCHANGED <<kase, generic, unseen>>

StartPreparation(p) ==
    /\ clerk[p].op = "start"
    /\ Update(p, {"open"}, [kase EXCEPT !.status = "in_progress"])

(* requestCustomerAction: a second open task of the kind is refused on     *)
(* what was loaded; the new task is pushed to the stored array.            *)
RequestCustomerAction(p) ==
    LET key == clerk[p].key
        open == \E t \in Tasks : clerk[p].seen.tasks[t] = [key |-> key, st |-> "open"]
    IN /\ clerk[p].op = "request"
       /\ ~open
       /\ \E t \in Tasks :
            /\ kase.tasks[t] = NoTask
            /\ Update(p, Preparing,
                      [kase EXCEPT !.status = "awaiting_client",
                                   !.tasks[t] = [key |-> key, st |-> "open"]])

(* markReadyForSubmission.  Its preflight asks for accepted documents, the *)
(* provider's authority and the pack, which belong to other components,    *)
(* and for what it has loaded of the tasks.                                *)
MarkReady(p) ==
    /\ clerk[p].op = "ready"
    /\ clerk[p].seen.status # "open" /\ Done(clerk[p].seen.tasks)
    /\ Update(p, Preparing, [kase EXCEPT !.status = "ready_for_submission"])

MarkUnable(p) ==
    /\ clerk[p].op = "unable"
    /\ Update(p, Open, [kase EXCEPT !.status = "unable_to_proceed"])

CompleteGenericService(p) ==
    /\ clerk[p].op = "complete"
    /\ generic /\ Done(clerk[p].seen.tasks)
    /\ Update(p, Open \ {"open"}, [kase EXCEPT !.status = "completed"])

(* completeCustomerTask writes the whole array as it was loaded, with one  *)
(* task completed; the last required one resumes the preparation.          *)
CompleteTask(p) ==
    LET tasks == [clerk[p].seen.tasks EXCEPT ![clerk[p].task].st = "completed"]
        resumed == Done(tasks) /\ clerk[p].seen.status = "awaiting_client"
    IN /\ clerk[p].op = "task"
       /\ Update(p, Open,
                 [kase EXCEPT !.tasks = tasks,
                              !.status = IF resumed THEN "in_progress" ELSE @])

CancelCase(p) ==
    /\ clerk[p].op = "cancel"
    /\ Update(p, Open, [kase EXCEPT !.status = "cancelled"])

(* The command is refused, by a check on what it loaded or by a component  *)
(* it asks, and nothing is written.                                        *)
Refuse(p) ==
    /\ clerk[p].op # "idle"
    /\ clerk' = [clerk EXCEPT ![p] = IdleClerk]
    /\ UNCHANGED <<kase, generic, unseen>>

CaseStep(p) ==
    \/ Load(p) \/ \E t \in Tasks : LoadTask(p, t)
    \/ StartPreparation(p) \/ RequestCustomerAction(p) \/ MarkReady(p)
    \/ MarkUnable(p) \/ CompleteGenericService(p) \/ CompleteTask(p)
    \/ CancelCase(p) \/ Refuse(p)

CaseNext == \E p \in Clerks : CaseStep(p)

CaseSpec == CaseInit /\ [][CaseNext]_caseVars

-----------------------------------------------------------------------------
(* A case that is ready for submission, or completed, has no required task *)
(* left to do, though the check is made on an earlier read of the tasks    *)
(* and a task may be requested meanwhile.  It fails only where the check   *)
(* was made, or the tasks written back, from a load older than the version *)
(* the caller named: runProviderMutation does not compare the two.         *)
ReadyMeansDone ==
    kase.status \in {"ready_for_submission", "completed"} /\ ~unseen
        => Done(kase.tasks)

(* The arrays written from earlier reads lose no task that was requested   *)
(* meanwhile and reopen none that was completed, unless the step is that   *)
(* of a customer who named a later version than the one loaded for it.     *)
TasksAreKept ==
    [][\/ \E p \in Clerks : /\ clerk[p].op = "task" /\ NamedLater(p)
                            /\ clerk'[p].op = "idle"
       \/ \A t \in Tasks :
            /\ kase.tasks[t] # NoTask => kase'.tasks[t].key = kase.tasks[t].key
            /\ kase.tasks[t].st = "completed"
                  => kase'.tasks[t] = kase.tasks[t]]_kase
=============================================================================
