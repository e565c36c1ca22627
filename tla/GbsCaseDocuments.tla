-------------------------- MODULE GbsCaseDocuments --------------------------
(***************************************************************************)
(* One document requirement of a Business Services case: the customer      *)
(* uploads and replaces versions of the document, a pool of scan workers   *)
(* decides about each version, and the provider accepts, rejects or waives *)
(* the requirement.  Modelled from gbsCaseDocumentService.js and the       *)
(* services under hsi/.                                                    *)
(*                                                                         *)
(* Each request handler and each worker is a sequence of single database   *)
(* (or object store) operations, one action each; between two of them any  *)
(* other actor may move.  What a handler read is kept in its own record.   *)
(***************************************************************************)
EXTENDS Naturals

CONSTANTS
    Uploads,      \* the customer's upload requests; each creates one version
    Reviews,      \* the provider's requests about the requirement
    Scanners,     \* processes of gbsDocumentScanWorker.js
    None,         \* null
    MaxAttempts,  \* HSI_SCAN_MAX_ATTEMPTS
    Ahead,        \* bound: how far past the stored version a caller may name one
    MayStop       \* whether a scan worker may drop what it is doing

(* What the synchronous scanner of a plain document may answer.            *)
PlainScans == {"clean", "rejected", "failed"}
Version == [scan : PlainScans \cup {"pending"}, class : {"quarantine", "clean"}]

ASSUME CDAssumption == /\ None \notin Uploads \cup Version
                       /\ MaxAttempts \in Nat \ {0}
                       /\ Ahead \in Nat
                       /\ MayStop \in BOOLEAN

VARIABLES
    kase,       \* "open" or "terminal": isCaseTerminal(GbsCase.status)
    sensitive,  \* isHsiSensitivity(requirement.sensitivityClass), never changes
    req,        \* the GbsCaseDocumentRequirement
    version,    \* the VaultDocumentVersion an upload created, or None
    bytes,      \* the buckets that hold the version's object
    job,        \* the GbsDocumentScanJob of a version
    grant,      \* the provider's GbsCaseDocumentGrant on a version
    up,         \* the upload requests in progress
    rev,        \* the provider requests in progress
    scan        \* the scan workers

vars == <<kase, sensitive, req, version, bytes, job, grant, up, rev, scan>>

ReqStatus == {"awaiting_upload", "uploaded_pending_scan",
              "available_for_review", "accepted", "rejected", "waived"}
(* Statuses in which a first upload may (again) put a version in place.    *)
Replaceable == {"awaiting_upload", "rejected", "uploaded_pending_scan",
                "available_for_review"}
Verdicts == {"clean", "rejected"}
JobTerminal == {"clean", "rejected", "dead"}

Stored(v) == IF version[v].class = "clean" THEN "clean" ELSE "quarantine"

TypeOK ==
    /\ kase \in {"open", "terminal"}
    /\ sensitive \in BOOLEAN
    /\ req \in [status : ReqStatus, active : Uploads \cup {None},
                scan : PlainScans \cup {"none", "pending"}, ver : Nat]
    /\ version \in [Uploads -> Version \cup {None}]
    /\ bytes \in [Uploads -> SUBSET {"quarantine", "clean"}]
    /\ job \in [Uploads -> [st : {"none", "queued", "leased"} \cup JobTerminal,
                            attempt : 0 .. MaxAttempts]]
    /\ grant \in [Uploads -> {"none", "active", "revoked"}]
    /\ up \in [Uploads -> [pc : {"idle", "create", "enqueue", "attach",
                                 "revoke", "grant", "done"},
                           supersede : BOOLEAN, expected : Nat, loaded : Nat]]
    /\ rev \in [Reviews -> [pc : {"idle", "accept", "reject", "waive",
                                  "revoke", "done"},
                            seen : Uploads \cup {None}, expected : Nat]]
    /\ scan \in [Scanners -> [pc : {"idle", "scan", "persist",
                                    "promote", "label", "look", "apply",
                                    "grant", "complete"},
                              v : Uploads \cup {None}, attempt : Nat,
                              verdict : Verdicts]]

IdleUpload == [pc |-> "idle", supersede |-> FALSE, expected |-> 0, loaded |-> 0]
DoneUpload == [IdleUpload EXCEPT !.pc = "done"]
IdleReview == [pc |-> "idle", seen |-> None, expected |-> 0]
DoneReview == [IdleReview EXCEPT !.pc = "done"]
IdleScanner == [pc |-> "idle", v |-> None, attempt |-> 0,
                verdict |-> "clean"]

(* A requirement is created awaiting its upload; the synthetic sensitive   *)
(* one starts with scanStatus 'pending', a plain one 'not_configured'.     *)
Init ==
    /\ kase = "open"
    /\ sensitive \in BOOLEAN
    /\ req = [status |-> "awaiting_upload", active |-> None,
              scan |-> IF sensitive THEN "pending" ELSE "none", ver |-> 0]
    /\ version = [v \in Uploads |-> None]
    /\ bytes = [v \in Uploads |-> {}]
    /\ job = [v \in Uploads |-> [st |-> "none", attempt |-> 0]]
    /\ grant = [v \in Uploads |-> "none"]
    /\ up = [u \in Uploads |-> IdleUpload]
    /\ rev = [r \in Reviews |-> IdleReview]
    /\ scan = [s \in Scanners |-> IdleScanner]

-----------------------------------------------------------------------------
(* Single operations on the stores, used by the handlers below.            *)

(* Definitions named Faulty... are bugs the properties must notice: each is *)
(* tried in place of the definition that follows it.                       *)

(* recordVersion is left out of the filter.                                *)
FaultySwap(expected, filter, new) ==
    IF filter THEN req' = [new EXCEPT !.ver = req.ver + 1] ELSE req' = req

(* mutateRequirement: compare-and-swap on recordVersion and the filter.    *)
Swap(expected, filter, new) ==
    IF req.ver = expected /\ filter
    THEN req' = [new EXCEPT !.ver = req.ver + 1]
    ELSE req' = req

Swapped(expected, filter) == req.ver = expected /\ filter

(* The grant is inserted once; a revoked one is found and left alone.      *)
EnsureGrant(v) ==
    grant' = IF grant[v] = "none" THEN [grant EXCEPT ![v] = "active"] ELSE grant

RevokeGrants(S) ==
    grant' = [v \in Uploads |-> IF v \in S /\ grant[v] = "active"
                                THEN "revoked" ELSE grant[v]]

-----------------------------------------------------------------------------
(* The customer uploads (completeCustomerDocumentUpload) or replaces       *)
(* (supersedeCustomerDocumentUpload) the document.                         *)

(* The expectedVersion a caller may name goes to the compare-and-swap as   *)
(* it is; only the acceptance compares it with the requirement it loaded.  *)
(* recordVersion never decreases, so one behind the load only fails; one   *)
(* ahead passes when others have brought the requirement there by then.    *)
Claims == req.ver .. req.ver + Ahead

UploadLoad(u) ==
    /\ up[u].pc = "idle"
    /\ kase = "open"
    /\ \E supersede \in BOOLEAN, expected \in Claims :
         /\ supersede => req.status # "accepted"
         /\ up' = [up EXCEPT ![u] =
                     [pc |-> "create", supersede |-> supersede,
                      expected |-> expected, loaded |-> req.ver]]
    /\ UNCHANGED <<kase, sensitive, req, version, bytes, job, grant, rev, scan>>

(* The scan of the new version is not enqueued.                            *)
FaultyUploadCreate(u) ==
    /\ up[u].pc = "create"
    /\ \E result \in IF sensitive THEN {"pending"} ELSE PlainScans :
         version' = [version EXCEPT ![u] =
                       [scan |-> result,
                        class |-> IF sensitive THEN "quarantine" ELSE "clean"]]
    /\ bytes' = [bytes EXCEPT ![u] = {IF sensitive THEN "quarantine" ELSE "clean"}]
    /\ up' = [up EXCEPT ![u].pc = "attach"]
    /\ UNCHANGED <<kase, sensitive, req, job, grant, rev, scan>>

(* A sensitive version is stored encrypted in quarantine and pending; a    *)
(* plain one carries the answer of the scanner called just before.         *)
UploadCreate(u) ==
    /\ up[u].pc = "create"
    /\ \E result \in IF sensitive THEN {"pending"} ELSE PlainScans :
         version' = [version EXCEPT ![u] =
                       [scan |-> result,
                        class |-> IF sensitive THEN "quarantine" ELSE "clean"]]
    /\ bytes' = [bytes EXCEPT ![u] = {IF sensitive THEN "quarantine" ELSE "clean"}]
    /\ up' = [up EXCEPT ![u].pc = IF sensitive THEN "enqueue" ELSE "attach"]
    /\ UNCHANGED <<kase, sensitive, req, job, grant, rev, scan>>

UploadEnqueue(u) ==
    /\ up[u].pc = "enqueue"
    /\ job' = [job EXCEPT ![u].st = "queued"]
    /\ up' = [up EXCEPT ![u].pc = "attach"]
    /\ UNCHANGED <<kase, sensitive, req, version, bytes, grant, rev, scan>>

(* The requirement is pointed at the new version, under its CAS.           *)
UploadAttach(u) ==
    LET filter == up[u].supersede \/ req.status \in Replaceable
        result == version[u].scan
        status == CASE result = "clean" -> "available_for_review"
                    [] result = "rejected" -> "rejected"
                    [] OTHER -> "uploaded_pending_scan"
    IN /\ up[u].pc = "attach"
       /\ Swap(up[u].expected, filter,
               [req EXCEPT !.active = u,
                           !.scan = IF sensitive THEN "pending" ELSE result,
                           !.status = IF sensitive THEN "uploaded_pending_scan"
                                                   ELSE status])
       /\ up' = [up EXCEPT ![u] = IF Swapped(up[u].expected, filter)
                       THEN [DoneUpload EXCEPT !.pc = "revoke"] ELSE DoneUpload]
       /\ UNCHANGED <<kase, sensitive, version, bytes, job, grant, rev, scan>>

UploadRevoke(u) ==
    /\ up[u].pc = "revoke"
    /\ RevokeGrants(Uploads)
    /\ up' = [up EXCEPT ![u].pc = IF ~sensitive /\ version[u].scan = "clean"
                                  THEN "grant" ELSE "done"]
    /\ UNCHANGED <<kase, sensitive, req, version, bytes, job, rev, scan>>

(* ensureProviderGrant after a plain document that is clean.               *)
UploadGrant(u) ==
    /\ up[u].pc = "grant"
    /\ EnsureGrant(u)
    /\ up' = [up EXCEPT ![u] = DoneUpload]
    /\ UNCHANGED <<kase, sensitive, req, version, bytes, job, rev, scan>>

-----------------------------------------------------------------------------
(* The provider accepts (reviewProviderDocument), rejects                  *)
(* (rejectProviderDocument) or waives (waiveProviderDocument).             *)

(* loadCleanVersion, for the first two: the version is clean and agrees    *)
(* with the requirement that was loaded.  No requirement for a sensitive   *)
(* document is created waivable.                                           *)
CleanLoaded == /\ req.active # None
               /\ req.scan = "clean"
               /\ version[req.active].scan = "clean"

ReviewLoad(r) ==
    /\ rev[r].pc = "idle"
    /\ kase = "open"
    /\ \E kind \in {"accept", "reject", "waive"}, expected \in Claims :
         /\ IF kind = "waive" THEN ~sensitive ELSE CleanLoaded
         /\ kind = "accept" => expected = req.ver
         /\ rev' = [rev EXCEPT ![r] = [pc |-> kind, expected |-> expected,
                  seen |-> IF kind = "waive" THEN None ELSE req.active]]
    /\ UNCHANGED <<kase, sensitive, req, version, bytes, job, grant, up, scan>>

ReviewAccept(r) ==
    LET filter == /\ req.active = rev[r].seen
                  /\ req.scan = "clean"
                  /\ req.status = "available_for_review"
    IN /\ rev[r].pc = "accept"
       /\ Swap(rev[r].expected, filter, [req EXCEPT !.status = "accepted"])
       /\ rev' = [rev EXCEPT ![r] = DoneReview]
       /\ UNCHANGED <<kase, sensitive, version, bytes, job, grant, up, scan>>

ReviewReject(r) ==
    LET filter == req.active = rev[r].seen /\ req.scan = "clean"
    IN /\ rev[r].pc = "reject"
       /\ Swap(rev[r].expected, filter, [req EXCEPT !.status = "rejected"])
       /\ rev' = [rev EXCEPT ![r] = IF Swapped(rev[r].expected, filter)
                       THEN [@ EXCEPT !.pc = "revoke", !.expected = 0]
                       ELSE DoneReview]
       /\ UNCHANGED <<kase, sensitive, version, bytes, job, grant, up, scan>>

ReviewRevoke(r) ==
    /\ rev[r].pc = "revoke"
    /\ RevokeGrants({rev[r].seen})
    /\ rev' = [rev EXCEPT ![r] = DoneReview]
    /\ UNCHANGED <<kase, sensitive, req, version, bytes, job, up, scan>>

ReviewWaive(r) ==
    /\ rev[r].pc = "waive"
    /\ Swap(rev[r].expected, TRUE, [req EXCEPT !.status = "waived"])
    /\ rev' = [rev EXCEPT ![r] = DoneReview]
    /\ UNCHANGED <<kase, sensitive, version, bytes, job, grant, up, scan>>

(* The case ends in another service (cancelled, unable to proceed, done).  *)
CloseCase ==
    /\ kase = "open"
    /\ kase' = "terminal"
    /\ UNCHANGED <<sensitive, req, version, bytes, job, grant, up, rev, scan>>

-----------------------------------------------------------------------------
(* The scan workers.  One claim is one attempt, so the attempt number      *)
(* stands for leaseOwner and recordVersion in the filters of the queue.    *)

Holds(s) == LET j == job[scan[s].v]
            IN j.st = "leased" /\ j.attempt = scan[s].attempt

Goto(s, pc) == scan' = [scan EXCEPT ![s].pc = pc]

(* An overdue lease is taken over without a look at the attempts.          *)
FaultyClaim(s, v) ==
    /\ scan[s].pc = "idle"
    /\ job[v].st \in {"queued", "leased"}
    /\ job' = [job EXCEPT ![v] = [st |-> "leased", attempt |-> @.attempt + 1]]
    /\ scan' = [scan EXCEPT ![s] = [IdleScanner EXCEPT
                   !.pc = "scan", !.v = v, !.attempt = job[v].attempt + 1]]
    /\ UNCHANGED <<kase, sensitive, req, version, bytes, grant, up, rev>>

(* claimNextScanJob: queued, or leased and overdue.  A lease is overdue    *)
(* whenever its holder is slower than HSI_SCAN_LEASE_MS, or has stopped.   *)
Claim(s, v) ==
    /\ scan[s].pc = "idle"
    /\ job[v].st \in {"queued", "leased"}
    /\ job[v].attempt < MaxAttempts
    /\ job' = [job EXCEPT ![v] = [st |-> "leased", attempt |-> @.attempt + 1]]
    /\ scan' = [scan EXCEPT ![s] = [IdleScanner EXCEPT
                   !.pc = "scan", !.v = v, !.attempt = job[v].attempt + 1]]
    /\ UNCHANGED <<kase, sensitive, req, version, bytes, grant, up, rev>>

(* Decrypt the object where the version says it is, and ask the scanner.   *)
Scan(s) ==
    /\ scan[s].pc = "scan"
    /\ Stored(scan[s].v) \in bytes[scan[s].v]
    /\ \E verdict \in Verdicts :
         scan' = [scan EXCEPT ![s].pc = "persist", ![s].verdict = verdict]
    /\ UNCHANGED <<kase, sensitive, req, version, bytes, job, grant, up, rev>>

(* The last attempt queues the job again.                                  *)
FaultyGiveBack(s) ==
    /\ scan[s].pc = "scan"
    /\ IF ~Holds(s) THEN UNCHANGED job
       ELSE job' = [job EXCEPT ![scan[s].v].st = "queued"]
    /\ scan' = [scan EXCEPT ![s] = IdleScanner]
    /\ UNCHANGED <<kase, sensitive, req, version, bytes, grant, up, rev>>

(* Without the object, or without an answer, the attempt has failed:       *)
(* requeueOrFailScanJob, whose last attempt ends the job.                  *)
GiveBack(s) ==
    /\ scan[s].pc = "scan"
    /\ IF ~Holds(s) THEN UNCHANGED job
       ELSE job' = [job EXCEPT ![scan[s].v].st =
                       IF scan[s].attempt >= MaxAttempts THEN "dead" ELSE "queued"]
    /\ scan' = [scan EXCEPT ![s] = IdleScanner]
    /\ UNCHANGED <<kase, sensitive, req, version, bytes, grant, up, rev>>

(* The verdict is stored whatever the version says already.                *)
FaultyPersist(s) ==
    /\ scan[s].pc = "persist"
    /\ version' = [version EXCEPT ![scan[s].v].scan = scan[s].verdict]
    /\ Goto(s, IF scan[s].verdict = "clean" THEN "promote" ELSE "look")
    /\ UNCHANGED <<kase, sensitive, req, bytes, job, grant, up, rev>>

(* The object is promoted whatever the verdict.                            *)
FaultyPersistPromotes(s) ==
    LET v == scan[s].v IN
    /\ scan[s].pc = "persist"
    /\ IF version[v].scan = "pending"
       THEN /\ version' = [version EXCEPT ![v].scan = scan[s].verdict]
            /\ Goto(s, "promote")
       ELSE UNCHANGED version /\ Goto(s, "complete")
    /\ UNCHANGED <<kase, sensitive, req, bytes, job, grant, up, rev>>

(* persistHsiVersionVerdict: only a pending version takes a verdict; the   *)
(* worker that comes second goes straight to completing the job.           *)
Persist(s) ==
    LET v == scan[s].v IN
    /\ scan[s].pc = "persist"
    /\ IF version[v].scan = "pending"
       THEN /\ version' = [version EXCEPT ![v].scan = scan[s].verdict]
            /\ Goto(s, IF scan[s].verdict = "clean" THEN "promote" ELSE "look")
       ELSE UNCHANGED version /\ Goto(s, "complete")
    /\ UNCHANGED <<kase, sensitive, req, bytes, job, grant, up, rev>>

(* promoteHsiCiphertext: copy to the clean bucket, then delete.            *)
Promote(s) ==
    /\ scan[s].pc = "promote"
    /\ bytes' = [bytes EXCEPT ![scan[s].v] = (@ \ {"quarantine"}) \cup {"clean"}]
    /\ Goto(s, "label")
    /\ UNCHANGED <<kase, sensitive, req, version, job, grant, up, rev>>

Label(s) ==
    /\ scan[s].pc = "label"
    /\ version' = [version EXCEPT ![scan[s].v].class = "clean"]
    /\ Goto(s, "look")
    /\ UNCHANGED <<kase, sensitive, req, bytes, job, grant, up, rev>>

(* applyHsiScanOutcomeToRequirement reads the requirement of the version   *)
(* and its case.                                                           *)
Look(s) ==
    /\ scan[s].pc = "look"
    /\ IF req.active = scan[s].v /\ kase = "open"
       THEN Goto(s, "apply")
       ELSE Goto(s, "complete")
    /\ UNCHANGED <<kase, sensitive, req, version, bytes, job, grant, up, rev>>

(* The update finds the requirement by its own id, not by the version.     *)
FaultyApply(s) ==
    /\ scan[s].pc = "apply"
    /\ req' = [req EXCEPT !.scan = scan[s].verdict, !.ver = @ + 1,
                 !.status = IF scan[s].verdict = "clean"
                            THEN "available_for_review" ELSE "rejected"]
    /\ Goto(s, IF scan[s].verdict = "clean" THEN "grant" ELSE "complete")
    /\ UNCHANGED <<kase, sensitive, version, bytes, job, grant, up, rev>>

(* Then it asks whether the provider has professional authority (allowed)  *)
(* and updates.  The updates filter on the active version, not on          *)
(* recordVersion or status; what they matched is not looked at.            *)
Apply(s) == \E allowed \in BOOLEAN :
    LET open == scan[s].verdict = "clean" /\ allowed
        status == CASE open -> "available_for_review"
                    [] scan[s].verdict = "rejected" -> "rejected"
                    [] OTHER -> req.status
    IN /\ scan[s].pc = "apply"
       /\ req' = IF req.active = scan[s].v
                 THEN [req EXCEPT !.scan = scan[s].verdict, !.status = status,
                                  !.ver = @ + 1]
                 ELSE req
       /\ Goto(s, IF open THEN "grant" ELSE "complete")
       /\ UNCHANGED <<kase, sensitive, version, bytes, job, grant, up, rev>>

(* maybeGrant.                                                             *)
Grant(s) ==
    /\ scan[s].pc = "grant"
    /\ EnsureGrant(scan[s].v)
    /\ Goto(s, "complete")
    /\ UNCHANGED <<kase, sensitive, req, version, bytes, job, up, rev>>

(* completeScanJob with the worker's own verdict.                          *)
Complete(s) ==
    /\ scan[s].pc = "complete"
    /\ job' = IF Holds(s) THEN [job EXCEPT ![scan[s].v].st = scan[s].verdict]
                          ELSE job
    /\ scan' = [scan EXCEPT ![s] = IdleScanner]
    /\ UNCHANGED <<kase, sensitive, req, version, bytes, grant, up, rev>>

(* A tick ends with an error (which the loop logs) or the worker restarts; *)
(* the job stays leased.                                                   *)
ScannerStop(s) ==
    /\ MayStop
    /\ scan[s].pc # "idle"
    /\ scan' = [scan EXCEPT ![s] = IdleScanner]
    /\ UNCHANGED <<kase, sensitive, req, version, bytes, job, grant, up, rev>>

-----------------------------------------------------------------------------
UploadStep(u) == \/ UploadCreate(u) \/ UploadEnqueue(u)
                 \/ UploadAttach(u) \/ UploadRevoke(u) \/ UploadGrant(u)
ReviewStep(r) == \/ ReviewAccept(r) \/ ReviewReject(r) \/ ReviewRevoke(r)
                 \/ ReviewWaive(r)
ScanStep(s) == \/ Scan(s) \/ GiveBack(s) \/ Persist(s) \/ Promote(s) \/ Label(s)
               \/ Look(s) \/ Apply(s) \/ Grant(s) \/ Complete(s)

Next ==
    \/ \E u \in Uploads : UploadLoad(u) \/ UploadStep(u)
    \/ \E r \in Reviews : ReviewLoad(r) \/ ReviewStep(r)
    \/ \E s \in Scanners : \/ \E v \in Uploads : Claim(s, v)
                           \/ ScanStep(s) \/ ScannerStop(s)
    \/ CloseCase

Spec == Init /\ [][Next]_vars

(* The loop of a worker claims and carries on for ever; nothing is assumed *)
(* of the customer, the provider, or their handlers.                       *)
FairSpec == /\ Spec
            /\ \A s \in Scanners : /\ WF_vars(\E v \in Uploads : Claim(s, v))
                                   /\ WF_vars(ScanStep(s))

-----------------------------------------------------------------------------
(* Safety.                                                                 *)

(* A version that has been decided stays decided, whatever workers that    *)
(* lost their lease still believe (the filter of persistHsiVersionVerdict).*)
DecidedIsFinal ==
    [][\A v \in Uploads : version[v] # None /\ version[v].scan # "pending"
                            => version'[v].scan = version[v].scan]_vars

(* What the provider is shown, or has accepted, is a version found clean,  *)
(* and it is the version attached now: neither a late verdict nor a late   *)
(* review can lift a replacement that is still being scanned.  Nor was any *)
(* other version ever opened to it, whatever the order of verdict,         *)
(* authority check, replacement and rejection.                             *)
ReviewedIsClean ==
    /\ req.status \in {"available_for_review", "accepted"} \/ req.scan = "clean"
          => req.active # None /\ version[req.active].scan = "clean"
    /\ \A v \in Uploads : grant[v] # "none" => version[v].scan = "clean"

(* The upload u puts its version in place, and named a later version of    *)
(* the requirement than the one it judged.                                 *)
AttachesUnseen(u) ==
    /\ up[u].pc = "attach"
    /\ up[u].expected # up[u].loaded
    /\ req'.active = u

(* After the provider accepted a document only the provider can undo it:   *)
(* no worker reopens it, and of the uploads that started earlier none      *)
(* replaces it but one that named a version it had not loaded.             *)
AcceptedIsLocked ==
    [][req.status = "accepted"
          => \/ /\ req'.active = req.active
                /\ req'.status \in {"accepted", "rejected", "waived"}
             \/ \E u \in Uploads : AttachesUnseen(u)]_vars

(* The object of a version leaves quarantine only after a clean verdict,   *)
(* and a version labelled clean has its object in the clean bucket, so     *)
(* that a download that passes the checks of proxyBytes finds its bytes.   *)
BytesFollowVerdict ==
    sensitive =>
      \A v \in Uploads :
        /\ "clean" \in bytes[v] => version[v].scan = "clean"
        /\ version[v] # None /\ version[v].class = "clean" => "clean" \in bytes[v]

(* A sensitive version in place has a scan job: the job is created before  *)
(* the requirement points at the version, so a stop between loses neither. *)
AttachedIsQueued ==
    sensitive /\ req.active # None => job[req.active].st # "none"

-----------------------------------------------------------------------------
(* Liveness.                                                               *)

(* The last attempt of the job was dropped: no query finds the job again.  *)
Stranded(v) == /\ job[v] = [st |-> "leased", attempt |-> MaxAttempts]
               /\ \A s \in Scanners : ~(scan[s].v = v /\ Holds(s))

(* Every scan job ends, unless a worker drops its last attempt.            *)
EveryScanEnds ==
    \A v \in Uploads : job[v].st = "queued"
                          ~> job[v].st \in JobTerminal \/ Stranded(v)
=============================================================================
