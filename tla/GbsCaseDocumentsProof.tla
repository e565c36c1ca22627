----------------------- MODULE GbsCaseDocumentsProof -----------------------
(***************************************************************************)
(* Theorems about GbsCaseDocuments, for any number of uploads, requests of *)
(* the provider, scan workers and attempts, with workers that may stop.    *)
(*                                                                         *)
(* DocInv is inductive.  It says of every upload how far its version, its  *)
(* job and the requirement have got, and of every worker that the verdict  *)
(* it is about to apply is the one that is stored, that nobody else is     *)
(* applying it, and that the requirement still waits for it.               *)
(***************************************************************************)
EXTENDS GbsCaseDocuments, TLAPS

Upload  == [pc : {"idle", "create", "enqueue", "attach", "revoke", "grant", "done"},
            supersede : BOOLEAN, expected : Nat, loaded : Nat]
Scanner == [pc : {"idle", "scan", "persist", "promote", "label", "look", "apply",
                  "grant", "complete"},
            v : Uploads \cup {None}, attempt : Nat, verdict : Verdicts]
Job     == [st : {"none", "queued", "leased"} \cup JobTerminal,
            attempt : 0 .. MaxAttempts]

Before   == {"idle", "create"}
Planned  == {"create", "enqueue", "attach"}
Applying == {"promote", "label", "look", "apply"}

(* How far an upload has got.  One that was let through to replace an      *)
(* unaccepted document has loaded an older requirement once it is accepted.*)
UploadOK(u, c) ==
    /\ c.pc \in Before <=> version[u] = None
    /\ job[u].st # "none" => c.pc \notin Before \cup {"enqueue"}
    /\ req.active = u => c.pc \notin {"idle"} \cup Planned
    /\ c.pc = "enqueue" => sensitive
    /\ sensitive /\ c.pc \notin Before \cup {"enqueue"} => job[u].st # "none"
    /\ c.pc = "grant" => ~sensitive /\ version[u].scan = "clean"
    /\ c.pc \in Planned =>
         /\ c.loaded <= req.ver
         /\ c.supersede /\ c.loaded = req.ver => req.status # "accepted"

VersionOK(v) ==
    /\ version[v] = None => bytes[v] = {} /\ grant[v] = "none"
    /\ job[v].st # "none" => sensitive
    /\ grant[v] # "none" => version[v].scan = "clean"
    /\ sensitive /\ "clean" \in bytes[v] => version[v].scan = "clean"
    /\ sensitive /\ version[v] # None /\ version[v].class = "clean"
         => "clean" \in bytes[v]
    /\ sensitive /\ req.active = v /\ version[v].scan = "pending"
         => req.scan = "pending"

Shown ==
    /\ \/ req.status \in {"available_for_review", "accepted"}
       \/ req.scan = "clean"
       => req.active # None /\ version[req.active].scan = "clean"
    /\ req.status = "accepted" => req.scan = "clean"

ScannerOK(c) ==
    /\ c.pc # "idle" => sensitive /\ c.v \in Uploads /\ version[c.v] # None
    /\ c.pc \in Applying \cup {"grant"} => version[c.v].scan = c.verdict
    /\ c.pc \in {"promote", "label", "grant"} => c.verdict = "clean"
    /\ c.pc = "label" => "clean" \in bytes[c.v]
    /\ c.pc \in Applying /\ req.active = c.v => req.scan = "pending"

UploadsOK  == \A u \in Uploads : UploadOK(u, up[u])
VersionsOK == \A v \in Uploads : VersionOK(v)
ScannersOK == \A s \in Scanners : ScannerOK(scan[s])

(* A verdict is applied by the worker that stored it, alone.               *)
OneApplies ==
    \A s, t \in Scanners :
        /\ scan[s].pc \in Applying /\ scan[t].pc \in Applying
        /\ scan[s].v = scan[t].v
        => s = t

DocInv == /\ TypeOK /\ UploadsOK /\ VersionsOK /\ Shown /\ ScannersOK
          /\ OneApplies

LEMMA Kinds ==
    TypeOK => /\ up \in [Uploads -> Upload] /\ scan \in [Scanners -> Scanner]
              /\ job \in [Uploads -> Job]
              /\ version \in [Uploads -> Version \cup {None}]
BY DEF TypeOK, Upload, Scanner, Job

LEMMA InitInv == Init => DocInv
<1> SUFFICES ASSUME Init PROVE DocInv
  OBVIOUS
<1>1. TypeOK
  BY CDAssumption DEF Init, TypeOK, ReqStatus, PlainScans, JobTerminal, Verdicts,
        IdleUpload, IdleReview, IdleScanner
<1>2. UploadsOK
  BY CDAssumption DEF Init, UploadsOK, UploadOK, IdleUpload, Before, Planned
<1>3. VersionsOK
  BY CDAssumption DEF Init, VersionsOK, VersionOK
<1>4. Shown
  BY DEF Init, Shown
<1>5. ScannersOK /\ OneApplies
  BY DEF Init, ScannersOK, ScannerOK, OneApplies, IdleScanner, Applying
<1> QED
  BY <1>1, <1>2, <1>3, <1>4, <1>5 DEF DocInv

-----------------------------------------------------------------------------
(* Steps by which neither the requirement nor a version changes and no     *)
(* worker moves.                                                           *)
LEMMA QuietStep ==
    ASSUME DocInv, TypeOK', UNCHANGED <<sensitive, req, version, bytes, job, scan>>,
           \A v \in Uploads : grant'[v] = "none" <=> grant[v] = "none",
           \A u \in Uploads : UploadOK(u, up'[u])
    PROVE  DocInv'
<1>1. UploadsOK'
  BY DEF UploadsOK, UploadOK
<1>2. VersionsOK'
  BY DEF DocInv, VersionsOK, VersionOK
<1>3. Shown' /\ ScannersOK' /\ OneApplies'
  BY DEF DocInv, Shown, ScannersOK, ScannerOK, OneApplies
<1> QED
  BY <1>1, <1>2, <1>3 DEF DocInv

(* Steps of the same kind in which one upload goes from one record to the  *)
(* next.                                                                   *)
LEMMA UploadStepOK ==
    ASSUME DocInv, NEW u \in Uploads, NEW c \in Upload, UploadOK(u, c),
           up' = [up EXCEPT ![u] = c],
           grant' \in [Uploads -> {"none", "active", "revoked"}],
           \A v \in Uploads : grant'[v] = "none" <=> grant[v] = "none",
           UNCHANGED <<kase, sensitive, req, version, bytes, job, rev, scan>>
    PROVE  DocInv'
<1>1. up' \in [Uploads -> Upload] /\ up'[u] = c
      /\ \A w \in Uploads : w # u => up'[w] = up[w]
  BY Kinds DEF DocInv
<1>2. TypeOK'
  BY <1>1 DEF DocInv, TypeOK, Upload
<1>3. \A w \in Uploads : UploadOK(w, up'[w])
  BY <1>1 DEF DocInv, UploadsOK
<1> QED
  BY <1>2, <1>3, QuietStep

(* A worker moves, and perhaps its job with it.                            *)
LEMMA ScannerStep ==
    ASSUME DocInv, NEW s \in Scanners, NEW c \in Scanner, ScannerOK(c),
           c.pc \in Applying => scan[s].pc \in Applying /\ c.v = scan[s].v,
           scan' = [scan EXCEPT ![s] = c],
           job' \in [Uploads -> Job],
           \A v \in Uploads : job'[v].st = "none" <=> job[v].st = "none",
           UNCHANGED <<kase, sensitive, req, version, bytes, grant, up, rev>>
    PROVE  DocInv'
<1>1. scan' \in [Scanners -> Scanner] /\ scan'[s] = c
      /\ \A t \in Scanners : t # s => scan'[t] = scan[t]
  BY Kinds DEF DocInv
<1>2. TypeOK'
  BY <1>1 DEF DocInv, TypeOK, Scanner, Job
<1>3. UploadsOK'
  BY DEF DocInv, UploadsOK, UploadOK
<1>4. VersionsOK' /\ Shown'
  BY DEF DocInv, VersionsOK, VersionOK, Shown
<1>5. ScannersOK'
  <2> SUFFICES ASSUME NEW t \in Scanners PROVE ScannerOK(scan[t])'
    BY DEF ScannersOK
  <2>1. ScannerOK(scan'[t])
    BY <1>1 DEF DocInv, ScannersOK
  <2> QED
    BY <2>1 DEF ScannerOK
<1>6. OneApplies'
  BY <1>1 DEF DocInv, OneApplies
<1> QED
  BY <1>2, <1>3, <1>4, <1>5, <1>6 DEF DocInv

(* The provider changes the status of the requirement.                     *)
LEMMA StatusStep ==
    ASSUME DocInv, NEW status \in {"accepted", "rejected", "waived"},
           status = "accepted" => req.scan = "clean",
           req' = [[req EXCEPT !.status = status] EXCEPT !.ver = req.ver + 1],
           rev' \in [Reviews -> [pc : {"idle", "accept", "reject", "waive",
                                       "revoke", "done"},
                                 seen : Uploads \cup {None}, expected : Nat]],
           UNCHANGED <<kase, sensitive, version, bytes, job, grant, up, scan>>
    PROVE  DocInv'
<1>1. req \in [status : ReqStatus, active : Uploads \cup {None},
               scan : PlainScans \cup {"none", "pending"}, ver : Nat]
  BY DEF DocInv, TypeOK
<1>2. /\ req'.status = status /\ req'.active = req.active
      /\ req'.scan = req.scan /\ req'.ver = req.ver + 1
      /\ req' \in [status : ReqStatus, active : Uploads \cup {None},
                   scan : PlainScans \cup {"none", "pending"}, ver : Nat]
  <2> DEFINE d == [req EXCEPT !.status = status]
  <2>1. /\ d.status = status /\ d.active = req.active /\ d.scan = req.scan
        /\ d.ver = req.ver
        /\ d \in [status : ReqStatus, active : Uploads \cup {None},
                 scan : PlainScans \cup {"none", "pending"}, ver : Nat]
    BY <1>1 DEF ReqStatus
  <2>2. req' = [d EXCEPT !.ver = req.ver + 1] /\ req.ver + 1 \in Nat
    BY <1>1
  <2> HIDE DEF d
  <2> QED
    BY <2>1, <2>2
<1>3. TypeOK'
  BY <1>2 DEF DocInv, TypeOK
<1>4. UploadsOK'
  <2> SUFFICES ASSUME NEW u \in Uploads PROVE UploadOK(u, up[u])'
    BY DEF UploadsOK
  <2>1. UploadOK(u, up[u]) /\ up[u].loaded \in Nat /\ req.ver \in Nat
    BY <1>1, Kinds DEF DocInv, UploadsOK, Upload
  <2> QED
    BY <1>2, <2>1 DEF UploadOK
<1>5. VersionsOK'
  <2> SUFFICES ASSUME NEW v \in Uploads PROVE VersionOK(v)'
    BY DEF VersionsOK
  <2>1. VersionOK(v)
    BY DEF DocInv, VersionsOK
  <2> QED
    BY <1>2, <2>1 DEF VersionOK
<1>6. Shown'
  BY <1>2 DEF DocInv, Shown
<1>7. ScannersOK' /\ OneApplies'
  BY <1>2 DEF DocInv, ScannersOK, ScannerOK, OneApplies
<1> QED
  BY <1>3, <1>4, <1>5, <1>6, <1>7 DEF DocInv

-----------------------------------------------------------------------------
(* The uploads.                                                            *)
LEMMA ClaimsAreVersions == DocInv => Claims \subseteq Nat
<1> SUFFICES ASSUME DocInv PROVE Claims \subseteq Nat
  OBVIOUS
<1>1. req.ver \in Nat
  BY DEF DocInv, TypeOK
<1> QED
  BY <1>1, CDAssumption DEF Claims

LEMMA UploadLoadStep ==
    ASSUME DocInv, NEW u \in Uploads, UploadLoad(u) PROVE DocInv'
<1>1. PICK supersede \in BOOLEAN, expected \in Claims :
        /\ supersede => req.status # "accepted"
        /\ up' = [up EXCEPT ![u] = [pc |-> "create", supersede |-> supersede,
                                    expected |-> expected, loaded |-> req.ver]]
  BY DEF UploadLoad
<1> DEFINE c == [pc |-> "create", supersede |-> supersede,
                 expected |-> expected, loaded |-> req.ver]
<1>2. /\ up[u].pc = "idle" /\ req.ver \in Nat
      /\ grant \in [Uploads -> {"none", "active", "revoked"}]
      /\ UNCHANGED <<kase, sensitive, req, version, bytes, job, grant, rev, scan>>
  BY DEF UploadLoad, DocInv, TypeOK
<1>3. UploadOK(u, up[u])
  BY DEF DocInv, UploadsOK
<1>4. c \in Upload
  BY <1>2, ClaimsAreVersions DEF Upload
<1>5. UploadOK(u, c)
  BY <1>1, <1>2, <1>3 DEF UploadOK, Before, Planned
<1> QED
  BY <1>1, <1>2, <1>4, <1>5, UploadStepOK

(* There was no version, so that nothing was said of one.                  *)
LEMMA UploadCreateStep ==
    ASSUME DocInv, NEW u \in Uploads, UploadCreate(u) PROVE DocInv'
<1> DEFINE pc == IF sensitive THEN "enqueue" ELSE "attach"
           class == IF sensitive THEN "quarantine" ELSE "clean"
           c == [up[u] EXCEPT !.pc = pc]
<1>1. PICK result \in IF sensitive THEN {"pending"} ELSE PlainScans :
        version' = [version EXCEPT ![u] = [scan |-> result, class |-> class]]
  BY DEF UploadCreate
<1>2. /\ up[u].pc = "create" /\ bytes' = [bytes EXCEPT ![u] = {class}]
      /\ up' = [up EXCEPT ![u] = c]
      /\ UNCHANGED <<kase, sensitive, req, job, grant, rev, scan>>
  BY DEF UploadCreate
<1>3. /\ sensitive \in BOOLEAN /\ up[u] \in Upload
      /\ bytes \in [Uploads -> SUBSET {"quarantine", "clean"}]
      /\ UploadOK(u, up[u])
  BY Kinds DEF DocInv, TypeOK, UploadsOK
<1>4. /\ version' \in [Uploads -> Version \cup {None}]
      /\ version'[u] = [scan |-> result, class |-> class] /\ version'[u] # None
      /\ \A v \in Uploads : v # u => version'[v] = version[v]
  BY <1>1, <1>3, Kinds, CDAssumption DEF DocInv, Version, PlainScans
<1>5. /\ bytes' \in [Uploads -> SUBSET {"quarantine", "clean"}]
      /\ bytes'[u] = {class} /\ \A v \in Uploads : v # u => bytes'[v] = bytes[v]
  BY <1>2, <1>3
<1>6. /\ c \in Upload /\ c.pc = pc /\ c.supersede = up[u].supersede
      /\ c.loaded = up[u].loaded
  BY <1>3 DEF Upload
<1> HIDE DEF c
<1>7. /\ up' \in [Uploads -> Upload] /\ up'[u] = c
      /\ \A v \in Uploads : v # u => up'[v] = up[v]
  BY <1>2, <1>6, Kinds DEF DocInv
<1>8. /\ version[u] = None /\ job[u].st = "none" /\ req.active # u
      /\ grant[u] = "none"
  BY <1>2, <1>3 DEF UploadOK, Before, Planned, DocInv, VersionsOK, VersionOK
<1>a. TypeOK'
  BY <1>2, <1>4, <1>5, <1>7 DEF DocInv, TypeOK, Upload
<1>b. UploadsOK'
  <2> SUFFICES ASSUME NEW w \in Uploads PROVE UploadOK(w, up[w])'
    BY DEF UploadsOK
  <2>1. CASE w = u
    <3>1. c.pc \notin Before /\ c.pc \in Planned /\ c.pc \in {"enqueue", "attach"}
      BY <1>6 DEF Before, Planned
    <3> QED
      BY <1>2, <1>3, <1>4, <1>6, <1>7, <1>8, <2>1, <3>1 DEF UploadOK, Planned
  <2>2. CASE w # u
    <3>1. UploadOK(w, up[w]) /\ up'[w] = up[w] /\ version'[w] = version[w]
      BY <1>4, <1>7, <2>2 DEF DocInv, UploadsOK
    <3> QED
      BY <1>2, <3>1 DEF UploadOK
  <2> QED
    BY <2>1, <2>2
<1>c. VersionsOK'
  <2> SUFFICES ASSUME NEW w \in Uploads PROVE VersionOK(w)'
    BY DEF VersionsOK
  <2>1. CASE w = u
    BY <1>2, <1>3, <1>4, <1>5, <1>8, <2>1 DEF VersionOK
  <2>2. CASE w # u
    <3>1. VersionOK(w) /\ bytes'[w] = bytes[w] /\ version'[w] = version[w]
      BY <1>4, <1>5, <2>2 DEF DocInv, VersionsOK
    <3> QED
      BY <1>2, <3>1 DEF VersionOK
  <2> QED
    BY <2>1, <2>2
<1>d. Shown'
  <2>1. req.active \in Uploads \cup {None}
    BY DEF DocInv, TypeOK
  <2>2. req.active # None => version'[req.active] = version[req.active]
    BY <1>4, <1>8, <2>1
  <2> QED
    BY <1>2, <2>2 DEF DocInv, Shown
<1>e. ScannersOK'
  <2> SUFFICES ASSUME NEW s \in Scanners PROVE ScannerOK(scan[s])'
    BY DEF ScannersOK
  <2>1. ScannerOK(scan[s])
    BY DEF DocInv, ScannersOK
  <2>2. CASE scan[s].pc = "idle"
    BY <1>2, <2>2 DEF ScannerOK, Applying
  <2>3. CASE scan[s].pc # "idle"
    <3>1. scan[s].v \in Uploads /\ scan[s].v # u
      BY <1>8, <2>1, <2>3 DEF ScannerOK
    <3>2. version'[scan[s].v] = version[scan[s].v]
          /\ bytes'[scan[s].v] = bytes[scan[s].v]
      BY <1>4, <1>5, <3>1
    <3> QED
      BY <1>2, <2>1, <3>2 DEF ScannerOK
  <2> QED
    BY <2>2, <2>3
<1>f. OneApplies'
  BY <1>2 DEF DocInv, OneApplies
<1> QED
  BY <1>a, <1>b, <1>c, <1>d, <1>e, <1>f DEF DocInv

LEMMA UploadEnqueueStep ==
    ASSUME DocInv, NEW u \in Uploads, UploadEnqueue(u) PROVE DocInv'
<1> DEFINE c == [up[u] EXCEPT !.pc = "attach"]
<1>1. /\ up[u].pc = "enqueue" /\ up' = [up EXCEPT ![u] = c]
      /\ job' = [job EXCEPT ![u].st = "queued"]
      /\ UNCHANGED <<kase, sensitive, req, version, bytes, grant, rev, scan>>
  BY DEF UploadEnqueue
<1>2. up[u] \in Upload /\ UploadOK(u, up[u])
  BY Kinds DEF DocInv, UploadsOK
<1>3. /\ c \in Upload /\ c.pc = "attach" /\ c.supersede = up[u].supersede
      /\ c.loaded = up[u].loaded
  BY <1>2 DEF Upload
<1> HIDE DEF c
<1>4. /\ up' \in [Uploads -> Upload] /\ up'[u] = c
      /\ \A v \in Uploads : v # u => up'[v] = up[v]
  BY <1>1, <1>3, Kinds DEF DocInv
<1>5. /\ job' \in [Uploads -> Job] /\ job'[u].st = "queued"
      /\ \A v \in Uploads : v # u => job'[v] = job[v]
  BY <1>1, Kinds DEF DocInv, Job
<1>a. TypeOK'
  BY <1>1, <1>4, <1>5 DEF DocInv, TypeOK, Upload, Job
<1>b. UploadsOK'
  <2> SUFFICES ASSUME NEW w \in Uploads PROVE UploadOK(w, up[w])'
    BY DEF UploadsOK
  <2>1. CASE w = u
    BY <1>1, <1>2, <1>3, <1>4, <1>5, <2>1 DEF UploadOK, Before, Planned
  <2>2. CASE w # u
    <3>1. UploadOK(w, up[w]) /\ up'[w] = up[w] /\ job'[w] = job[w]
      BY <1>4, <1>5, <2>2 DEF DocInv, UploadsOK
    <3> QED
      BY <1>1, <3>1 DEF UploadOK
  <2> QED
    BY <2>1, <2>2
<1>c. VersionsOK'
  <2> SUFFICES ASSUME NEW w \in Uploads PROVE VersionOK(w)'
    BY DEF VersionsOK
  <2>1. VersionOK(w) /\ (job'[w].st # "none" => sensitive)
    BY <1>1, <1>2, <1>5 DEF DocInv, VersionsOK, VersionOK, UploadOK
  <2> QED
    BY <1>1, <2>1 DEF VersionOK
<1>d. Shown' /\ ScannersOK' /\ OneApplies'
  BY <1>1 DEF DocInv, Shown, ScannersOK, ScannerOK, OneApplies
<1> QED
  BY <1>a, <1>b, <1>c, <1>d DEF DocInv

Requirement == [status : ReqStatus, active : Uploads \cup {None},
                scan : PlainScans \cup {"none", "pending"}, ver : Nat]

(* The requirement points at the new version.                              *)
LEMMA AttachedStep ==
    ASSUME DocInv, NEW u \in Uploads, up[u].pc = "attach",
           NEW d \in Requirement, d.active = u, d.ver = req.ver,
           d.status # "accepted",
           sensitive => d.scan = "pending" /\ d.status = "uploaded_pending_scan",
           \/ d.status = "available_for_review" \/ d.scan = "clean"
             => version[u].scan = "clean",
           req' = [d EXCEPT !.ver = req.ver + 1],
           up' = [up EXCEPT ![u] = [DoneUpload EXCEPT !.pc = "revoke"]],
           UNCHANGED <<kase, sensitive, version, bytes, job, grant, rev, scan>>
    PROVE  DocInv'
<1> DEFINE c == [DoneUpload EXCEPT !.pc = "revoke"]
<1>1. /\ req'.active = u /\ req'.scan = d.scan /\ req'.status = d.status
      /\ req' \in Requirement /\ req.ver \in Nat /\ req'.ver = req.ver + 1
  <2>1. req.ver \in Nat /\ req.ver + 1 \in Nat
    BY DEF DocInv, TypeOK
  <2>2. req' = [d EXCEPT !.ver = req.ver + 1]
    OBVIOUS
  <2> QED
    BY <2>1, <2>2 DEF Requirement
<1>2. up[u] \in Upload /\ UploadOK(u, up[u])
  BY Kinds DEF DocInv, UploadsOK
<1>3. c \in Upload /\ c.pc = "revoke"
  BY DEF Upload, DoneUpload, IdleUpload
<1> HIDE DEF c
<1>4. /\ up' \in [Uploads -> Upload] /\ up'[u] = c
      /\ \A v \in Uploads : v # u => up'[v] = up[v]
  BY <1>3, Kinds DEF DocInv, c
<1>5. version[u] # None /\ (sensitive => job[u].st # "none")
  BY <1>2 DEF UploadOK, Before
<1>a. TypeOK'
  BY <1>1, <1>4 DEF DocInv, TypeOK, Upload, Requirement
<1>b. UploadsOK'
  <2> SUFFICES ASSUME NEW w \in Uploads PROVE UploadOK(w, up[w])'
    BY DEF UploadsOK
  <2>1. CASE w = u
    BY <1>2, <1>3, <1>4, <1>5, <2>1 DEF UploadOK, Before, Planned
  <2>2. CASE w # u
    <3>1. UploadOK(w, up[w]) /\ up'[w] = up[w] /\ up[w].loaded \in Nat
      BY <1>4, <2>2, Kinds DEF DocInv, UploadsOK, Upload
    <3>2. up[w].pc \in Planned => up[w].loaded < req'.ver
      BY <1>1, <3>1 DEF UploadOK
    <3> QED
      BY <1>1, <2>2, <3>1, <3>2 DEF UploadOK
  <2> QED
    BY <2>1, <2>2
<1>c. VersionsOK'
  <2> SUFFICES ASSUME NEW w \in Uploads PROVE VersionOK(w)'
    BY DEF VersionsOK
  <2>1. VersionOK(w)
    BY DEF DocInv, VersionsOK
  <2> QED
    BY <1>1, <2>1 DEF VersionOK
<1>d. Shown'
  BY <1>1, <1>5, CDAssumption DEF Shown
<1>e. ScannersOK'
  <2> SUFFICES ASSUME NEW s \in Scanners PROVE ScannerOK(scan[s])'
    BY DEF ScannersOK
  <2>1. ScannerOK(scan[s])
    BY DEF DocInv, ScannersOK
  <2> QED
    BY <1>1, <2>1 DEF ScannerOK, Applying
<1>f. OneApplies'
  BY DEF DocInv, OneApplies
<1> QED
  BY <1>a, <1>b, <1>c, <1>d, <1>e, <1>f DEF DocInv

LEMMA DoneOK ==
    ASSUME DocInv, NEW u \in Uploads, up[u].pc \in {"attach", "revoke", "grant"},
           NEW pc \in {"revoke", "grant", "done"},
           pc = "grant" => ~sensitive /\ version[u].scan = "clean"
    PROVE  UploadOK(u, [up[u] EXCEPT !.pc = pc]) /\ [up[u] EXCEPT !.pc = pc] \in Upload
<1>1. up[u] \in Upload /\ UploadOK(u, up[u])
  BY Kinds DEF DocInv, UploadsOK
<1>2. [up[u] EXCEPT !.pc = pc] \in Upload /\ [up[u] EXCEPT !.pc = pc].pc = pc
  BY <1>1 DEF Upload
<1> QED
  BY <1>1, <1>2 DEF UploadOK, Before, Planned

(* An upload that is done whatever became of it.                           *)
LEMMA DroppedOK ==
    ASSUME DocInv, NEW u \in Uploads, up[u].pc = "attach"
    PROVE  UploadOK(u, DoneUpload) /\ DoneUpload \in Upload
<1>1. UploadOK(u, up[u])
  BY DEF DocInv, UploadsOK
<1>2. DoneUpload \in Upload /\ DoneUpload.pc = "done"
  BY DEF DoneUpload, IdleUpload, Upload
<1> QED
  BY <1>1, <1>2 DEF UploadOK, Before, Planned

LEMMA UploadAttachStep ==
    ASSUME DocInv, NEW u \in Uploads, UploadAttach(u) PROVE DocInv'
<1> DEFINE filter == up[u].supersede \/ req.status \in Replaceable
           result == version[u].scan
           status == CASE result = "clean" -> "available_for_review"
                       [] result = "rejected" -> "rejected"
                       [] OTHER -> "uploaded_pending_scan"
           newScan == IF sensitive THEN "pending" ELSE result
           newStatus == IF sensitive THEN "uploaded_pending_scan" ELSE status
           d == [req EXCEPT !.active = u, !.scan = newScan, !.status = newStatus]
<1>1. /\ up[u].pc = "attach"
      /\ UNCHANGED <<kase, sensitive, version, bytes, job, grant, rev, scan>>
  BY DEF UploadAttach
<1>2. CASE Swapped(up[u].expected, filter)
  <2>1. req' = [d EXCEPT !.ver = req.ver + 1]
    BY <1>2 DEF UploadAttach, Swap, Swapped
  <2>2. up' = [up EXCEPT ![u] = [DoneUpload EXCEPT !.pc = "revoke"]]
    BY <1>2 DEF UploadAttach
  <2>3. version[u] \in Version /\ req \in Requirement /\ sensitive \in BOOLEAN
    BY <1>1, Kinds DEF DocInv, TypeOK, UploadsOK, UploadOK, Before, Requirement
  <2>4. /\ newScan \in PlainScans \cup {"none", "pending"}
        /\ newStatus \in {"available_for_review", "rejected", "uploaded_pending_scan"}
        /\ newStatus = "available_for_review" \/ newScan = "clean"
             => result = "clean"
    BY <2>3 DEF Version, PlainScans
  <2> HIDE DEF newScan, newStatus, status, result
  <2>5. /\ d \in Requirement /\ d.active = u /\ d.ver = req.ver
        /\ d.scan = newScan /\ d.status = newStatus
    BY <2>3, <2>4 DEF Requirement, ReqStatus
  <2>6. sensitive => newScan = "pending" /\ newStatus = "uploaded_pending_scan"
    BY DEF newScan, newStatus
  <2>7. d.status = "available_for_review" \/ d.scan = "clean"
          => version[u].scan = "clean"
    BY <2>4, <2>5 DEF result
  <2>8. d.status # "accepted"
    BY <2>4, <2>5
  <2> HIDE DEF d
  <2> QED
    BY <1>1, <2>1, <2>2, <2>5, <2>6, <2>7, <2>8, AttachedStep
<1>3. CASE ~Swapped(up[u].expected, filter)
  <2>1. req' = req /\ up' = [up EXCEPT ![u] = DoneUpload]
    BY <1>3 DEF UploadAttach, Swap, Swapped
  <2>2. grant' \in [Uploads -> {"none", "active", "revoked"}]
        /\ \A v \in Uploads : grant'[v] = "none" <=> grant[v] = "none"
    BY <1>1 DEF DocInv, TypeOK
  <2> QED
    BY <1>1, <2>1, <2>2, DroppedOK, UploadStepOK
<1> QED
  BY <1>2, <1>3

LEMMA Revoked ==
    ASSUME DocInv, NEW S, RevokeGrants(S)
    PROVE  /\ grant' \in [Uploads -> {"none", "active", "revoked"}]
           /\ \A v \in Uploads : grant'[v] = "none" <=> grant[v] = "none"
BY DEF DocInv, TypeOK, RevokeGrants

LEMMA UploadRevokeStep ==
    ASSUME DocInv, NEW u \in Uploads, UploadRevoke(u) PROVE DocInv'
<1> DEFINE pc == IF ~sensitive /\ version[u].scan = "clean" THEN "grant" ELSE "done"
           c == [up[u] EXCEPT !.pc = pc]
<1>1. /\ up[u].pc = "revoke" /\ up' = [up EXCEPT ![u] = c] /\ RevokeGrants(Uploads)
      /\ UNCHANGED <<kase, sensitive, req, version, bytes, job, rev, scan>>
  BY DEF UploadRevoke
<1>2. UploadOK(u, c) /\ c \in Upload
  BY <1>1, DoneOK
<1> HIDE DEF c
<1> QED
  BY <1>1, <1>2, Revoked, UploadStepOK

(* A grant is new: the version is clean.                                   *)
LEMMA GrantedStep ==
    ASSUME DocInv, NEW v \in Uploads, version[v] # None, version[v].scan = "clean",
           EnsureGrant(v), TypeOK', UploadsOK', ScannersOK', OneApplies',
           UNCHANGED <<sensitive, req, version, bytes, job>>
    PROVE  DocInv'
<1>1. VersionsOK'
  <2> SUFFICES ASSUME NEW w \in Uploads PROVE VersionOK(w)'
    BY DEF VersionsOK
  <2>1. VersionOK(w) /\ (w # v => grant'[w] = grant[w])
    BY DEF DocInv, TypeOK, VersionsOK, EnsureGrant
  <2> QED
    BY <2>1 DEF VersionOK
<1>2. Shown'
  BY DEF DocInv, Shown
<1> QED
  BY <1>1, <1>2 DEF DocInv

LEMMA UploadGrantStep ==
    ASSUME DocInv, NEW u \in Uploads, UploadGrant(u) PROVE DocInv'
<1>1. /\ up[u].pc = "grant" /\ EnsureGrant(u)
      /\ up' = [up EXCEPT ![u] = DoneUpload]
      /\ UNCHANGED <<kase, sensitive, req, version, bytes, job, rev, scan>>
  BY DEF UploadGrant
<1>2. UploadOK(u, up[u])
  BY DEF DocInv, UploadsOK
<1>3. DoneUpload \in Upload /\ DoneUpload.pc = "done"
  BY DEF DoneUpload, IdleUpload, Upload
<1>4. /\ up' \in [Uploads -> Upload] /\ up'[u] = DoneUpload
      /\ \A v \in Uploads : v # u => up'[v] = up[v]
  BY <1>1, <1>3, Kinds DEF DocInv
<1>5. grant' \in [Uploads -> {"none", "active", "revoked"}]
  BY <1>1 DEF DocInv, TypeOK, EnsureGrant
<1>6. TypeOK'
  BY <1>1, <1>4, <1>5 DEF DocInv, TypeOK, Upload
<1>7. UploadsOK'
  <2> SUFFICES ASSUME NEW w \in Uploads PROVE UploadOK(w, up[w])'
    BY DEF UploadsOK
  <2>1. CASE w = u
    BY <1>1, <1>2, <1>3, <1>4, <2>1 DEF UploadOK, Before, Planned
  <2>2. CASE w # u
    <3>1. UploadOK(w, up[w]) /\ up'[w] = up[w]
      BY <1>4, <2>2 DEF DocInv, UploadsOK
    <3> QED
      BY <1>1, <3>1 DEF UploadOK
  <2> QED
    BY <2>1, <2>2
<1>8. ScannersOK' /\ OneApplies'
  BY <1>1 DEF DocInv, ScannersOK, ScannerOK, OneApplies
<1>9. version[u] # None /\ version[u].scan = "clean"
  BY <1>1, <1>2 DEF UploadOK, Before
<1> QED
  BY <1>1, <1>6, <1>7, <1>8, <1>9, GrantedStep

-----------------------------------------------------------------------------
(* The provider.                                                           *)
Review == [pc : {"idle", "accept", "reject", "waive", "revoke", "done"},
           seen : Uploads \cup {None}, expected : Nat]

LEMMA ReviewMoves ==
    ASSUME DocInv, NEW r \in Reviews, NEW c \in Review,
           rev' = [rev EXCEPT ![r] = c],
           grant' \in [Uploads -> {"none", "active", "revoked"}],
           \A v \in Uploads : grant'[v] = "none" <=> grant[v] = "none",
           UNCHANGED <<kase, sensitive, req, version, bytes, job, up, scan>>
    PROVE  DocInv'
<1>1. TypeOK'
  BY DEF DocInv, TypeOK, Review
<1>2. \A u \in Uploads : UploadOK(u, up'[u])
  BY DEF DocInv, UploadsOK
<1> QED
  BY <1>1, <1>2, QuietStep

LEMMA GrantsKept ==
    ASSUME DocInv, UNCHANGED grant
    PROVE  /\ grant' \in [Uploads -> {"none", "active", "revoked"}]
           /\ \A v \in Uploads : grant'[v] = "none" <=> grant[v] = "none"
BY DEF DocInv, TypeOK

LEMMA ReviewRecords ==
    ASSUME DocInv, NEW r \in Reviews
    PROVE  /\ rev[r] \in Review /\ DoneReview \in Review
           /\ rev \in [Reviews -> Review]
           /\ [rev[r] EXCEPT !.pc = "revoke", !.expected = 0] \in Review
<1>1. rev \in [Reviews -> Review] /\ rev[r] \in Review
  BY DEF DocInv, TypeOK, Review
<1> QED
  BY <1>1 DEF Review, DoneReview, IdleReview

LEMMA ReviewLoadStep ==
    ASSUME DocInv, NEW r \in Reviews, ReviewLoad(r) PROVE DocInv'
<1>1. PICK kind \in {"accept", "reject", "waive"}, expected \in Claims :
        rev' = [rev EXCEPT ![r] = [pc |-> kind, expected |-> expected,
                  seen |-> IF kind = "waive" THEN None ELSE req.active]]
  BY DEF ReviewLoad
<1> DEFINE c == [pc |-> kind, expected |-> expected,
                 seen |-> IF kind = "waive" THEN None ELSE req.active]
<1>2. c \in Review
  <2>1. expected \in Nat /\ req.active \in Uploads \cup {None}
    BY ClaimsAreVersions DEF DocInv, TypeOK
  <2> QED
    BY <2>1 DEF Review
<1>3. UNCHANGED <<kase, sensitive, req, version, bytes, job, grant, up, scan>>
  BY DEF ReviewLoad
<1> HIDE DEF c
<1> QED
  BY <1>1, <1>2, <1>3, GrantsKept, ReviewMoves DEF c

(* One decision of the provider: the requirement takes a status, or not.   *)
LEMMA DecisionStep ==
    ASSUME DocInv, NEW r \in Reviews, NEW c \in Review, NEW d \in Review,
           NEW status \in {"accepted", "rejected", "waived"}, NEW filter \in BOOLEAN,
           status = "accepted" /\ filter => req.scan = "clean",
           Swap(rev[r].expected, filter, [req EXCEPT !.status = status]),
           rev' = [rev EXCEPT ![r] = IF Swapped(rev[r].expected, filter)
                                     THEN c ELSE d],
           UNCHANGED <<kase, sensitive, version, bytes, job, grant, up, scan>>
    PROVE  DocInv'
<1>1. CASE Swapped(rev[r].expected, filter)
  <2>1. req' = [[req EXCEPT !.status = status] EXCEPT !.ver = req.ver + 1]
    BY <1>1 DEF Swap, Swapped
  <2>2. rev' \in [Reviews -> Review] /\ filter
    BY <1>1, ReviewRecords DEF Swapped
  <2> QED
    BY <2>1, <2>2, StatusStep DEF Review
<1>2. CASE ~Swapped(rev[r].expected, filter)
  <2>1. req' = req /\ rev' = [rev EXCEPT ![r] = d]
    BY <1>2 DEF Swap, Swapped
  <2> QED
    BY <2>1, GrantsKept, ReviewMoves
<1> QED
  BY <1>1, <1>2

LEMMA ReviewAcceptStep ==
    ASSUME DocInv, NEW r \in Reviews, ReviewAccept(r) PROVE DocInv'
<1> DEFINE filter == /\ req.active = rev[r].seen
                     /\ req.scan = "clean"
                     /\ req.status = "available_for_review"
<1>1. /\ Swap(rev[r].expected, filter, [req EXCEPT !.status = "accepted"])
      /\ rev' = [rev EXCEPT ![r] = IF Swapped(rev[r].expected, filter)
                                   THEN DoneReview ELSE DoneReview]
      /\ UNCHANGED <<kase, sensitive, version, bytes, job, grant, up, scan>>
  BY DEF ReviewAccept
<1>2. filter \in BOOLEAN /\ (filter => req.scan = "clean")
  OBVIOUS
<1> HIDE DEF filter
<1> QED
  BY <1>1, <1>2, ReviewRecords, DecisionStep

LEMMA ReviewRejectStep ==
    ASSUME DocInv, NEW r \in Reviews, ReviewReject(r) PROVE DocInv'
<1> DEFINE filter == req.active = rev[r].seen /\ req.scan = "clean"
           c == [rev[r] EXCEPT !.pc = "revoke", !.expected = 0]
<1>1. /\ Swap(rev[r].expected, filter, [req EXCEPT !.status = "rejected"])
      /\ UNCHANGED <<kase, sensitive, version, bytes, job, grant, up, scan>>
  BY DEF ReviewReject
<1>2. rev' = [rev EXCEPT ![r] = IF Swapped(rev[r].expected, filter)
                                THEN c ELSE DoneReview]
  BY ReviewRecords DEF ReviewReject
<1>3. filter \in BOOLEAN
  OBVIOUS
<1>4. c \in Review /\ DoneReview \in Review
  BY ReviewRecords
<1> HIDE DEF filter, c
<1> QED
  BY <1>1, <1>2, <1>3, <1>4, DecisionStep

LEMMA ReviewWaiveStep ==
    ASSUME DocInv, NEW r \in Reviews, ReviewWaive(r) PROVE DocInv'
<1>1. /\ Swap(rev[r].expected, TRUE, [req EXCEPT !.status = "waived"])
      /\ rev' = [rev EXCEPT ![r] = IF Swapped(rev[r].expected, TRUE)
                                   THEN DoneReview ELSE DoneReview]
      /\ UNCHANGED <<kase, sensitive, version, bytes, job, grant, up, scan>>
  BY DEF ReviewWaive
<1> QED
  BY <1>1, ReviewRecords, DecisionStep

LEMMA ReviewRevokeStep ==
    ASSUME DocInv, NEW r \in Reviews, ReviewRevoke(r) PROVE DocInv'
BY ReviewRecords, Revoked, ReviewMoves DEF ReviewRevoke

LEMMA CloseCaseStep ==
    ASSUME DocInv, CloseCase PROVE DocInv'
<1>1. TypeOK'
  BY DEF DocInv, TypeOK, CloseCase
<1>2. \A u \in Uploads : UploadOK(u, up'[u])
  BY DEF DocInv, UploadsOK, CloseCase
<1> QED
  BY <1>1, <1>2, QuietStep DEF CloseCase

-----------------------------------------------------------------------------
(* The workers.                                                            *)
LEMMA WorkerRecords ==
    ASSUME DocInv, NEW s \in Scanners
    PROVE  /\ scan[s] \in Scanner /\ ScannerOK(scan[s])
           /\ IdleScanner \in Scanner /\ IdleScanner.pc = "idle"
           /\ ScannerOK(IdleScanner)
<1>1. scan[s] \in Scanner /\ ScannerOK(scan[s])
  BY Kinds DEF DocInv, ScannersOK
<1> QED
  BY <1>1 DEF Scanner, IdleScanner, Verdicts, ScannerOK, Applying

LEMMA JobKept ==
    ASSUME DocInv, UNCHANGED job
    PROVE  /\ job' \in [Uploads -> Job]
           /\ \A v \in Uploads : job'[v].st = "none" <=> job[v].st = "none"
BY Kinds DEF DocInv

(* A job takes another status of those it may have once it was queued.     *)
LEMMA JobMoves ==
    ASSUME DocInv, NEW v \in Uploads, job[v].st # "none",
           NEW st \in {"queued"} \cup JobTerminal,
           job' = [job EXCEPT ![v].st = st]
    PROVE  /\ job' \in [Uploads -> Job]
           /\ \A w \in Uploads : job'[w].st = "none" <=> job[w].st = "none"
BY Kinds DEF DocInv, Job, JobTerminal

LEMMA ClaimStep ==
    ASSUME DocInv, NEW s \in Scanners, NEW v \in Uploads, Claim(s, v)
    PROVE  DocInv'
<1> DEFINE c == [IdleScanner EXCEPT !.pc = "scan", !.v = v,
                                    !.attempt = job[v].attempt + 1]
<1>1. /\ scan' = [scan EXCEPT ![s] = c] /\ job[v].st \in {"queued", "leased"}
      /\ job[v].attempt < MaxAttempts
      /\ job' = [job EXCEPT ![v] = [st |-> "leased", attempt |-> job[v].attempt + 1]]
      /\ UNCHANGED <<kase, sensitive, req, version, bytes, grant, up, rev>>
  BY Kinds DEF Claim, DocInv
<1>2. job[v] \in Job /\ job[v].attempt + 1 \in 0 .. MaxAttempts
      /\ job[v].attempt + 1 \in Nat
  BY <1>1, Kinds, CDAssumption DEF DocInv, Job
<1>3. [st |-> "leased", attempt |-> job[v].attempt + 1] \in Job
  BY <1>2 DEF Job
<1>4. /\ job' \in [Uploads -> Job]
      /\ \A w \in Uploads : job'[w].st = "none" <=> job[w].st = "none"
  BY <1>1, <1>3, Kinds DEF DocInv
<1>5. c \in Scanner /\ c.pc = "scan" /\ c.v = v
  BY <1>2, WorkerRecords DEF Scanner
<1>6. sensitive /\ version[v] # None
  BY <1>1 DEF DocInv, UploadsOK, UploadOK, VersionsOK, VersionOK
<1> HIDE DEF c
<1>7. ScannerOK(c) /\ c.pc \notin Applying
  BY <1>5, <1>6 DEF ScannerOK, Applying
<1> QED
  BY <1>1, <1>4, <1>5, <1>7, ScannerStep

(* A worker goes on without writing anything.                              *)
LEMMA GotoStep ==
    ASSUME DocInv, NEW s \in Scanners, scan[s].pc # "idle",
           NEW pc \in {"apply", "complete"}, Goto(s, pc),
           pc = "apply" => scan[s].pc \in Applying,
           UNCHANGED <<kase, sensitive, req, version, bytes, job, grant, up, rev>>
    PROVE  DocInv'
<1> DEFINE c == [scan[s] EXCEPT !.pc = pc]
<1>1. /\ c \in Scanner /\ c.pc = pc /\ c.v = scan[s].v
      /\ c.verdict = scan[s].verdict
  BY WorkerRecords DEF Scanner
<1>2. scan' = [scan EXCEPT ![s] = c]
  BY DEF Goto
<1> HIDE DEF c
<1>3. ScannerOK(c)
  BY <1>1, WorkerRecords DEF ScannerOK, Applying
<1> QED
  BY <1>1, <1>2, <1>3, JobKept, ScannerStep DEF Applying

LEMMA ScanStepOK ==
    ASSUME DocInv, NEW s \in Scanners, Scan(s) PROVE DocInv'
<1>1. PICK verdict \in Verdicts :
        scan' = [scan EXCEPT ![s].pc = "persist", ![s].verdict = verdict]
  BY DEF Scan
<1> DEFINE c == [scan[s] EXCEPT !.pc = "persist", !.verdict = verdict]
<1>2. /\ c \in Scanner /\ c.pc = "persist" /\ c.v = scan[s].v
  BY WorkerRecords DEF Scanner
<1>3. /\ scan' = [scan EXCEPT ![s] = c] /\ scan[s].pc = "scan"
      /\ UNCHANGED <<kase, sensitive, req, version, bytes, job, grant, up, rev>>
  BY <1>1, Kinds DEF Scan, DocInv
<1> HIDE DEF c
<1>4. ScannerOK(c) /\ c.pc \notin Applying
  BY <1>2, <1>3, WorkerRecords DEF ScannerOK, Applying
<1> QED
  BY <1>2, <1>3, <1>4, JobKept, ScannerStep

LEMMA EndsStep ==
    ASSUME DocInv, NEW s \in Scanners, scan' = [scan EXCEPT ![s] = IdleScanner],
           job' \in [Uploads -> Job],
           \A v \in Uploads : job'[v].st = "none" <=> job[v].st = "none",
           UNCHANGED <<kase, sensitive, req, version, bytes, grant, up, rev>>
    PROVE  DocInv'
<1>1. IdleScanner \in Scanner /\ ScannerOK(IdleScanner)
      /\ IdleScanner.pc \notin Applying
  BY WorkerRecords DEF Applying
<1> QED
  BY <1>1, ScannerStep

LEMMA GiveBackStep ==
    ASSUME DocInv, NEW s \in Scanners, GiveBack(s) \/ Complete(s) \/ ScannerStop(s)
    PROVE  DocInv'
<1>1. /\ scan' = [scan EXCEPT ![s] = IdleScanner]
      /\ UNCHANGED <<kase, sensitive, req, version, bytes, grant, up, rev>>
  BY DEF GiveBack, Complete, ScannerStop
<1>2. /\ job' \in [Uploads -> Job]
      /\ \A v \in Uploads : job'[v].st = "none" <=> job[v].st = "none"
  <2>1. CASE UNCHANGED job
    BY <2>1, JobKept
  <2>2. CASE job' # job
    <3>1. PICK st \in {"queued"} \cup JobTerminal : job' = [job EXCEPT ![scan[s].v].st = st]
      BY <2>2, WorkerRecords
         DEF GiveBack, Complete, ScannerStop, JobTerminal, Scanner, Verdicts
    <3>2. Holds(s) /\ scan[s].pc # "idle"
      BY <2>2 DEF GiveBack, Complete, ScannerStop
    <3>3. scan[s].v \in Uploads /\ job[scan[s].v].st # "none"
      BY <3>2, WorkerRecords DEF ScannerOK, Holds
    <3> QED
      BY <3>1, <3>3, JobMoves
  <2> QED
    BY <2>1, <2>2
<1> QED
  BY <1>1, <1>2, EndsStep

LEMMA LookStep ==
    ASSUME DocInv, NEW s \in Scanners, Look(s) PROVE DocInv'
BY GotoStep DEF Look, Applying

(* What is the same for all steps of a worker that go on to another step.  *)
LEMMA Moved ==
    ASSUME DocInv, NEW s \in Scanners,
           NEW pc \in {"promote", "label", "look", "grant", "complete"}, Goto(s, pc)
    PROVE  /\ scan' \in [Scanners -> Scanner]
           /\ scan'[s].pc = pc /\ scan'[s].v = scan[s].v
           /\ scan'[s].verdict = scan[s].verdict
           /\ \A t \in Scanners : t # s => scan'[t] = scan[t]
<1> DEFINE c == [scan[s] EXCEPT !.pc = pc]
<1>1. /\ c \in Scanner /\ c.pc = pc /\ c.v = scan[s].v
      /\ c.verdict = scan[s].verdict
  BY WorkerRecords DEF Scanner
<1>2. scan' = [scan EXCEPT ![s] = c]
  BY DEF Goto
<1> HIDE DEF c
<1> QED
  BY <1>1, <1>2, Kinds DEF DocInv

(* A verdict is stored where none was: until now nobody was applying one.  *)
LEMMA PersistStep ==
    ASSUME DocInv, NEW s \in Scanners, Persist(s) PROVE DocInv'
<1> DEFINE v == scan[s].v
           pc == IF scan[s].verdict = "clean" THEN "promote" ELSE "look"
<1>1. /\ scan[s].pc = "persist" /\ v \in Uploads /\ version[v] # None
      /\ sensitive /\ scan[s] \in Scanner
  BY WorkerRecords DEF Persist, ScannerOK
<1>2. CASE version[v].scan # "pending"
  <2>1. Goto(s, "complete")
        /\ UNCHANGED <<kase, sensitive, req, version, bytes, job, grant, up, rev>>
    BY <1>2 DEF Persist
  <2> QED
    BY <1>1, <2>1, GotoStep
<1>3. CASE version[v].scan = "pending"
  <2>1. /\ version' = [version EXCEPT ![v].scan = scan[s].verdict] /\ Goto(s, pc)
        /\ UNCHANGED <<kase, sensitive, req, bytes, job, grant, up, rev>>
    BY <1>3 DEF Persist
  <2>2. version[v] \in Version /\ scan[s].verdict \in Verdicts
    BY <1>1, Kinds DEF DocInv, Scanner
  <2>3. /\ version' \in [Uploads -> Version \cup {None}]
        /\ version'[v] \in Version /\ version'[v] # None
        /\ version'[v].scan = scan[s].verdict
        /\ version'[v].class = version[v].class
        /\ \A w \in Uploads : w # v => version'[w] = version[w]
    <3> DEFINE d == [version[v] EXCEPT !.scan = scan[s].verdict]
    <3>1. d \in Version /\ d.scan = scan[s].verdict /\ d.class = version[v].class
      BY <2>2 DEF Version, PlainScans, Verdicts
    <3>2. version' = [version EXCEPT ![v] = d]
      BY <2>1
    <3> HIDE DEF d
    <3>3. d # None
      BY <3>1, CDAssumption
    <3> QED
      BY <1>1, <3>1, <3>2, <3>3, Kinds DEF DocInv
  <2>4. /\ scan' \in [Scanners -> Scanner] /\ scan'[s].pc = pc
        /\ scan'[s].v = v /\ scan'[s].verdict = scan[s].verdict
        /\ \A t \in Scanners : t # s => scan'[t] = scan[t]
    BY <2>1, Moved
  <2>5. \A t \in Scanners : scan[t].pc \in Applying \cup {"grant"} => scan[t].v # v
    <3> SUFFICES ASSUME NEW t \in Scanners, scan[t].pc \in Applying \cup {"grant"},
                        scan[t].v = v
                 PROVE  FALSE
      OBVIOUS
    <3>1. scan[t].verdict = "pending" /\ scan[t].verdict \in Verdicts
      BY <1>3, WorkerRecords DEF ScannerOK, Scanner
    <3> QED
      BY <3>1 DEF Verdicts
  <2>6. VersionOK(v) /\ UploadOK(v, up[v])
    BY <1>1 DEF DocInv, VersionsOK, UploadsOK
  <2>a. TypeOK'
    BY <2>1, <2>3, <2>4 DEF DocInv, TypeOK, Scanner
  <2>b. UploadsOK'
    <3> SUFFICES ASSUME NEW u \in Uploads PROVE UploadOK(u, up[u])'
      BY DEF UploadsOK
    <3>1. UploadOK(u, up[u])
      BY DEF DocInv, UploadsOK
    <3>2. CASE u = v
      BY <1>1, <2>1, <2>3, <3>1, <3>2 DEF UploadOK
    <3>3. CASE u # v
      BY <2>1, <2>3, <3>1, <3>3 DEF UploadOK
    <3> QED
      BY <3>2, <3>3
  <2>c. VersionsOK'
    <3> SUFFICES ASSUME NEW w \in Uploads PROVE VersionOK(w)'
      BY DEF VersionsOK
    <3>1. VersionOK(w)
      BY DEF DocInv, VersionsOK
    <3>2. CASE w = v
      BY <1>1, <1>3, <2>1, <2>2, <2>3, <3>1, <3>2 DEF VersionOK, Verdicts
    <3>3. CASE w # v
      BY <2>1, <2>3, <3>1, <3>3 DEF VersionOK
    <3> QED
      BY <3>2, <3>3
  <2>d. Shown'
    <3>1. req.active \in Uploads \cup {None}
      BY DEF DocInv, TypeOK
    <3>2. CASE req.active = v
      BY <1>3, <2>1, <3>2 DEF DocInv, Shown
    <3>3. CASE req.active # v
      BY <2>1, <2>3, <3>1, <3>3 DEF DocInv, Shown
    <3> QED
      BY <3>2, <3>3
  <2>e. ScannersOK'
    <3> SUFFICES ASSUME NEW t \in Scanners PROVE ScannerOK(scan[t])'
      BY DEF ScannersOK
    <3>1. CASE t = s
      <4>1. req.active = v => req.scan = "pending"
        BY <1>1, <1>3, <2>6 DEF VersionOK
      <4>2. scan[s].verdict # "clean" => pc = "look"
        OBVIOUS
      <4>3. pc \in {"promote", "look"} /\ (pc = "promote" => scan[s].verdict = "clean")
        OBVIOUS
      <4> HIDE DEF pc
      <4> QED
        BY <1>1, <2>1, <2>3, <2>4, <3>1, <4>1, <4>3 DEF ScannerOK, Applying
    <3>2. CASE t # s
      <4>1. ScannerOK(scan[t]) /\ scan'[t] = scan[t]
        BY <2>4, <3>2 DEF DocInv, ScannersOK
      <4>2. CASE scan[t].v = v
        <5>1. scan[t].pc \notin Applying \cup {"grant"}
          BY <2>5, <4>2
        <5> QED
          BY <1>1, <2>1, <2>3, <4>1, <4>2, <5>1 DEF ScannerOK, Applying
      <4>3. CASE scan[t].v # v
        <5>1. scan[t].pc # "idle" => version'[scan[t].v] = version[scan[t].v]
          BY <2>3, <4>1, <4>3 DEF ScannerOK
        <5> QED
          BY <2>1, <4>1, <5>1 DEF ScannerOK, Applying
      <4> QED
        BY <4>2, <4>3
    <3> QED
      BY <3>1, <3>2
  <2>f. OneApplies'
    BY <2>4, <2>5 DEF DocInv, OneApplies
  <2> QED
    BY <2>a, <2>b, <2>c, <2>d, <2>e, <2>f DEF DocInv
<1> QED
  BY <1>2, <1>3

LEMMA PromoteStep ==
    ASSUME DocInv, NEW s \in Scanners, Promote(s) PROVE DocInv'
<1> DEFINE v == scan[s].v
<1>1. /\ scan[s].pc = "promote" /\ v \in Uploads /\ version[v] # None
      /\ sensitive /\ version[v].scan = "clean" /\ scan[s].verdict = "clean"
      /\ (req.active = v => req.scan = "pending")
  BY WorkerRecords DEF Promote, ScannerOK, Applying
<1>2. /\ Goto(s, "label")
      /\ UNCHANGED <<kase, sensitive, req, version, job, grant, up, rev>>
  BY DEF Promote
<1>3. /\ bytes' \in [Uploads -> SUBSET {"quarantine", "clean"}]
      /\ "clean" \in bytes'[v]
      /\ \A w \in Uploads : w # v => bytes'[w] = bytes[w]
  BY <1>1 DEF Promote, DocInv, TypeOK
<1>4. /\ scan' \in [Scanners -> Scanner] /\ scan'[s].pc = "label"
      /\ scan'[s].v = v /\ scan'[s].verdict = scan[s].verdict
      /\ \A t \in Scanners : t # s => scan'[t] = scan[t]
  BY <1>2, Moved
<1>a. TypeOK'
  BY <1>2, <1>3, <1>4 DEF DocInv, TypeOK, Scanner
<1>b. UploadsOK' /\ Shown'
  BY <1>2 DEF DocInv, UploadsOK, UploadOK, Shown
<1>c. VersionsOK'
  <2> SUFFICES ASSUME NEW w \in Uploads PROVE VersionOK(w)'
    BY DEF VersionsOK
  <2>1. VersionOK(w)
    BY DEF DocInv, VersionsOK
  <2>2. CASE w = v
    BY <1>1, <1>2, <1>3, <2>1, <2>2 DEF VersionOK
  <2>3. CASE w # v
    BY <1>2, <1>3, <2>1, <2>3 DEF VersionOK
  <2> QED
    BY <2>2, <2>3
<1>d. ScannersOK'
  <2> SUFFICES ASSUME NEW t \in Scanners PROVE ScannerOK(scan[t])'
    BY DEF ScannersOK
  <2>1. CASE t = s
    BY <1>1, <1>2, <1>3, <1>4, <2>1 DEF ScannerOK, Applying
  <2>2. CASE t # s
    <3>1. ScannerOK(scan[t]) /\ scan'[t] = scan[t]
      BY <1>4, <2>2 DEF DocInv, ScannersOK
    <3>2. scan[t].pc = "label" => "clean" \in bytes'[scan[t].v]
      BY <1>3, <3>1 DEF ScannerOK
    <3> QED
      BY <1>2, <3>1, <3>2 DEF ScannerOK
  <2> QED
    BY <2>1, <2>2
<1>e. OneApplies'
  BY <1>1, <1>4 DEF DocInv, OneApplies, Applying
<1> QED
  BY <1>a, <1>b, <1>c, <1>d, <1>e DEF DocInv

LEMMA LabelStep ==
    ASSUME DocInv, NEW s \in Scanners, Label(s) PROVE DocInv'
<1> DEFINE v == scan[s].v
<1>1. /\ scan[s].pc = "label" /\ v \in Uploads /\ version[v] # None
      /\ sensitive /\ version[v].scan = "clean" /\ scan[s].verdict = "clean"
      /\ "clean" \in bytes[v] /\ (req.active = v => req.scan = "pending")
  BY WorkerRecords DEF Label, ScannerOK, Applying
<1>2. /\ version' = [version EXCEPT ![v].class = "clean"] /\ Goto(s, "look")
      /\ UNCHANGED <<kase, sensitive, req, bytes, job, grant, up, rev>>
  BY DEF Label
<1>3. /\ version' \in [Uploads -> Version \cup {None}]
      /\ version'[v] # None /\ version'[v].scan = "clean"
      /\ \A w \in Uploads : w # v => version'[w] = version[w]
  <2> DEFINE d == [version[v] EXCEPT !.class = "clean"]
  <2>1. version[v] \in Version
    BY <1>1, Kinds DEF DocInv
  <2>2. d \in Version /\ d.scan = "clean"
    BY <1>1, <2>1 DEF Version
  <2>3. version' = [version EXCEPT ![v] = d]
    BY <1>2
  <2> HIDE DEF d
  <2>4. d # None
    BY <2>2, CDAssumption
  <2> QED
    BY <1>1, <2>2, <2>3, <2>4, Kinds DEF DocInv
<1>4. /\ scan' \in [Scanners -> Scanner] /\ scan'[s].pc = "look"
      /\ scan'[s].v = v /\ scan'[s].verdict = scan[s].verdict
      /\ \A t \in Scanners : t # s => scan'[t] = scan[t]
  BY <1>2, Moved
<1>5. \A w \in Uploads : /\ version'[w].scan = version[w].scan
                         /\ version'[w] = None <=> version[w] = None
  BY <1>1, <1>3
<1>a. TypeOK'
  BY <1>2, <1>3, <1>4 DEF DocInv, TypeOK, Scanner
<1>b. UploadsOK'
  <2> SUFFICES ASSUME NEW w \in Uploads PROVE UploadOK(w, up[w])'
    BY DEF UploadsOK
  <2>1. UploadOK(w, up[w])
    BY DEF DocInv, UploadsOK
  <2> QED
    BY <1>2, <1>5, <2>1 DEF UploadOK
<1>c. VersionsOK'
  <2> SUFFICES ASSUME NEW w \in Uploads PROVE VersionOK(w)'
    BY DEF VersionsOK
  <2>1. VersionOK(w)
    BY DEF DocInv, VersionsOK
  <2>2. CASE w = v
    BY <1>1, <1>2, <1>3, <2>1, <2>2 DEF VersionOK
  <2>3. CASE w # v
    BY <1>2, <1>3, <2>1, <2>3 DEF VersionOK
  <2> QED
    BY <2>2, <2>3
<1>d. Shown'
  <2>1. req.active \in Uploads \cup {None}
    BY DEF DocInv, TypeOK
  <2> QED
    BY <1>2, <1>5, <2>1 DEF DocInv, Shown
<1>e. ScannersOK'
  <2> SUFFICES ASSUME NEW t \in Scanners PROVE ScannerOK(scan[t])'
    BY DEF ScannersOK
  <2>1. CASE t = s
    BY <1>1, <1>2, <1>3, <1>4, <2>1 DEF ScannerOK, Applying
  <2>2. CASE t # s
    <3>1. ScannerOK(scan[t]) /\ scan'[t] = scan[t]
      BY <1>4, <2>2 DEF DocInv, ScannersOK
    <3>2. CASE scan[t].pc = "idle"
      BY <3>1, <3>2 DEF ScannerOK, Applying
    <3>3. CASE scan[t].pc # "idle"
      <4>1. scan[t].v \in Uploads
        BY <3>1, <3>3 DEF ScannerOK
      <4> QED
        BY <1>2, <1>5, <3>1, <4>1 DEF ScannerOK
    <3> QED
      BY <3>2, <3>3
  <2> QED
    BY <2>1, <2>2
<1>f. OneApplies'
  BY <1>1, <1>4 DEF DocInv, OneApplies, Applying
<1> QED
  BY <1>a, <1>b, <1>c, <1>d, <1>e, <1>f DEF DocInv

(* The verdict reaches the requirement, if it is still about this version: *)
(* then it was waiting for it, and was not accepted.                       *)
LEMMA ApplyStep ==
    ASSUME DocInv, NEW s \in Scanners, Apply(s) PROVE DocInv'
<1> DEFINE v == scan[s].v
<1>1. PICK allowed \in BOOLEAN :
        LET open == scan[s].verdict = "clean" /\ allowed
            status == CASE open -> "available_for_review"
                        [] scan[s].verdict = "rejected" -> "rejected"
                        [] OTHER -> req.status
        IN  /\ scan[s].pc = "apply"
            /\ req' = IF req.active = scan[s].v
                      THEN [req EXCEPT !.scan = scan[s].verdict, !.status = status,
                                       !.ver = @ + 1]
                      ELSE req
            /\ Goto(s, IF open THEN "grant" ELSE "complete")
            /\ UNCHANGED <<kase, sensitive, version, bytes, job, grant, up, rev>>
  BY DEF Apply
<1> DEFINE open == scan[s].verdict = "clean" /\ allowed
           pc == IF open THEN "grant" ELSE "complete"
           status == CASE open -> "available_for_review"
                       [] scan[s].verdict = "rejected" -> "rejected"
                       [] OTHER -> req.status
<1>2. /\ scan[s].pc = "apply" /\ Goto(s, pc)
      /\ UNCHANGED <<kase, sensitive, version, bytes, job, grant, up, rev>>
      /\ req.active # v => req' = req
      /\ req.active = v =>
           req' = [req EXCEPT !.scan = scan[s].verdict, !.status = status,
                              !.ver = req.ver + 1]
  BY <1>1
<1>3. /\ v \in Uploads /\ version[v] # None /\ sensitive
      /\ version[v].scan = scan[s].verdict
      /\ req.active = v => req.scan = "pending"
      /\ scan[s].verdict \in Verdicts
  BY <1>2, WorkerRecords DEF ScannerOK, Applying, Scanner
<1>4. req \in Requirement /\ req.ver \in Nat
  BY DEF DocInv, TypeOK, Requirement
<1>5. /\ pc \in {"grant", "complete"} /\ (pc = "grant" => scan[s].verdict = "clean")
      /\ status \in ReqStatus
      /\ req.active = v => status # "accepted"
      /\ status = "available_for_review" /\ req.active = v
           => scan[s].verdict = "clean"
  BY <1>3, <1>4 DEF Verdicts, ReqStatus, Requirement, DocInv, Shown
<1> HIDE DEF pc, status, open
<1>6. /\ req' \in Requirement /\ req'.active = req.active
      /\ req.active # v => req' = req
      /\ req.active = v => /\ req'.scan = scan[s].verdict /\ req'.status = status
                           /\ req'.ver = req.ver + 1
  <2>1. CASE req.active # v
    BY <1>2, <1>4, <2>1
  <2>2. CASE req.active = v
    <3> DEFINE d == [req EXCEPT !.scan = scan[s].verdict, !.status = status,
                                !.ver = req.ver + 1]
    <3>1. /\ scan[s].verdict \in PlainScans \cup {"none", "pending"}
          /\ req.ver + 1 \in Nat
      BY <1>3, <1>4 DEF Verdicts, PlainScans
    <3>2. /\ d \in Requirement /\ d.active = req.active /\ d.status = status
          /\ d.scan = scan[s].verdict /\ d.ver = req.ver + 1
      BY <1>4, <1>5, <3>1 DEF Requirement
    <3>3. req' = d
      BY <1>2, <2>2
    <3> QED
      BY <2>2, <3>2, <3>3
  <2> QED
    BY <2>1, <2>2
<1>7. /\ scan' \in [Scanners -> Scanner] /\ scan'[s].pc = pc
      /\ scan'[s].v = v /\ scan'[s].verdict = scan[s].verdict
      /\ \A t \in Scanners : t # s => scan'[t] = scan[t]
  BY <1>2, <1>5, Moved
<1>a. TypeOK'
  BY <1>2, <1>6, <1>7 DEF DocInv, TypeOK, Scanner, Requirement
<1>b. UploadsOK'
  <2> SUFFICES ASSUME NEW u \in Uploads PROVE UploadOK(u, up[u])'
    BY DEF UploadsOK
  <2>1. UploadOK(u, up[u]) /\ up[u].loaded \in Nat
    BY Kinds DEF DocInv, UploadsOK, Upload
  <2>2. CASE req.active = v
    <3>1. up[u].pc \in Planned => up[u].loaded < req'.ver
      BY <1>4, <1>6, <2>1, <2>2 DEF UploadOK
    <3> QED
      BY <1>2, <1>4, <1>6, <2>1, <2>2, <3>1 DEF UploadOK
  <2>3. CASE req.active # v
    BY <1>2, <1>6, <2>1, <2>3 DEF UploadOK
  <2> QED
    BY <2>2, <2>3
<1>c. VersionsOK'
  <2> SUFFICES ASSUME NEW w \in Uploads PROVE VersionOK(w)'
    BY DEF VersionsOK
  <2>1. VersionOK(w)
    BY DEF DocInv, VersionsOK
  <2>2. version[v].scan # "pending"
    BY <1>3 DEF Verdicts
  <2>3. CASE req.active = v
    BY <1>2, <1>6, <2>1, <2>2, <2>3 DEF VersionOK
  <2>4. CASE req.active # v
    BY <1>2, <1>6, <2>1, <2>4 DEF VersionOK
  <2> QED
    BY <2>3, <2>4
<1>d. Shown'
  <2>1. CASE req.active = v
    BY <1>2, <1>3, <1>5, <1>6, <2>1, CDAssumption DEF Shown
  <2>2. CASE req.active # v
    BY <1>2, <1>6, <2>2 DEF DocInv, Shown
  <2> QED
    BY <2>1, <2>2
<1>e. ScannersOK'
  <2> SUFFICES ASSUME NEW t \in Scanners PROVE ScannerOK(scan[t])'
    BY DEF ScannersOK
  <2>1. CASE t = s
    BY <1>2, <1>3, <1>5, <1>7, <2>1 DEF ScannerOK, Applying
  <2>2. CASE t # s
    <3>1. ScannerOK(scan[t]) /\ scan'[t] = scan[t]
      BY <1>7, <2>2 DEF DocInv, ScannersOK
    <3>2. scan[t].pc \in Applying => scan[t].v # v
      BY <1>2, <2>2 DEF DocInv, OneApplies, Applying
    <3>3. scan[t].pc \in Applying /\ req'.active = scan[t].v => req'.scan = "pending"
      BY <1>6, <3>1, <3>2 DEF ScannerOK
    <3> QED
      BY <1>2, <3>1, <3>3 DEF ScannerOK
  <2> QED
    BY <2>1, <2>2
<1>f. OneApplies'
  BY <1>5, <1>7 DEF DocInv, OneApplies, Applying
<1> QED
  BY <1>a, <1>b, <1>c, <1>d, <1>e, <1>f DEF DocInv

LEMMA GrantStep ==
    ASSUME DocInv, NEW s \in Scanners, Grant(s) PROVE DocInv'
<1> DEFINE v == scan[s].v
<1>1. /\ scan[s].pc = "grant" /\ v \in Uploads /\ version[v] # None
      /\ version[v].scan = "clean"
  BY WorkerRecords DEF Grant, ScannerOK, Applying
<1>2. /\ EnsureGrant(v) /\ Goto(s, "complete")
      /\ UNCHANGED <<kase, sensitive, req, version, bytes, job, up, rev>>
  BY DEF Grant
<1>3. /\ scan' \in [Scanners -> Scanner] /\ scan'[s].pc = "complete"
      /\ scan'[s].v = v
      /\ \A t \in Scanners : t # s => scan'[t] = scan[t]
  BY <1>2, Moved
<1>4. TypeOK'
  BY <1>2, <1>3 DEF DocInv, TypeOK, Scanner, EnsureGrant
<1>5. UploadsOK'
  BY <1>2 DEF DocInv, UploadsOK, UploadOK
<1>6. ScannersOK'
  <2> SUFFICES ASSUME NEW t \in Scanners PROVE ScannerOK(scan[t])'
    BY DEF ScannersOK
  <2>1. CASE t = s
    BY <1>1, <1>2, <1>3, <2>1, WorkerRecords DEF ScannerOK, Applying
  <2>2. CASE t # s
    <3>1. ScannerOK(scan[t]) /\ scan'[t] = scan[t]
      BY <1>3, <2>2 DEF DocInv, ScannersOK
    <3> QED
      BY <1>2, <3>1 DEF ScannerOK
  <2> QED
    BY <2>1, <2>2
<1>7. OneApplies'
  BY <1>3 DEF DocInv, OneApplies, Applying
<1> QED
  BY <1>1, <1>2, <1>4, <1>5, <1>6, <1>7, GrantedStep

-----------------------------------------------------------------------------
LEMMA NextInv ==
    ASSUME DocInv, [Next]_vars PROVE DocInv'
<1>1. ASSUME NEW u \in Uploads, UploadLoad(u) \/ UploadStep(u) PROVE DocInv'
  BY <1>1, UploadLoadStep, UploadCreateStep, UploadEnqueueStep, UploadAttachStep,
     UploadRevokeStep, UploadGrantStep DEF UploadStep
<1>2. ASSUME NEW r \in Reviews, ReviewLoad(r) \/ ReviewStep(r) PROVE DocInv'
  BY <1>2, ReviewLoadStep, ReviewAcceptStep, ReviewRejectStep, ReviewRevokeStep,
     ReviewWaiveStep DEF ReviewStep
<1>3. ASSUME NEW s \in Scanners, NEW v \in Uploads, Claim(s, v) PROVE DocInv'
  BY <1>3, ClaimStep
<1>4. ASSUME NEW s \in Scanners, ScanStep(s) \/ ScannerStop(s) PROVE DocInv'
  BY <1>4, ScanStepOK, GiveBackStep, PersistStep, PromoteStep, LabelStep,
     LookStep, ApplyStep, GrantStep DEF ScanStep
<1>5. CASE UNCHANGED vars
  <2>1. UNCHANGED <<kase, sensitive, req, version, bytes, job, grant, up, rev, scan>>
    BY <1>5 DEF vars
  <2>2. TypeOK'
    BY <2>1 DEF DocInv, TypeOK
  <2>3. \A u \in Uploads : UploadOK(u, up'[u])
    BY <2>1 DEF DocInv, UploadsOK
  <2> QED
    BY <2>1, <2>2, <2>3, QuietStep
<1> QED
  BY <1>1, <1>2, <1>3, <1>4, <1>5, CloseCaseStep DEF Next

LEMMA DocInvariant == Spec => []DocInv
<1>1. Init => DocInv
  BY InitInv
<1>2. DocInv /\ [Next]_vars => DocInv'
  BY NextInv
<1> QED
  BY <1>1, <1>2, PTL DEF Spec

-----------------------------------------------------------------------------
(* The stores and the memory of every handler and worker stay in their     *)
(* types; the attempts of a job never pass their maximum.                  *)
THEOREM DocumentsTypeCorrect == Spec => []TypeOK
<1>1. DocInv => TypeOK
  BY DEF DocInv
<1> QED
  BY <1>1, DocInvariant, PTL

(* What the provider is shown, was given or has accepted is a clean        *)
(* version.                                                                *)
THEOREM OnlyCleanIsReviewed == Spec => []ReviewedIsClean
<1>1. DocInv => ReviewedIsClean
  BY DEF DocInv, Shown, VersionsOK, VersionOK, ReviewedIsClean
<1> QED
  BY <1>1, DocInvariant, PTL

(* An object is promoted only after a clean verdict, and labelled only     *)
(* when it is there.                                                       *)
THEOREM BytesAreLabelled == Spec => []BytesFollowVerdict
<1>1. DocInv => BytesFollowVerdict
  BY DEF DocInv, VersionsOK, VersionOK, BytesFollowVerdict
<1> QED
  BY <1>1, DocInvariant, PTL

(* The version in place has its scan job.                                  *)
THEOREM AttachedIsScanned == Spec => []AttachedIsQueued
<1>1. DocInv => AttachedIsQueued
  <2> SUFFICES ASSUME DocInv, sensitive, req.active # None
               PROVE  job[req.active].st # "none"
    BY DEF AttachedIsQueued
  <2>1. req.active \in Uploads
    BY DEF DocInv, TypeOK
  <2>2. UploadOK(req.active, up[req.active]) /\ up[req.active] \in Upload
    BY <2>1, Kinds DEF DocInv, UploadsOK
  <2> QED
    BY <2>2 DEF UploadOK, Planned, Before
<1> QED
  BY <1>1, DocInvariant, PTL

(* No step takes a verdict back or stores a second one.                    *)
LEMMA VerdictKept ==
    ASSUME DocInv, [Next]_vars, NEW v \in Uploads, version[v] # None,
           version[v].scan # "pending"
    PROVE  version'[v].scan = version[v].scan
<1>0. version \in [Uploads -> Version \cup {None}]
  BY Kinds DEF DocInv
<1>1. ASSUME NEW u \in Uploads, UploadCreate(u) PROVE version'[v] = version[v]
  <2>1. version[u] = None
    BY <1>1 DEF UploadCreate, DocInv, UploadsOK, UploadOK, Before
  <2> QED
    BY <1>0, <1>1, <2>1 DEF UploadCreate
<1>2. ASSUME NEW s \in Scanners, Persist(s) PROVE version'[v] = version[v]
  BY <1>0, <1>2 DEF Persist
<1>3. ASSUME NEW s \in Scanners, Label(s)
      PROVE  version'[v].scan = version[v].scan
  BY <1>0, <1>3 DEF Label, Version
<1>4. ASSUME NEW u \in Uploads, UploadLoad(u) \/ UploadStep(u)
      PROVE  version'[v] = version[v]
  BY <1>1, <1>4 DEF UploadLoad, UploadStep, UploadEnqueue, UploadAttach,
                    UploadRevoke, UploadGrant
<1>5. ASSUME NEW r \in Reviews, ReviewLoad(r) \/ ReviewStep(r)
      PROVE  version'[v] = version[v]
  BY <1>5 DEF ReviewLoad, ReviewStep, ReviewAccept, ReviewReject, ReviewRevoke,
              ReviewWaive
<1>6. ASSUME NEW s \in Scanners, ScanStep(s) \/ ScannerStop(s)
      PROVE  version'[v].scan = version[v].scan
  BY <1>2, <1>3, <1>6 DEF ScanStep, Scan, GiveBack, Promote, Look, Apply, Grant,
                          Complete, ScannerStop
<1> QED
  BY <1>4, <1>5, <1>6 DEF Next, CloseCase, Claim, vars

(* A version whose scan is decided keeps its verdict: a worker that lost its
   lease before the decision does not overwrite it. *)
THEOREM VerdictsAreFinal == Spec => DecidedIsFinal
<1>1. DocInv /\ [Next]_vars
      => [\A v \in Uploads : version[v] # None /\ version[v].scan # "pending"
                               => version'[v].scan = version[v].scan]_vars
  BY VerdictKept
<1> QED
  BY <1>1, DocInvariant, PTL DEF Spec, DecidedIsFinal

(* An accepted requirement keeps its version, and only the provider        *)
(* changes it, apart from an upload that named a version it had not        *)
(* loaded: an upload let through before has loaded an older requirement,   *)
(* and no worker has a verdict left to apply.                              *)
AcceptanceHeld ==
    \/ /\ req'.active = req.active
       /\ req'.status \in {"accepted", "rejected", "waived"}
    \/ \E u \in Uploads : AttachesUnseen(u)

LEMMA AcceptanceKept ==
    ASSUME DocInv, [Next]_vars, req.status = "accepted"
    PROVE  AcceptanceHeld
<1>0. req \in Requirement
  BY DEF DocInv, TypeOK, Requirement
<1>s. req' = req => AcceptanceHeld
  BY DEF AcceptanceHeld
<1>1. ASSUME NEW u \in Uploads, UploadAttach(u) PROVE AcceptanceHeld
  <2>1. UploadOK(u, up[u]) /\ up[u].pc = "attach"
    BY <1>1 DEF DocInv, UploadsOK, UploadAttach
  <2>2. ~(up[u].supersede /\ up[u].loaded = req.ver)
    BY <2>1 DEF UploadOK, Planned
  <2>3. CASE up[u].supersede /\ up[u].expected = req.ver
    <3> DEFINE result == version[u].scan
               status == CASE result = "clean" -> "available_for_review"
                           [] result = "rejected" -> "rejected"
                           [] OTHER -> "uploaded_pending_scan"
               newScan == IF sensitive THEN "pending" ELSE result
               newStatus == IF sensitive THEN "uploaded_pending_scan" ELSE status
    <3>1. req' = [[req EXCEPT !.active = u, !.scan = newScan,
                              !.status = newStatus] EXCEPT !.ver = req.ver + 1]
      BY <1>1, <2>3 DEF UploadAttach, Swap
    <3> HIDE DEF newScan, newStatus
    <3>2. req'.active = u
      BY <1>0, <3>1 DEF Requirement
    <3>3. up[u].expected # up[u].loaded
      BY <2>2, <2>3
    <3> QED
      BY <2>1, <3>2, <3>3 DEF AttachesUnseen, AcceptanceHeld
  <2>4. CASE ~(up[u].supersede /\ up[u].expected = req.ver)
    BY <1>1, <1>s, <2>4 DEF UploadAttach, Swap, Replaceable
  <2> QED
    BY <2>3, <2>4
<1>2. ASSUME NEW s \in Scanners, Apply(s) PROVE req' = req
  <2>1. ScannerOK(scan[s]) /\ scan[s].pc = "apply"
    BY <1>2 DEF DocInv, ScannersOK, Apply
  <2>2. req.active # scan[s].v
    BY <2>1 DEF ScannerOK, Applying, DocInv, Shown
  <2> QED
    BY <1>2, <2>2 DEF Apply
<1>3. ASSUME NEW r \in Reviews, NEW status \in {"accepted", "rejected", "waived"},
             NEW expected, NEW filter,
             Swap(expected, filter, [req EXCEPT !.status = status])
      PROVE  AcceptanceHeld
  <2> DEFINE d == [req EXCEPT !.status = status]
  <2>1. /\ d.active = req.active /\ d.status = status
        /\ d \in Requirement
    BY <1>0 DEF Requirement, ReqStatus
  <2>2. req' = [d EXCEPT !.ver = req.ver + 1] \/ req' = req
    BY <1>3 DEF Swap
  <2> HIDE DEF d
  <2>3. \/ req' = req
        \/ req'.active = req.active /\ req'.status = status
    BY <2>1, <2>2 DEF Requirement
  <2> QED
    BY <1>s, <2>3 DEF AcceptanceHeld
<1>4. ASSUME NEW u \in Uploads, UploadLoad(u) \/ UploadStep(u)
      PROVE  AcceptanceHeld
  BY <1>1, <1>s, <1>4 DEF UploadLoad, UploadStep, UploadCreate, UploadEnqueue,
                    UploadRevoke, UploadGrant
<1>5. ASSUME NEW r \in Reviews, ReviewLoad(r) \/ ReviewStep(r)
      PROVE  AcceptanceHeld
  BY <1>3, <1>s, <1>5 DEF ReviewLoad, ReviewStep, ReviewAccept, ReviewReject,
                    ReviewRevoke, ReviewWaive
<1>6. ASSUME NEW s \in Scanners, ScanStep(s) \/ ScannerStop(s) PROVE req' = req
  BY <1>2, <1>6 DEF ScanStep, Scan, GiveBack, Persist, Promote, Label, Look, Grant,
                    Complete, ScannerStop
<1> QED
  BY <1>4, <1>5, <1>6, <1>s DEF Next, CloseCase, Claim, vars

(* An accepted requirement keeps the version the provider saw until the    *)
(* provider rejects or waives it; the one replacement the code lets        *)
(* through is an upload that judged an older requirement and named the     *)
(* version of the acceptance.                                              *)
THEOREM AcceptanceLocks == Spec => AcceptedIsLocked
<1>1. DocInv /\ [Next]_vars
      => [req.status = "accepted"
            => \/ /\ req'.active = req.active
                  /\ req'.status \in {"accepted", "rejected", "waived"}
               \/ \E u \in Uploads : AttachesUnseen(u)]_vars
  BY AcceptanceKept DEF AcceptanceHeld
<1> QED
  BY <1>1, DocInvariant, PTL DEF Spec, AcceptedIsLocked
=============================================================================
