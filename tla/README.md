# Formal models of Strideto

Strideto is a Node.js/Express API over MongoDB, run as several API replicas, a
worker process and a Redis server, with a React web client and a mobile client.
The server does without multi-document transactions almost everywhere: a
command is an asynchronous handler that alternates reads with single-document
`findOneAndUpdate` calls, so the handlers of other commands run between any two
of its database operations, on the same replica or on another.  What keeps the
data right is a handful of mechanisms: a `recordVersion` in the filter of an
update, unique and partial indexes, an idempotency record per command, a Redis
lock, leases, and for one purpose a transaction.  They are hard to test, because a test that runs one
command after another never meets the orders that break them.  They are what
this directory models.

Paths below are relative to `server/src/` unless they name another directory.

## 1. Inventory

| Component | State it keeps | Operations | How it interacts | What is hard |
|---|---|---|---|---|
| **Engagement** (`services/gbs/gbsServiceRequestService.js`, `gbsQuoteService.js`, case opening in `gbsCaseService.js`; models `GbsServiceRequest`, `GbsQuote`, `GbsCase`) | request, quote and case documents, each with a `recordVersion` | submit, review, decline, ready for quote, cancel; create, edit, send, withdraw, accept and decline a quote; open the case | its commands run under the idempotency store; updates go through `services/platform/optimisticConcurrency.js`; an accepted quote opens a case | interleaving at each database operation, reads that are stale when used, lapsing offers, a replica that stops in the middle |
| **Idempotency store** (`services/platform/mongoIdempotencyStore.js`, model `IdempotencyRecord`) | one record per key: status, fingerprint, result, age | execute: reserve, load, wait, take over, resume, complete, fail | wraps every high-value command | duplicates in flight, takeover by age, retries after a failure, removal by the TTL index |
| **Background job queue** (`services/jobQueueService.js`, `queueLock.js`, `worker.js`, model `BackgroundJob`) | job documents; one Redis key | enqueue, process a batch, retry dead jobs | any service enqueues; workers, the cron of a replica and administrators process | lock expiry, processes that stop, failed and refused saves, retries of retries |
| **Case life** (`services/gbs/gbsCaseService.js`) | status and tasks of a case | start preparation, request and complete a task, ready, unable to proceed, complete, cancel | opened by an accept; read by documents, authorizations and filings | readiness judged before the update; arrays rewritten from earlier reads |
| **Filing authorization and external filing** (`services/gbs/gbsFilingAuthorizationService.js`, `gbsExternalFilingService.js`) | the customer's authorizations, the provider's submissions | grant, revoke; attest: claim, submit, mark used | reads the case; every command has a mandatory audit record | revocation against claim, two attestations at once, compensations of compensations |
| **Case documents and HSI scan queue** (`services/gbs/gbsCaseDocumentService.js`, `services/hsi/`, `gbsDocumentScanWorker.js`) | requirements, vault versions, stored objects, grants, scan jobs with leases | upload, supersede, review, reject, waive; claim, scan, store and apply a verdict, promote, complete, give back | scan workers write what customers and providers read | leases that run out, a verdict applied in several writes, a version replaced while it is scanned or reviewed |
| **Refresh sessions** (`services/auth/RefreshSessionRotationService.js`, `SessionFamilyRevocationService.js`, `RefreshEligibilityCoordinator.js`, `initialSessionIssuance.js`) | current and previous token hash, time of rotation, revocation | issue, rotate, judge a miss, revoke one family or all | reads the account before and after a rotation | concurrent rotations, a lost answer, revocation against rotation |
| **Account security** (`services/auth/AccountSecurityMutationService.js`, the flows that call it) | status and `tokenVersion` of an account | logout everywhere, change and reset a password, suspend, reactivate | sweeps the sessions after the change | a session issued or rotated across the change; the version at its maximum |
| **Employer job posts** (`controllers/employerController.js`, `controllers/admin/adminJobsController.js`, `moderationController.js`, `services/employer/employerPublishingQuota.js`, `services/publishing/SerializedQuotaGuard.js`) | posts with status, approval, plan and the list of charges; a guard per employer | create, edit, close, reopen, submit; approve and reject one or many, archive, suspend | approvals run in a transaction that writes the guard; edits and bulk publication do not | quota and capacity at their limits, saves of documents loaded earlier |
| **Transactional free-beta submission** (`services/publishing/TransactionalFreeBetaSubmissionService.js`) | what its ports store | submit in a transaction | wired to no route; its ports have no production adapter | undetermined |
| **Editorial workflow and content locks** (`services/workflow/`) | locks, scheduled transitions | lock, release, publish on schedule | | lock expiry |
| **Capability claims, domains, listings and their reviews** | reviewable documents | submit, review, suspend | read by the engagement as the *authority gate* | the gate may change under a running command |
| **Applications and offers, consultations, commerce, admissions, verification, privacy** | single documents with a status | status changes | notifications | few interleavings of their own |
| **Sign-in flows, Google sign-in, access authorization** | transactions with an identity provider | protocol exchange, validation | refresh sessions | mostly validation |
| **Notifications, search, SEO, analytics, AI, CMS, imports, clients, deployment** | read models and content | output and input | | no state whose interleaving matters |

`PROJECT.json` lists all of them with a status, and under `hazards` the places
where the order of events can go wrong, at their lines, with the properties that
watch them.

What makes each modelled component correct:

* *Engagement.*  A request has one active quote at most; a quote decided once
  stays as it is; a case exists only for an accepted quote, once; the totals a
  customer agrees to are those of the fee lines; a request with quotes is not
  taken back to an earlier stage; an offer on a cancelled request is withdrawn.
* *Idempotency store.*  All answers to one key agree; a key serves one
  fingerprint; a completion names an effect that took place; a second effect is
  always owed to a stop or an error; every call is answered.
* *Job queue.*  No job is in two hands; an event has its effect once; completed
  jobs stay completed; a dead e-mail has been enqueued again; every job settles.
  The first four hold but for jobs that a mishap the code does nothing about befell.
* *Case life.*  A case that is ready or completed has its required tasks done; a
  task that was requested is not lost, one that was completed not reopened.
* *Filing.*  A filing rests on an authorization that its customer can no longer
  take back; a case is filed once; a revocation the customer was told of is not
  filed under; an authorization is spent only on a filing that is stored.
* *Documents.*  The provider is shown, granted and accepts only versions found
  clean; a decided version and an accepted requirement stay so; the stored
  object follows the verdict; a version in place has a scan job; every scan ends.
* *Refresh sessions and account.*  A token has one successor at most; a change of
  the account bars the sessions opened before it; an ended session stays ended; a
  session is ended as a replay only in the state that was judged.
* *Employer job posts.*  Reviews under the guard publish no more free posts than
  the capacity; no window of time holds more charged submissions than the quota.

## 2. Modules

| Module | Models | Proved about in |
|---|---|---|
| `GbsEngagement` | requests, quotes, case opening, one step per database operation | `GbsEngagementProof` |
| `GbsEngagementContract` | what the engagement promises, one step per command | `GbsEngagementProof` |
| `GbsCaseLife` | the case after its opening | `GbsCaseLifeProof` |
| `GbsFiling` | authorizations and filings, composed with `GbsCaseLife` | `GbsFilingProof` |
| `GbsCaseDocuments` | one document requirement, its versions, the scan queue and its workers | `GbsCaseDocumentsProof` |
| `RefreshSessions` | the sessions of one account, and the changes of the account | `RefreshSessionsProof` |
| `EmployerJobs` | the job posts of one employer, the quota guard, reviews | `EmployerJobsProof` |
| `IdempotencyStore` | one key of the shared store | `IdempotencyStoreProof` |
| `JobQueue` | job documents, runners, the lock, administrators | `JobQueueProof` |
| `JobQueueEffects` | the effects of jobs, and the mishaps the promises except | `JobQueueProof` |
| `MC*` | symmetry sets and bounds for TLC | |

Three of them build on another.  `GbsEngagement` implements `GbsEngagementContract`
under the mapping in its `Contract` instance: the stored statuses, the request
of each quote, and the set of cases stored for it.  `GbsFiling` extends
`GbsCaseLife` with the handlers of authorizations and filings, which read the
case while its own commands change it; `FilingImplementsCaseLife` says that every
behaviour of the composition is one of `CaseSpec`, so that what is proved of the
case alone carries over.  `JobQueueEffects` adds history variables to `JobQueue`, and
`EffectsImplementQueue` says that they restrict nothing.  `RefreshSessions` holds sessions and account together,
because each property relates the two.

The other borders are nondeterminism: the store treats a command as
one `perform` that may take effect, throw or recover a duplicate; the case sees
documents, authority and packs as a `Refuse` its commands may meet; the documents
see the case as open until it is closed by another service.

A definition named `Faulty...` is a plausible bug that stands beside the
definition it could replace; none is used by a next-state relation.

### 2.1 Engagement

`request`, `quote` and `caseOf` are the three collections.  `pc[p]` names the
next database operation of handler `p` and `ctx[p]` what it has read: the
captured `recordVersion`, the clock at its start, the fee lines from which it
will compute totals, the list of quotes left to close.  The actions of one
command carry its name:

| Code | Actions |
|---|---|
| `createCustomerServiceRequest` | `SubmitRequest` |
| `reviewProviderServiceRequest`, `declineProviderServiceRequest`, `readyForQuoteProviderServiceRequest` | `BeginTransition`, `CommitTransition` |
| `cancelCustomerServiceRequest`, `closeDraftsForCancelledRequest` | `BeginCancel`, `Cancel*`, `Close*` |
| `createProviderQuote` | `BeginCreate`, `Create*` |
| `updateProviderQuoteDraft` | `BeginUpdate`, `UpdateCommit` |
| `sendProviderQuote` | `BeginSend`, `Send*` |
| `withdrawProviderQuote` | `BeginWithdraw`, `WithdrawCommit` |
| `acceptCustomerQuote`, `declineCustomerQuote` | `BeginDecision`, `Decide*` |
| case opening, its repetition and both recovery routes | `BeginEnsure`, `Ensure*` |
| commands that meet a lapsed offer | `ExpireOnLoad` |

Decisions taken in the model:

* Commands on requests compare the caller's version with their load
  (`assertExpected`); the captured version is therefore the one at the load.  For
  quotes there is no such check: the version goes from the caller to the
  compare-and-set, so `Begin*` takes it from `Claims`, the versions from the load's up to
  `Ahead` beyond it (one behind it can only fail).  The only thing that depends on it
  are the totals of a send, which are computed from the load: `early` holds
  the quotes sent from a load older than the version named, and `TotalsMatchFees`
  is stated for the others.
* `normalizeExpiredQuoteForMutation` reads and then updates with a filter that
  repeats what it read; the two are one step.
* The authority gate is another component: `GateDenied` ends a handler just
  before the operations that ask it.  Audits, notifications and the clash of
  random public references are left out.
* A request leaves `ready_for_quote` only for `cancelled`.
* `Crash` ends a handler between two operations; nothing it wrote is undone.

### 2.2 Idempotency store

`rec` is the record of one key; keys do not touch each other.  `pc`, `print`,
`made` and `ans` are the calls; `effects` collects the calls whose `perform`
took effect, and is what the caller of the API would count.  Time is a single
bit: `rec.old` says that the record's age has passed `staleMs`.  `GiveUp` is a
wait that reaches its deadline.  The filters of the three `findOneAndUpdate`
calls are `Reserved`, `Abandoned` and `Resumable`.

`MarkFailed` and `Complete` do not ask who holds the reservation, because the
code's filters do not.  A command whose document has a unique command id finds
the document it made (`ReplaySafe`).  For a different request it answers with
a conflict: `recoverDuplicateCase` uses the code the store rethrows,
`recoverDuplicateCreate` one of its own that fails the record.
`PerformRecovers` has both.  An error of the database at the completing
update leaves the same traces as an effect followed by a throw, which is there.

### 2.3 Job queue

`job` is the collection.  An event with the trail of its retries stands for the
`dedupKey`: the retry of a dead e-mail appends the attempts of the job that died
to its key.  A `waiting` job is a pending one whose `scheduledAt` lies ahead.
A runner loads its batch once and saves changed fields by `_id`: `tries[w]` is
the attempts it remembers, and its saves overwrite what the document has become.  A
save may be refused at each place the code has one (`SaveRefused`,
`CompleteRefused`, `LeaveDead`); a refused save is taken to leave the document as stored.  `Limit` is the
batch size; the order of the due times inside a batch is left open.  `lock` is the Redis
key: set if absent, with a time to live, deleted unconditionally; it may expire at any time (`LockExpires`), as nothing bounds a
batch to its 55 seconds.  `reset[a]` is the batch an administrator is putting back.
Any number of runners and administrators act at once.

| Code | Actions |
|---|---|
| `enqueueJob` | `Enqueue`, `EnqueueRetry` |
| `acquireQueueLock`, `releaseQueueLock` | `Acquire`, `Release`, `LockExpires` |
| `processQueue` | `Find`, `Begin`, `Complete`, `CompleteRefused`, `Settle`, `Bury`, `SaveRefused` |
| `executeJob` and its handlers | `Execute`, `ExecuteFails` |
| `retryDeadJobs` | `FindDead`, `PutBack`, `LeaveDead` |

`JobQueueEffects` says what executions do, and notes the mishaps that the code does
nothing about, so that each property excepts the jobs they befell and no other:

| History | Mishap | Excepted in |
|---|---|---|
| `shared` | a batch loses the key with jobs not yet begun, or is loaded without it; a job is put back while a second administrator holds it | all four properties |
| `excused` | the catch clause handles an error that came after the effect (a refused completing save, a handler that throws at its end); a dead e-mail is put back beside its own retry | `EventSentOnce` |
| `lost` | the error of storing the retry of a dead e-mail is swallowed | `DeadMailIsRetried` |

None of them guards a step.  Without any of the exceptions TLC finds its
property violated.

Not modelled: the lock of a process that runs without Redis (a variable, which
excludes nobody else), the queue hygiene script, the redaction of payloads and
the statistics.

### 2.4 Case life

`kase` is the stored case: status, `recordVersion`, and per task its kind and
whether it is open or completed.  `clerk[p]` holds a command, the whole case it loaded,
which is what the code decides on, and the version its caller named (`Claims`), which the
code hands to the update without comparing it with the load.  `runProviderMutation`, `completeCustomerTask`
and `cancelCustomerCase` all load (`Load`, `LoadTask`), decide, and end in
`mutateGbsCaseRecord`, a compare-and-swap (`Update`):

| Code | Action |
|---|---|
| `startPreparation` | `StartPreparation` |
| `requestCustomerAction` | `RequestCustomerAction`: pushes a task |
| `markReadyForSubmission` | `MarkReady` |
| `markUnableToProceed` | `MarkUnable` |
| `completeGenericService` | `CompleteGenericService` |
| `completeCustomerTask` | `CompleteTask`: writes back the array it loaded |
| `cancelCustomerCase` | `CancelCase` |

A refusal by a check, by the authority gate, by missing documents or by the pack
is `Refuse`.  Timeline and audits are left out.  `unseen` notes that tasks were judged or
written back from a load older than the version named with it and stored by then:
`ReadyMeansDone` holds until that happens, `TasksAreKept` but for such a step.

### 2.5 Authorizations and filings

`auth` are the authorizations of a case in the order they were granted, for one
binding of documents and provider; `filing[a]` is the handler that stored the
submission of `a`.  `filer[p]` is a handler: its step, its authorization, the
version it saw, and whether the claim is its own (`here`).

| Code | Actions |
|---|---|
| `grantCustomerFilingAuthorization` | `Grant*` |
| `revokeCustomerFilingAuthorization` | `Revoke*` |
| `attestProviderExternalFiling` | `AttestLoad`, `AttestRead`, `AttestLook`, `AttestSubmit`, `AttestAudit`, `AttestDelete`, `AttestReset` |
| `claimAuthorizationForSubmission` | `AttestClaim`, `ClaimAudit`, `ClaimUndo` |
| `markAuthorizationUsed` | `MarkUsed`, `UsedAudit`, `UsedUndo` |

Each command writes, writes its audit record, and takes back what it wrote if the
record cannot be stored; the three are separate steps, so other handlers build on
what is about to be taken back.  The code does not protect others from
the compensations of a grant, a claim and an attestation.  `harmed` is set when such an
audit record fails, whether or not another handler is there to suffer it;
`FilingIsAuthorized` and `OneFiling` are stated for behaviours where none has failed, and
do fail after it; the hazard list has the lines.  A customer is told of a
revocation by the handler that made it and audited it (`confirmed`), and by any other
that finds it, at its load (`RevokeKnown`) or after losing the race (`RevokeCommit`),
whether it has been audited or not (`told`).  The compensation of the first may still
take that back (`RevokeUndo`): `RevocationHolds` holds for both groups, `told` ending there.  A handler that stops is one
that makes no further step.  The partial unique index is `Effective = {}`
at the insert.  The commands of the case are not only interleaved: a filing is
refused on a terminal case, by a read the case may outrun.

### 2.6 Case documents and the scan queue

One requirement (`req`) of one case.  An upload `u` creates one version, and the
version is named after it: `version[u]`, `bytes[u]` (the buckets that hold its
object), `job[u]` (its scan job), `grant[u]`.  `up`, `rev` and `scan` are the
handlers of the customer, those of the provider and the workers.

| Code | Actions |
|---|---|
| `completeCustomerDocumentUpload`, `supersedeCustomerDocumentUpload` | `UploadLoad`, `UploadCreate`, `UploadEnqueue`, `UploadAttach`, `UploadRevoke`, `UploadGrant` |
| `reviewProviderDocument`, `rejectProviderDocument`, `waiveProviderDocument` | `ReviewLoad`, `ReviewAccept`, `ReviewReject` and `ReviewRevoke`, `ReviewWaive` |
| `claimNextScanJob` | `Claim` |
| `processClaimedScanJob`, `requeueOrFailScanJob` | `Scan`, `GiveBack` |
| `finalizeHsiScanVerdict` | `Persist`, `Promote`, `Label`, `Look`, `Apply`, `Grant`, `Complete` |
| the loop of `gbsDocumentScanWorker.js` | `ScannerStop` |

Decisions taken in the model:

* A requirement for sensitive documents has its versions quarantined and scanned
  by workers; a plain one has its upload scanned on the spot.  `sensitive`
  chooses one of the two for the whole behaviour.
* A lease may be taken over at any time: whether it is overdue depends on how
  slow its holder is, which nothing bounds.  A worker that lost its lease goes on.
* One claim is one attempt, so the number of the attempt identifies the lease in
  the filters of `completeScanJob` and `requeueOrFailScanJob`.
* A caller of an upload, a rejection or a waiver names a version the code does not
  compare with its load (`Claims`); the acceptance does.  The upload that judged an
  older requirement and named the version of the acceptance replaces the accepted document:
  `AttachesUnseen` is that step, and the exception of `AcceptedIsLocked`.
* `Apply` filters on the active version and not on `recordVersion`; what the
  authority gate answers between its read and its update is open (`allowed`).

### 2.7 Refresh sessions and account security

A session's tokens are the numbers of the order in which they were signed;
`session[s].cur` and `.prev` stand for the two hashes a document stores.  `parent`
remembers which token a token was signed to succeed, and `given` which tokens
reached a client.  `epoch` counts the changes of the account and `born` is the
epoch in which the account was read at the sign-in: neither is stored by the
code, they are what the property is stated with.

| Code | Actions |
|---|---|
| `issueLoginSession`, `issueInitialSession` | `SignIn`, `Issue` |
| `attemptRefresh` | `RefreshLoad`, `RefreshSubject`, `Reread`, `Cleanup` |
| `rotate`, `classifyMiss` | `Rotate`, `Judge`, `Revoke` |
| `logoutCurrent` | `Logout` |
| `logoutAll` | `ChangeLoad`, `LogoutAll`, `Sweep`, `SweepEnds` |
| `changePassword` | `ChangeLoad`, `ChangePassword`, `Sweep`, `SweepEnds` |
| password resets, `changeRole` | `Reset`, `Sweep`, `SweepEnds` |
| `suspend`, `reactivate` | `Suspend`, `Sweep`, `SweepEnds`; `Reactivate` |

A client may present any token it was ever given: the answer to an earlier
call may have been lost.  A call that fails or stops makes no further step, and a
sweep may end after any number of documents.  A document removed by its TTL is
one that is not `Alive`.

### 2.8 Employer job posts

`job[j]` has the fields the rules look at: status, approval, `submittedAt` set or
not, plan, and the times of its charged submissions.  A save of a loaded document
writes the fields that changed, into whatever is stored by then (`Saved`).  The
version key of the document is compared and incremented only by saves that
replace a list: an edit of one, and the first charge (`fresh` says that the key
has not moved since the load).

| Code | Actions |
|---|---|
| `createJob` | `CreateJob` |
| `updateJob`, `closeJob`, `reopenJob` | `LoadJob`, `SaveEdit`, `SaveClose`, `SaveReopen` |
| `activateJob` | `LoadJob`, `JudgeSubmission`, `SaveSubmission` |
| `approveJob` | `LoadPending`, `OpenTransaction`, `Approve`, `WriteConflict`, `CapacityExhausted`, `Recheck`, `Undo` |
| `bulkApproveJobs` | the same without the last two, once per post |
| `bulkAction` | `LoadPending`, `CountSlots`, `Publish`; `MarkRejected`, `MakeDrafts`; `Archive` |
| `rejectJob`, `bulkRejectJobs` | `LoadPending`, `MarkRejected`, `MakeDrafts` |
| `suspendListing` | `SuspendListing` |

The first write of an approval's transaction is that of the employer's guard, so a second
transaction conflicts and is retried: one is open at a time.  Its reads are those
of its snapshot (`snap`, `used`), and a post written since then is a
`WriteConflict`.  `loose` are the active posts that were published outside the
guard; `accepted` is the history of free submissions, each marked `beside` if
another was accepted between its judgement and its save.  Which plan a post is
created with is left open beyond the first.

## 3. Runs

States are distinct states found by TLC.

| Run | Question | Instance | States |
|---|---|---|---|
| `engagement_safety` | Are the stored documents right and the contract kept in all interleavings? | 1 request, 2 quotes, 2 cases, 2 handlers, a fee list beside the empty one, 1 tick, callers 1 version ahead, stops | 3,027,324 |
| `engagement_cleanup` | Is an offer on a cancelled request owned by somebody, and withdrawn? | 1 request, 1 quote, 2 handlers, no stops | 47,234 |
| `two_accepted` | May a request have two accepted quotes? (it may) | 2 quotes, 2 handlers, no stops | violation |
| `idempotency_prompt` | Are second effects accounted for, and is a key bound to its fingerprint? | 4 calls, 2 fingerprints, stops, failures, no overrun | 6,639 |
| `idempotency_replay_safe` | Do answers agree when the command recognises its own effect, whatever happens, and does every call end? | 3 calls, 2 fingerprints, stops, failures, overruns, expiry | 119,131 |
| `jobs_once` | Is a job in one hand, is an event sent once, is a dead e-mail retried, does a completed job stay so? | 3 jobs, 2 events, 2 runners, 2 administrators, 2 attempts, stops, failures, refused saves, lost locks, 1 mishap | 1,106,174 |
| `jobs_live` | Does every job settle? | 2 jobs, 1 event, 2 runners, 1 administrator, stops, failures, refused saves, lost locks | 311,641 |
| `docs_safety` | Do reviews, downloads and acceptances rest on clean versions, whoever is late? | 2 uploads, 1 review, 2 workers, 2 attempts, callers 1 version ahead, stops | 7,464,104 |
| `docs_live` | Does every scan end? | 1 upload, 1 review, 2 workers, 3 attempts, callers 1 version ahead, stops | 48,284 |
| `filing_safety` | Is a filing authorized, single and irrevocable, and is the case it belongs to in order? | 2 case handlers, 2 filing handlers, 2 tasks of 2 kinds, 2 authorizations, callers 1 version ahead, failing audits | 3,530,190 |
| `refresh_safety` | Has a token one successor, and what may a changed account still deliver? | 3 requests, 1 session, 4 tokens, window 1, lifetime 2, 2 changes, 2 ticks | 1,843,194 |
| `employer_safety` | Do capacity and quota hold beside edits and reviews that ignore them? | 2 posts, 1 employer request, 2 administrators, capacity 1, 1 submission a tick, 1 tick, stops | 2,362,887 |

`two_accepted` is a disagreement between the code and what a document says of it;
`findings` quotes both sides.  A create that has passed `assertNoAcceptedQuote`
while the earlier quote was still sent inserts its draft after the acceptance
freed the active slot.

Further behaviours that a reader of the code would not expect are in the models,
and the properties are stated around them; `hazards` names their lines:

* a request that is cancelled while its quote is being accepted;
* a caller that names a version which is stored only after its load: its command
  passes the compare-and-set with what it decided on an older document, so a quote is sent
  with the totals of former fee lines (`early`), an accepted document is replaced
  (`AttachesUnseen`), a case is ready with a required task open (`unseen`) and a task
  that was requested is lost (`NamedLater`).  Commands on requests, reviews that accept,
  grants and revocations compare the version with their load and are free of it;
* a revocation reported to the customer, and undone when the audit record of the
  handler that made it fails (`told`);
* a second effect after a `perform` that outlasts `staleMs` (`Prompt` leaves it out of
  `idempotency_prompt`, and only of that run);
* a second runner that loads the jobs of a batch whose key has expired, a job put
  back to pending though it was completed, by the second of two administrators
  (`shared`), a second effect after a refused completing save (`excused`), and a dead
  e-mail whose retry is not stored (`lost`);
* the retries of an undeliverable e-mail, which never end (the number of ids cuts them);
* a job left in processing, and a scan job left on its last lease (`Stranded`);
* a filing whose authorization was taken back by a compensation (`harmed`);
* a verdict that was stored and never applied to the requirement;
* the bulk publication of posts above the capacity (`loose`), a quota judged twice
  before either submission is saved (`beside`), a reopened post that cannot be
  submitted again.

### Bounds

* *One request, one case, one requirement, one account, one employer.*  Two of a
  kind share nothing; the quantifiers of the properties range over what belongs to
  one, and the proofs cover any number of quotes, handlers, workers, tokens, posts.
* *Two quotes, two uploads, two authorizations, two posts.*  One slot each: two
  competitors are the least that can conflict.  Two handlers at a time already
  place any command between any two operations of another; `TwoAtATime` in
  `MCGbsFiling` and `MCEmployerJobs` keeps four and three actors to two at once,
  and lets any of them be the two.
* *`MaxVersion = 1`, `MaxClock = 1` of the engagement.*  A draft is edited from version
  0 only; every stale-version conflict occurs with one edit in between.  One tick makes an offer of one unit
  lapse.
* *`Ahead = 1`, `AheadCase = 1`.*  A caller one version ahead of its load needs one
  write of another in between, one further ahead two, and what it then overwrites is
  of the same kind.  `engagement_cleanup` and `two_accepted` have `Ahead = 0`: what they
  ask does not depend on the fee lines.
* *`engagement_cleanup` has one quote*: the cleanup of each quote is separate,
  and the temporal property is per quote.
* *Three or four calls of a key.*  A holder, a call that takes over, and a third
  that resumes while the others still perform.
* *Jobs.*  Two attempts: one that fails and one that is the last.  In `jobs_once`,
  three ids are a job, its retry, and the retry of that or a job about something else;
  `Limit = 2` leaves a job out of a batch.  `FewMishaps` stops a behaviour at the second
  mishap (`MaxMishaps = 1`): each kind occurs, and what else is promised then is
  still checked.  The instance with two ids and two mishaps passes too, and without the
  bound the theorems of `JobQueueProof` hold.  In `jobs_live`, `Limit` covers all the ids, because
  the model leaves open the order of due times, without which a smaller batch might
  pass over a job for ever; `FewAttempts` cuts what a stale save begins again.
* *`MaxAttempts = 2` of scans*: a worker that lost its lease beside the one that
  took over.  `docs_live` has a third, so that an attempt that was given back, one
  that was dropped and a last one all occur.
* *`ShortWithFiling` in `MCGbsFiling`*: while there is an authorization the case is
  as opened or has ended, since authorizations and filings look at nothing but
  whether it has ended; the life of the case is explored without them, and
  the proof has both together.
* *Four tokens of a session, three requests.*  A first token, two successors of it
  raced for, and one more; a winner, a loser and a request that presents the
  replaced token.  Window and clock let a repeat fall inside and outside.
* *One employer request at a time* in `employer_safety`: two submissions at once, and an
  edit saved over a submission, are covered by the theorems alone, for any number.
* *One submission a tick, capacity 1, two accepted submissions or one paid post*
  (`TwoFreeOrOnePaid`): a second submission in the same window, one in the next,
  and a second approval are each there.

### Symmetry, deadlock and fairness

Symmetry (quotes, cases, handlers, calls, jobs, runners, uploads, workers, tasks,
sessions, posts) is used only in runs without a temporal property of liveness.
Deadlock is not checked because each model may rightly stop: an engagement when
everything is decided and the ids are used up, a key when all its calls are
answered, a queue when all jobs are over, documents when all requests are done
and the queue is empty.

Fairness is per actor and, but for two conditions of the job queue, weak.

* *Engagement and store.*  `WF(Continue(p))`: Node's event loop runs every
  handler that has not stopped, and each database call returns or throws; no
  caller is obliged to send a command, so `Begin` is not fair.  The waits of the
  store have deadlines, hence `GiveUp` is part of `Continue`.
* *Job queue.*  `worker.js` polls on a timer (`WF` of some `Acquire`), a runner
  goes on with its batch (`WF(Step(w))`), Redis expires the key
  (`WF(LockExpires)`), time passes (`WF(ComeDue(j))`).  `SF` of `Find` and of
  `Begin(w, j)` says that stops and refused saves do not recur each time a batch
  is about to be loaded or a job begun: without it a queue whose every
  process dies at once would be a counterexample.  Nothing is assumed of the
  executions: they may all fail.
* *Scan queue.*  The loop of a worker claims again and again and carries on what it
  claimed (`WF` of some `Claim(s, v)` and of `ScanStep(s)`); nothing is assumed
  of customers, providers, or of the scanner's answers.  A worker may stop at any
  operation, since the attempts bound how often.

The two liveness properties about jobs except what no query of the code finds
again, and name it: `Stranded`.

## 4. Proofs

All proofs are checked by TLAPS for every value of the constants that satisfies
the modules' assumptions.

**Engagement.**  `IInv` is `TypeOK`, `DataInv` (the four safety invariants, and
that a stored quote has a request) and `HandlerInv`: what a handler
remembers is still true of the documents as far as its next operation relies on
it, for instance that a quote whose version has not moved still has the fee
lines read with that version.  Without `HandlerInv` the totals written by a send
could not be related to the fees stored at that moment.  The proof separates
steps that touch documents (`DataStep`) from steps of a handler alone
(`LocalStep`) and shows once that the memory of the *other* handlers survives
any update (`StandingHandler`).

* `TypeCorrect`, `EngagementSafety` (all four invariants of the safety run),
  `DecisionsAreFinal`.
* `EngagementImplementsContract`: each step of a handler is a step of the
  contract or leaves its view unchanged.
* `CancelledOffersAreOwned`, if no API instance stops (`~MayCrash`; one that does
  leaves the offer to nobody, as the code has no job that looks for it).  `OwnInv`
  adds to `IInv` that the offer of a cancelled request has an owner (`Owns`): a
  cancel past its commit whose closing updates have not read the quotes yet or
  still hold this one, or a send that has yet to look at the request again.  It also
  says which request a sender remembers (`SenderKnows`).  Ownership passes from one
  handler to another without either writing to the other, so every step of every
  handler is shown to keep the owners (`OwnStep`): a cancel becomes the owner
  through the commit that cancels the request, a sender through the commit that
  sends, and neither ends before it has withdrawn what it owns or has found it
  moved.

**Idempotency store.**

* `StoreTypeCorrect`: without restriction.
* `OneResultPerKey`: if the record does not expire, answers agree, one
  fingerprint is served, completions name a performed effect.  The invariant
  `RecordInv` says that whoever performs or has performed carries the stored
  fingerprint, that a completed record names an effect, and that every answer
  with a result is still the record's: completed is never left.
* `DuplicatesAreAccounted`: if moreover no perform outlasts `staleMs`.
  `HolderInv` says that one call at most is performing, that its reservation is
  then young, and that the one effect nobody has to account for belongs to the
  completed record or to the holder on its way to complete it.
* `CompletionsArePerformed`: without restriction.  `BackedInv` follows an effect
  from the call that had it to the record and from there to every answer, so it
  survives expiry and the takeover of a record whose holder still performs.
* `ReplaySafeCommands`: a command that recognises its own effect (`ReplaySafe`)
  gives agreeing answers for one fingerprint though records expire and performs
  overrun.  `OneEffect` says that all effects of the key are the same, which with
  `BackedInv` is all the answers need: the record is not what protects such a
  command.

**Job queue.**

* `QueueTypeCorrect`: without restriction.
* `EffectsImplementQueue`: the history of `JobQueueEffects` restricts no step, so its
  theorems speak of the queue as it is.  None of them has a hypothesis: runners and
  administrators are of any number, batches outlast the lock, saves are refused and
  processes stop at every step.
* `LockSeparates`: what is in two hands is `shared`.  The invariant `Guarded` says that
  whoever does not hold the key has no unbegun jobs but shared ones; an expiring key and the
  unconditional delete share the jobs of whoever held it then.
* `CompletedStaysCompleted`: `TurnInv` says, of jobs that are not shared, that what a
  runner executes is processing, what remains of its batch is pending, what an
  administrator is putting back is still dead, and that a job is executed by one runner.
* `EventsSentOnce`: `RootInv` says that an event whose retry is stored is not enqueued anew,
  and that only e-mails have retries; `EffectInv` that of the jobs of an event to which no
  mishap happened one at most may still have its effect or has had it, and that a job
  with an effect is over or about to be completed.
* `DeadMailHasRetry`: `MailInv` says that the attempts of a document in processing are
  those its runner counted, and that the retry is stored before the job that needs it is
  buried.

**Case life.**  `CaseInv` rests on `SeenIsPast`, the meaning of `recordVersion`: what
a handler has loaded is the stored case as long as the versions agree.  Where the caller named the version of
the load, it turns a
decision on the loaded case into one on the stored case, for `MarkReady`
(`ReadyCasesAreDone`) as for the array that `CompleteTask` writes back
(`NoTaskIsLost`); where it named a later one, `NamedLater` marks the step, and the
theorems except it.  `CaseTypeCorrect` is the type.

**Filing.**  `FilingImplementsCaseLife` first: no step of a filing handler writes
the case.  `FiledCasesAreDone` follows from it and from the theorem on the case.
`FilingInv` says that an effective authorization is the only one; that a
revocation belongs to one handler until it is confirmed or taken back; that a
submission belongs to the handler that stored it until that handler is done; and
that, until something is `harmed`, whoever is past the claim relies on an
authorization still claimed or used.  The theorems are `FilingTypeCorrect`,
`FilingsAreAuthorized`, `RevocationsHold` and `UsedAuthorizationsAreFiled`; the
last two need no restriction.

**Case documents.**  `DocInv` says how far each upload has got, that the worker
about to apply a verdict is the only one and carries the verdict that is stored
(`OneApplies`), and that the requirement still waits for it.  The last is what
makes an update without `recordVersion` in its filter harmless to an accepted
document.  An upload that named the version of its load and meets it at the write has
looked at the requirement it replaces; `AcceptanceLocks` rests on that, and has the step
of an upload that named a later one as its exception.  The theorems are `DocumentsTypeCorrect`, `OnlyCleanIsReviewed`,
`BytesAreLabelled`, `AttachedIsScanned`, `VerdictsAreFinal` and `AcceptanceLocks`.

**Refresh sessions.**  The core of `SessionInv` is that a token given to a client
never becomes current again once it is replaced: whoever has won with it is alone,
and whoever lost with it will not find it current when the session is judged.
`VersionsCount` ties `tokenVersion` to the count of changes.  The theorems are
`SessionsTypeCorrect`, `TokensHaveOneSuccessor`, `EndedSessionsStay`,
`ChangesBar` and `WinnersAreSpared`.

**Employer job posts.**  `CapacityInv`: one transaction at most is open, and what
it counted at its start bounds the posts published under the guard until it ends,
because everybody else can only make them fewer (`GuardExcludes`).
`ApprovalsWithinCapacity` follows, for every capacity; `TypeCorrect` is the type.

`QuotaHolds` proves `ChargesWithinQuota` for every set of quotas and without a
further assumption.  What the quota counts are charges stored on posts, what the
property counts are accepted submissions.  `ChargesKept` relates them by a
one-to-one correspondence that each step carries along, so no induction over the
list is needed; the equality of the two numbers (`QuotaCountsAccepted`) follows from
the library's theorem on bijections of finite sets.  `SubmissionsStayCharged` states
the correspondence by itself: no late save, rejection or closing loses a charge.
`JudgedHolds` says that the room a submission was judged to have is still there if
nothing was accepted since, as time only moves charges out of a window.

*Only model-checked.*  Liveness (`SentOnCancelledIsWithdrawn`,
`EveryCallAnswered`, `EveryJobSettles`, `EveryScanEnds`), because the prover does
not handle fairness or ENABLED, and the violation.  Every invariant and every
action property of the passing runs is proved, for the store and for
`CancelledOffersAreOwned` under the hypotheses named above.
The type invariants of `IdempotencyStore`, `JobQueue` and `EmployerJobs` are
proved and in no run.

## 5. Not modelled

The repository is large, and most of it has no state whose interleaving matters:
presentation, text and translations, seed data, ranking, content editing, imports,
deployment.  Payments are simulated in the repository.  The transactional
free-beta submission has no adapter for its ports: what its transaction reads and
writes is not determined by the code.  Access authorization writes nothing.

Inside the modelled parts:

* audits and notifications, which are written after the update they report and
  read by no command, except where their failure is compensated (filings);
* the process-local idempotency store, which
  `services/platform/idempotencyService.js` hands out only to a caller that asks
  for it;
* the revision numbers of quotes and drafts left on a cancelled request, which are
  modelled but have no property of their own;
* `invalidateFilingAuthorization`, `incrementTokenVersionForAdminRevoke`
  (called by tests only), and stored token versions that are not numbers;
* posts that administrators create, edit, duplicate or delete, activation by a
  payment, the closing of a post whose openings are filled;
* a second requirement of a case, and what the availability of packs answers.

## 6. Plan

Modules to come, the most important behaviour first:

1. `ApplicationOffers` (`services/applicationOfferService.js`): an offer decided
   while the application changes its status.
2. `ContentLocks` (`services/workflow/`): locks that expire under their holder,
   scheduled transitions that run beside manual ones.
3. The education marketplace (`consultationService.js`, `caseManagementService.js`,
   `commerceService.js`): single documents with a status and no version.
4. Capability claims, listings and their reviews: what the engagement reads as the
   authority gate, to be composed with it.
5. The case as `GbsCaseDocuments` sees it, by the life of the case itself:
   `CloseCase` refined by the commands of `GbsCaseLife`, and the documents in the
   readiness of `MarkReady`.

Proofs to come: those of the modules above, each with its inductive invariant.
Runs stay few: related invariants of a module share one instance, and a run is
added only for a different question.
