--------------------------- MODULE GbsEngagement ---------------------------
(***************************************************************************)
(* The Business Services engagement: a customer's service request, the     *)
(* provider's quotes on it and the cases opened from accepted quotes.      *)
(* Three MongoDB collections are shared by every API instance; there are   *)
(* no multi-document transactions.  Each HTTP command runs as an           *)
(* asynchronous handler that alternates reads with single-document         *)
(* findOneAndUpdate calls, so between two of its database operations the   *)
(* handlers of other commands may run.  A handler is an element of         *)
(* Handlers; pc says which database operation it performs next and ctx     *)
(* what it remembers of the operations it has already performed.           *)
(***************************************************************************)
EXTENDS Naturals

CONSTANTS
    Requests,    \* identities of GbsServiceRequest documents
    Quotes,      \* identities of GbsQuote documents
    Cases,       \* identities of GbsCase documents
    Handlers,    \* command executions in flight, over all API instances
    Fees,        \* professional fee lines a provider may enter
    NoFees,      \* the empty fee lines of a new draft
    None,        \* absence of a reference
    Validity,    \* lengths of time (validForDays) a quote may be offered for
    MaxClock,    \* bound: the server clock stops here
    MaxVersion,  \* bound: a draft at this recordVersion is not edited again
    Ahead,       \* bound: how far past the stored version a caller may name one
    MayCrash     \* whether an API instance may stop in the middle of a handler

ASSUME EngagementAssumption ==
    /\ None \notin Requests \cup Quotes \cup Cases
    /\ NoFees \notin Fees
    /\ Validity \subseteq Nat \ {0}
    /\ MaxClock \in Nat
    /\ MaxVersion \in Nat
    /\ Ahead \in Nat
    /\ MayCrash \in BOOLEAN

VARIABLES
    clock,    \* the server clock, in the unit of Validity
    request,  \* [Requests -> status and recordVersion]
    quote,    \* [Quotes -> the stored quote document]
    caseOf,   \* [Cases -> quoteId of the stored case document, None if absent]
    pc,       \* [Handlers -> the next database operation]
    ctx,      \* [Handlers -> what the handler has read or been given]
    early     \* history: the quotes sent from a load older than the version named

vars == <<clock, request, quote, caseOf, pc, ctx, early>>

-----------------------------------------------------------------------------
(* Statuses and types *)

RequestStatus == {"absent", "submitted", "provider_reviewing",
                  "ready_for_quote", "declined", "cancelled"}

QuoteStatus == {"absent", "draft", "sent", "accepted", "declined",
                "withdrawn", "expired"}

ActiveStatus   == {"draft", "sent"}
TerminalStatus == {"accepted", "declined", "withdrawn", "expired"}

(* The statuses from which a request may be moved to target:               *)
(* providerCanReview, providerCanDecline, providerCanReadyForQuote and     *)
(* customerCanCancel.                                                      *)
AllowedFrom(target) ==
    CASE target = "provider_reviewing" -> {"submitted"}
      [] target \in {"declined", "ready_for_quote"} ->
            {"submitted", "provider_reviewing"}
      [] OTHER -> {"submitted", "provider_reviewing", "ready_for_quote"}

ProviderTarget == {"provider_reviewing", "declined", "ready_for_quote"}
Decision       == {"accepted", "declined"}

Stage == {"idle", "requestCommit",
          "cancelExpire", "cancelAccepted", "cancelSent", "cancelCommit",
          "closeDraftsFind", "closeDrafts", "closeSentFind", "closeSent",
          "createAccepted", "createExpire", "createRevision", "createInsert",
          "updateCommit",
          "sendRequest", "sendFresh", "sendCommit", "sendAfter", "sendUndo",
          "withdrawCommit",
          "decideRequest", "decideFresh", "decideCommit",
          "ensureExisting", "ensureAgain", "ensureInsert"}

RequestDoc == [status : RequestStatus, ver : Nat]
QuoteDoc   == [status : QuoteStatus, req : Requests \cup {None}, ver : Nat,
               rev : Nat, fees : Fees \cup {NoFees},
               total : Fees \cup {NoFees}, expiresAt : Nat]
Context    == [r : Requests \cup {None}, q : Quotes \cup {None},
               target : RequestStatus \cup QuoteStatus, ver : Nat, seen : Nat,
               now : Nat, fees : Fees \cup {NoFees}, days : Nat, rev : Nat,
               todo : SUBSET Quotes]

Blank == [r |-> None, q |-> None, target |-> "absent", ver |-> 0, seen |-> 0,
          now |-> 0, fees |-> NoFees, days |-> 0, rev |-> 0, todo |-> {}]

NewQuote == [status |-> "absent", req |-> None, ver |-> 0, rev |-> 0,
             fees |-> NoFees, total |-> NoFees, expiresAt |-> 0]

TypeOK ==
    /\ clock \in Nat
    /\ request \in [Requests -> RequestDoc]
    /\ quote \in [Quotes -> QuoteDoc]
    /\ caseOf \in [Cases -> Quotes \cup {None}]
    /\ pc \in [Handlers -> Stage]
    /\ ctx \in [Handlers -> Context]
    /\ early \subseteq Quotes

-----------------------------------------------------------------------------
(* Queries on the stored documents *)

QuotesOf(r) == {q \in Quotes : quote[q].status # "absent" /\ quote[q].req = r}
QuotesIn(r, status) == {q \in QuotesOf(r) : quote[q].status = status}

(* computeExpiresAt.  The faulty form subtracts.                            *)
FaultyComputeExpiresAt(sentAt, days) == sentAt - days
ComputeExpiresAt(sentAt, days) == sentAt + days

(* quoteIsEffectivelyExpired: a sent quote whose expiresAt is not after now *)
Due(q, now) == quote[q].status = "sent" /\ quote[q].expiresAt <= now

(* The partial unique index on {serviceRequestId : draft or sent}.  The    *)
(* faulty form is an index whose filter forgets sent quotes.               *)
FaultyActiveSlotFree(r) == \A q \in QuotesOf(r) : quote[q].status # "draft"
ActiveSlotFree(r) == \A q \in QuotesOf(r) : quote[q].status \notin ActiveStatus

(* The unique index on GbsCase.quoteId.  The faulty form has no index.     *)
FaultyCaseSlotFree(q) == q \in Quotes
CaseSlotFree(q) == \A c \in Cases : caseOf[c] # q

(* A sent quote can be decided while its offer has not lapsed at now.      *)
OfferOpen(q, now) == quote[q].status = "sent" /\ quote[q].expiresAt > now

RequestIsReady(r) == request[r].status = "ready_for_quote"

(* The optimistic concurrency predicate of mutateGbsServiceRequestRecord   *)
(* and mutateGbsQuoteRecord: recordVersion is still the expected one.  The *)
(* faulty forms leave the version out of the filter.                       *)
FaultyRequestUnmoved(r, ver) == ver \in Nat
FaultyQuoteUnmoved(q, ver)   == ver \in Nat
RequestUnmoved(r, ver) == request[r].ver = ver
QuoteUnmoved(q, ver)   == quote[q].ver = ver

-----------------------------------------------------------------------------
(* Effects *)

(* Every update of a stored document also increments its recordVersion.    *)
SetRequest(r, status) ==
    request' = [request EXCEPT ![r].status = status, ![r].ver = @ + 1]

SetQuote(q, status) ==
    quote' = [quote EXCEPT ![q].status = status, ![q].ver = @ + 1]

Start(p, stage, c) ==
    /\ pc[p] = "idle"
    /\ pc' = [pc EXCEPT ![p] = stage]
    /\ ctx' = [ctx EXCEPT ![p] = c]

Goto(p, stage) ==
    /\ pc' = [pc EXCEPT ![p] = stage]
    /\ UNCHANGED ctx

(* The handler answers its caller, with a result or with an error. *)
Finish(p) ==
    /\ pc' = [pc EXCEPT ![p] = "idle"]
    /\ ctx' = [ctx EXCEPT ![p] = Blank]

(* Continue at stage when ok holds, otherwise answer with an error. *)
Check(p, ok, stage) ==
    /\ IF ok THEN Goto(p, stage) ELSE Finish(p)
    /\ UNCHANGED <<clock, request, quote, caseOf, early>>

UnchangedData == UNCHANGED <<clock, request, quote, caseOf, early>>

-----------------------------------------------------------------------------
(* Requests.  assertExpected refuses a caller whose expectedVersion is not *)
(* that of the load, so the version held is the version at the load.       *)

SubmitRequest(r) ==
    /\ request[r].status = "absent"
    /\ request' = [request EXCEPT ![r].status = "submitted"]
    /\ UNCHANGED <<clock, quote, caseOf, pc, ctx, early>>

BeginTransition(p, r, target) ==
    /\ request[r].status \in AllowedFrom(target)
    /\ Start(p, "requestCommit",
             [Blank EXCEPT !.r = r, !.target = target, !.ver = request[r].ver])
    /\ UnchangedData

CommitTransition(p) ==
    /\ pc[p] = "requestCommit"
    /\ IF RequestUnmoved(ctx[p].r, ctx[p].ver)
       THEN SetRequest(ctx[p].r, ctx[p].target)
       ELSE UNCHANGED request
    /\ Finish(p)
    /\ UNCHANGED <<clock, quote, caseOf, early>>

BeginCancel(p, r) ==
    /\ request[r].status \in AllowedFrom("cancelled")
    /\ Start(p, "cancelExpire",
             [Blank EXCEPT !.r = r, !.ver = request[r].ver])
    /\ UnchangedData

(* normalizeExpiredQuoteForMutation on the request's sent quote: the read  *)
(* and the compare-and-set are one step because the set repeats what the   *)
(* read tested.                                                            *)
NormalizeSentOf(p, r) ==
    \/ \E q \in QuotesIn(r, "sent") : Due(q, clock) /\ SetQuote(q, "expired")
    \/ /\ \A q \in QuotesIn(r, "sent") : ~Due(q, clock)
       /\ UNCHANGED quote

CancelExpire(p) ==
    /\ pc[p] = "cancelExpire"
    /\ NormalizeSentOf(p, ctx[p].r)
    /\ Goto(p, "cancelAccepted")
    /\ UNCHANGED <<clock, request, caseOf, early>>

CancelCheckAccepted(p) ==
    /\ pc[p] = "cancelAccepted"
    /\ Check(p, QuotesIn(ctx[p].r, "accepted") = {}, "cancelSent")

CancelCheckSent(p) ==
    /\ pc[p] = "cancelSent"
    /\ Check(p, QuotesIn(ctx[p].r, "sent") = {}, "cancelCommit")

CancelCommit(p) ==
    /\ pc[p] = "cancelCommit"
    /\ \/ /\ RequestUnmoved(ctx[p].r, ctx[p].ver)
          /\ SetRequest(ctx[p].r, "cancelled")
          /\ Goto(p, "closeDraftsFind")
       \/ /\ ~RequestUnmoved(ctx[p].r, ctx[p].ver)
          /\ Finish(p)
          /\ UNCHANGED request
    /\ UNCHANGED <<clock, quote, caseOf, early>>

(* closeDraftsForCancelledRequest: list, then close one at a time.  The    *)
(* faulty form lists the drafts both times.                                *)
FaultyCloseFind(p, at, status, next) ==
    /\ pc[p] = at
    /\ pc' = [pc EXCEPT ![p] = next]
    /\ ctx' = [ctx EXCEPT ![p].todo = QuotesIn(ctx[p].r, "draft")]
    /\ UnchangedData

CloseFind(p, at, status, next) ==
    /\ pc[p] = at
    /\ pc' = [pc EXCEPT ![p] = next]
    /\ ctx' = [ctx EXCEPT ![p].todo = QuotesIn(ctx[p].r, status)]
    /\ UnchangedData

(* The faulty forms update by _id alone, and drafts only.                  *)
FaultyCloseDraftOnly(p, at, status) ==
    /\ pc[p] = at
    /\ \E q \in ctx[p].todo :
          /\ IF quote[q].status = "draft"
             THEN SetQuote(q, "withdrawn")
             ELSE UNCHANGED quote
          /\ ctx' = [ctx EXCEPT ![p].todo = @ \ {q}]
    /\ UNCHANGED <<clock, request, caseOf, pc, early>>

FaultyCloseOne(p, at, status) ==
    /\ pc[p] = at
    /\ \E q \in ctx[p].todo :
          /\ SetQuote(q, "withdrawn")
          /\ ctx' = [ctx EXCEPT ![p].todo = @ \ {q}]
    /\ UNCHANGED <<clock, request, caseOf, pc, early>>

CloseOne(p, at, status) ==
    /\ pc[p] = at
    /\ \E q \in ctx[p].todo :
          /\ IF quote[q].status = status
             THEN SetQuote(q, "withdrawn")
             ELSE UNCHANGED quote
          /\ ctx' = [ctx EXCEPT ![p].todo = @ \ {q}]
    /\ UNCHANGED <<clock, request, caseOf, pc, early>>

CloseDraftsFind(p) == CloseFind(p, "closeDraftsFind", "draft", "closeDrafts")
CloseDraft(p)      == CloseOne(p, "closeDrafts", "draft")
CloseDraftsDone(p) ==
    /\ pc[p] = "closeDrafts" /\ ctx[p].todo = {}
    /\ Goto(p, "closeSentFind")
    /\ UnchangedData

CloseSentFind(p) == CloseFind(p, "closeSentFind", "sent", "closeSent")
CloseSent(p)     == CloseOne(p, "closeSent", "sent")
CloseSentDone(p) ==
    /\ pc[p] = "closeSent" /\ ctx[p].todo = {}
    /\ Finish(p)
    /\ UnchangedData

-----------------------------------------------------------------------------
(* Quotes: provider commands.  The expectedVersion of a quote command goes *)
(* to the compare-and-set as the caller gave it; nothing compares it with  *)
(* the quote that was loaded.  A stored version never decreases, so a      *)
(* caller behind the load only fails; one ahead of it passes when others   *)
(* have brought the quote there by then.                                   *)

Claims(version) == version .. version + Ahead

BeginCreate(p, r) ==
    /\ RequestIsReady(r)
    /\ Start(p, "createAccepted", [Blank EXCEPT !.r = r])
    /\ UnchangedData

(* assertNoAcceptedQuote *)
CreateCheckAccepted(p) ==
    /\ pc[p] = "createAccepted"
    /\ Check(p, QuotesIn(ctx[p].r, "accepted") = {}, "createExpire")

CreateExpire(p) ==
    /\ pc[p] = "createExpire"
    /\ NormalizeSentOf(p, ctx[p].r)
    /\ Goto(p, "createRevision")
    /\ UNCHANGED <<clock, request, caseOf, early>>

(* nextRevisionForRequest: one more than the latest revision stored *)
CreateReadRevision(p) ==
    /\ pc[p] = "createRevision"
    /\ pc' = [pc EXCEPT ![p] = "createInsert"]
    /\ \/ /\ QuotesOf(ctx[p].r) = {}
          /\ ctx' = [ctx EXCEPT ![p].rev = 1]
       \/ \E latest \in QuotesOf(ctx[p].r) :
             /\ \A q \in QuotesOf(ctx[p].r) : quote[q].rev <= quote[latest].rev
             /\ ctx' = [ctx EXCEPT ![p].rev = quote[latest].rev + 1]
    /\ UnchangedData

(* The insert; a duplicate in the active slot is active_quote_exists. *)
CreateInsert(p) ==
    /\ pc[p] = "createInsert"
    /\ \/ /\ ActiveSlotFree(ctx[p].r)
          /\ \E q \in Quotes :
                /\ quote[q].status = "absent"
                /\ quote' = [quote EXCEPT ![q] =
                       [NewQuote EXCEPT !.status = "draft", !.req = ctx[p].r,
                                        !.rev = ctx[p].rev]]
       \/ /\ ~ActiveSlotFree(ctx[p].r)
          /\ UNCHANGED quote
    /\ Finish(p)
    /\ UNCHANGED <<clock, request, caseOf, early>>

BeginUpdate(p, q, ver, fees) ==
    /\ quote[q].status = "draft"
    /\ quote[q].ver < MaxVersion
    /\ Start(p, "updateCommit",
             [Blank EXCEPT !.q = q, !.ver = ver, !.fees = fees])
    /\ UnchangedData

UpdateCommit(p) ==
    /\ pc[p] = "updateCommit"
    /\ LET q == ctx[p].q IN
          IF QuoteUnmoved(q, ctx[p].ver) /\ quote[q].status = "draft"
          THEN quote' = [quote EXCEPT ![q].fees = ctx[p].fees,
                                      ![q].total = ctx[p].fees,
                                      ![q].ver = @ + 1]
          ELSE UNCHANGED quote
    /\ Finish(p)
    /\ UNCHANGED <<clock, request, caseOf, early>>

(* The fee lines read here are the ones the totals are computed from.      *)
BeginSend(p, q, ver, days) ==
    /\ quote[q].status = "draft"
    /\ quote[q].fees # NoFees
    /\ Start(p, "sendRequest",
             [Blank EXCEPT !.q = q, !.r = quote[q].req, !.ver = ver,
                           !.seen = quote[q].ver, !.fees = quote[q].fees,
                           !.days = days, !.now = clock])
    /\ UnchangedData

SendCheckRequest(p) ==
    /\ pc[p] = "sendRequest"
    /\ Check(p, RequestIsReady(ctx[p].r), "sendFresh")

SendCheckFresh(p) ==
    /\ pc[p] = "sendFresh"
    /\ Check(p, RequestIsReady(ctx[p].r), "sendCommit")

SendCommit(p) ==
    /\ pc[p] = "sendCommit"
    /\ LET q == ctx[p].q IN
          \/ /\ QuoteUnmoved(q, ctx[p].ver)
             /\ quote[q].status = "draft"
             /\ quote' = [quote EXCEPT
                             ![q].status = "sent",
                             ![q].total = ctx[p].fees,
                             ![q].expiresAt = ComputeExpiresAt(ctx[p].now, ctx[p].days),
                             ![q].ver = @ + 1]
             /\ early' = IF ctx[p].ver = ctx[p].seen THEN early ELSE early \cup {q}
             /\ Goto(p, "sendAfter")
          \/ /\ ~(QuoteUnmoved(q, ctx[p].ver) /\ quote[q].status = "draft")
             /\ Finish(p)
             /\ UNCHANGED <<quote, early>>
    /\ UNCHANGED <<clock, request, caseOf>>

(* After the send: a request that is no longer ready takes the quote back. *)
SendCheckAfter(p) ==
    /\ pc[p] = "sendAfter"
    /\ IF RequestIsReady(ctx[p].r) THEN Finish(p) ELSE Goto(p, "sendUndo")
    /\ UnchangedData

SendUndo(p) ==
    /\ pc[p] = "sendUndo"
    /\ IF quote[ctx[p].q].status = "sent"
       THEN SetQuote(ctx[p].q, "withdrawn")
       ELSE UNCHANGED quote
    /\ Finish(p)
    /\ UNCHANGED <<clock, request, caseOf, early>>

BeginWithdraw(p, q, ver) ==
    /\ quote[q].status \in ActiveStatus
    /\ ~Due(q, clock)
    /\ Start(p, "withdrawCommit",
             [Blank EXCEPT !.q = q, !.ver = ver, !.now = clock,
                           !.target = quote[q].status])
    /\ UnchangedData

(* ctx.target is the status the quote was loaded in. *)
WithdrawCommit(p) ==
    /\ pc[p] = "withdrawCommit"
    /\ LET q == ctx[p].q IN
          IF /\ QuoteUnmoved(q, ctx[p].ver)
             /\ IF ctx[p].target = "sent"
                THEN OfferOpen(q, ctx[p].now)
                ELSE quote[q].status = "draft"
          THEN SetQuote(q, "withdrawn")
          ELSE UNCHANGED quote
    /\ Finish(p)
    /\ UNCHANGED <<clock, request, caseOf, early>>

(* A send, withdraw, accept or decline that loads a lapsed sent quote only *)
(* persists its expiry, then answers with an error.                        *)
ExpireOnLoad(q) ==
    /\ Due(q, clock)
    /\ SetQuote(q, "expired")
    /\ UNCHANGED <<clock, request, caseOf, pc, ctx, early>>

-----------------------------------------------------------------------------
(* Quotes: the customer's decision, and the case of an accepted quote *)

BeginDecision(p, q, ver, decision) ==
    /\ OfferOpen(q, clock)
    /\ Start(p, "decideRequest",
             [Blank EXCEPT !.q = q, !.r = quote[q].req, !.ver = ver,
                           !.target = decision, !.now = clock])
    /\ UnchangedData

DecideCheckRequest(p) ==
    /\ pc[p] = "decideRequest"
    /\ Check(p, RequestIsReady(ctx[p].r), "decideFresh")

DecideCheckFresh(p) ==
    /\ pc[p] = "decideFresh"
    /\ Check(p, RequestIsReady(ctx[p].r), "decideCommit")

DecideCommit(p) ==
    /\ pc[p] = "decideCommit"
    /\ LET q  == ctx[p].q
           ok == QuoteUnmoved(q, ctx[p].ver) /\ OfferOpen(q, ctx[p].now)
       IN  /\ IF ok THEN SetQuote(q, ctx[p].target) ELSE UNCHANGED quote
           /\ IF ok /\ ctx[p].target = "accepted"
              THEN Goto(p, "ensureExisting")
              ELSE Finish(p)
    /\ UNCHANGED <<clock, request, caseOf, early>>

(* ensureCustomerCaseForQuote, ensureProviderCaseForQuote, and an accept   *)
(* repeated after the quote was accepted: the case is asked for again.     *)
BeginEnsure(p, q) ==
    /\ quote[q].status = "accepted"
    /\ Start(p, "ensureExisting", [Blank EXCEPT !.q = q])
    /\ UnchangedData

EnsureFindExisting(p) ==
    /\ pc[p] = "ensureExisting"
    /\ Check(p, quote[ctx[p].q].status = "accepted" /\ CaseSlotFree(ctx[p].q),
             "ensureAgain")

EnsureFindAgain(p) ==
    /\ pc[p] = "ensureAgain"
    /\ Check(p, CaseSlotFree(ctx[p].q), "ensureInsert")

(* A duplicate quoteId is answered with the case already stored.           *)
EnsureInsert(p) ==
    /\ pc[p] = "ensureInsert"
    /\ \/ /\ CaseSlotFree(ctx[p].q)
          /\ \E c \in Cases : /\ caseOf[c] = None
                              /\ caseOf' = [caseOf EXCEPT ![c] = ctx[p].q]
       \/ /\ ~CaseSlotFree(ctx[p].q)
          /\ UNCHANGED caseOf
    /\ Finish(p)
    /\ UNCHANGED <<clock, request, quote, early>>

-----------------------------------------------------------------------------
(* The environment *)

(* The authority gate (capability, domain enrolment, listing), read just   *)
(* before these operations, may refuse: an error without a state change.   *)
GateDenied(p) ==
    /\ \/ pc[p] \in {"createAccepted", "sendFresh", "ensureAgain"}
       \/ pc[p] = "requestCommit" /\ ctx[p].target = "ready_for_quote"
       \/ pc[p] = "decideFresh" /\ ctx[p].target = "accepted"
    /\ Finish(p)
    /\ UnchangedData

(* The API instance stops between two database operations. *)
Crash(p) ==
    /\ MayCrash
    /\ pc[p] # "idle"
    /\ Finish(p)
    /\ UnchangedData

Tick ==
    /\ clock < MaxClock
    /\ clock' = clock + 1
    /\ UNCHANGED <<request, quote, caseOf, pc, ctx, early>>

-----------------------------------------------------------------------------
Init ==
    /\ clock = 0
    /\ request = [r \in Requests |-> [status |-> "absent", ver |-> 0]]
    /\ quote = [q \in Quotes |-> NewQuote]
    /\ caseOf = [c \in Cases |-> None]
    /\ pc = [p \in Handlers |-> "idle"]
    /\ ctx = [p \in Handlers |-> Blank]
    /\ early = {}

Begin(p) ==
    \/ \E r \in Requests :
          \/ \E target \in ProviderTarget : BeginTransition(p, r, target)
          \/ BeginCancel(p, r)
          \/ BeginCreate(p, r)
    \/ \E q \in Quotes : \E ver \in Claims(quote[q].ver) :
          \/ \E fees \in Fees \cup {quote[q].fees} : BeginUpdate(p, q, ver, fees)
          \/ \E days \in Validity : BeginSend(p, q, ver, days)
          \/ BeginWithdraw(p, q, ver)
          \/ \E decision \in Decision : BeginDecision(p, q, ver, decision)
    \/ \E q \in Quotes : BeginEnsure(p, q)

(* The next database operation of a handler in flight. *)
Continue(p) ==
    \/ CommitTransition(p)
    \/ CancelExpire(p) \/ CancelCheckAccepted(p) \/ CancelCheckSent(p)
    \/ CancelCommit(p)
    \/ CloseDraftsFind(p) \/ CloseDraft(p) \/ CloseDraftsDone(p)
    \/ CloseSentFind(p) \/ CloseSent(p) \/ CloseSentDone(p)
    \/ CreateCheckAccepted(p) \/ CreateExpire(p) \/ CreateReadRevision(p)
    \/ CreateInsert(p)
    \/ UpdateCommit(p)
    \/ SendCheckRequest(p) \/ SendCheckFresh(p) \/ SendCommit(p)
    \/ SendCheckAfter(p) \/ SendUndo(p)
    \/ WithdrawCommit(p)
    \/ DecideCheckRequest(p) \/ DecideCheckFresh(p) \/ DecideCommit(p)
    \/ EnsureFindExisting(p) \/ EnsureFindAgain(p) \/ EnsureInsert(p)

Next ==
    \/ \E r \in Requests : SubmitRequest(r)
    \/ \E p \in Handlers : Begin(p)
    \/ \E p \in Handlers : Continue(p)
    \/ \E q \in Quotes : ExpireOnLoad(q)
    \/ \E p \in Handlers : GateDenied(p)
    \/ \E p \in Handlers : Crash(p)
    \/ Tick

Spec == Init /\ [][Next]_vars

(* Node's event loop runs every handler that is not stopped to its end; no *)
(* caller is obliged to send a command.                                    *)
FairSpec == Spec /\ \A p \in Handlers : WF_vars(Continue(p))

-----------------------------------------------------------------------------
(* Properties *)

(* The active slot: a service request never has two quotes that are still  *)
(* draft or sent, however creates, sends and closes interleave.            *)
OneActiveQuote ==
    \A q1, q2 \in Quotes :
        (/\ quote[q1].status \in ActiveStatus
         /\ quote[q2].status \in ActiveStatus
         /\ quote[q1].req = quote[q2].req) => q1 = q2

(* A stored case comes from an accepted quote, and two cases never come    *)
(* from the same one, although accept, its repetition and both recovery    *)
(* routes may open it at the same time.                                    *)
CaseRecordsAcceptance ==
    /\ \A c \in Cases : caseOf[c] # None => quote[caseOf[c]].status = "accepted"
    /\ \A c, d \in Cases : caseOf[c] # None /\ caseOf[c] = caseOf[d] => c = d

(* What the customer was asked to pay is what the stored fee lines add up  *)
(* to: sendProviderQuote computes the totals from a read made several      *)
(* operations before its write, and an edit may come in between.  The      *)
(* compare-and-set keeps the two together as long as the caller names the  *)
(* version that was read; a send that named a later one, and found it      *)
(* stored at its write, is the exception (early).                          *)
TotalsMatchFees ==
    \A q \in Quotes \ early :
        quote[q].status \in {"sent", "accepted", "declined", "expired"} =>
            quote[q].fees # NoFees /\ quote[q].total = quote[q].fees

(* A request that carries quotes is ready_for_quote or was cancelled from  *)
(* there: no provider transition decided on an older read of the request   *)
(* takes it back to reviewing or to declined.                              *)
QuotedRequestIsEngaged ==
    \A q \in Quotes : quote[q].status # "absent" =>
        request[quote[q].req].status \in {"ready_for_quote", "cancelled"}

(* A quote whose fate is decided is never written again: the cleanups that *)
(* update without a recordVersion do not overwrite an acceptance.          *)
DecidedQuotesAreFinal ==
    [][\A q \in Quotes :
          quote[q].status \in TerminalStatus => quote'[q] = quote[q]]_vars

(* When no API instance stops, a sent quote on a cancelled request is one  *)
(* that a cancel or the send itself is still about to take back.           *)
SentOnCancelledIsOwned ==
    \A q \in Quotes :
        (quote[q].status = "sent" /\ request[quote[q].req].status = "cancelled") =>
        \E p \in Handlers :
            \/ /\ ctx[p].r = quote[q].req
               /\ pc[p] \in {"closeDraftsFind", "closeDrafts", "closeSentFind"}
            \/ pc[p] = "closeSent" /\ q \in ctx[p].todo
            \/ ctx[p].q = q /\ pc[p] \in {"sendAfter", "sendUndo"}

(* ... and it is taken back: a cancelled request does not keep an offer    *)
(* open.                                                                   *)
SentOnCancelledIsWithdrawn ==
    \A q \in Quotes :
        (quote[q].status = "sent" /\ quote[q].req # None
            /\ request[quote[q].req].status = "cancelled")
        ~> (quote[q].status # "sent")

(* Commands interleaved at every database operation implement commands     *)
(* executed one at a time: the contract's steps, seen through the stored   *)
(* statuses and the cases stored for each quote.                           *)
Contract == INSTANCE GbsEngagementContract WITH
    requestStatus <- [r \in Requests |-> request[r].status],
    quoteStatus   <- [q \in Quotes |-> quote[q].status],
    quoteOf       <- [q \in Quotes |-> quote[q].req],
    cases         <- [q \in Quotes |-> {c \in Cases : caseOf[c] = q}]

ImplementsContract == Contract!ContractSpec

-----------------------------------------------------------------------------
(* What the phase 17D-7 document says and the code does not ensure *)

(* "Accepted Quote is final for that ServiceRequest. No replacement after  *)
(* accept."  A create that passed assertNoAcceptedQuote while the earlier  *)
(* quote was still sent inserts its draft after the accept freed the slot. *)
OneAcceptedQuotePerRequest ==
    \A q1, q2 \in Quotes :
        (/\ quote[q1].status = "accepted"
         /\ quote[q2].status = "accepted"
         /\ quote[q1].req = quote[q2].req) => q1 = q2
=============================================================================
