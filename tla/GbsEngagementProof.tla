------------------------ MODULE GbsEngagementProof ------------------------
(***************************************************************************)
(* Proofs about GbsEngagement for every value of its constants: the type   *)
(* invariant, the safety invariants of the runs through one inductive      *)
(* invariant, the finality of decided quotes, the contract, and, where no  *)
(* instance stops, that somebody takes back the offers of a cancelled      *)
(* request (OwnInv).                                                       *)
(***************************************************************************)
EXTENDS GbsEngagement, TLAPS

-----------------------------------------------------------------------------
(* The inductive invariant *)

Engaged(r) == request[r].status \in {"ready_for_quote", "cancelled"}

CancelStages == {"cancelExpire", "cancelAccepted", "cancelSent", "cancelCommit"}
CloseStages  == {"closeDraftsFind", "closeDrafts", "closeSentFind", "closeSent"}
CreateStages == {"createAccepted", "createExpire", "createRevision",
                 "createInsert"}
SendStages   == {"sendRequest", "sendFresh", "sendCommit"}
DecideStages == {"decideRequest", "decideFresh", "decideCommit"}
EnsureStages == {"ensureExisting", "ensureAgain", "ensureInsert"}

(* A handler that will move a request to target holds a recordVersion that *)
(* is not ahead of the stored one, and while the two agree the request is  *)
(* still where the handler's checks found it.                              *)
HoldsRequest(p, target) ==
    /\ ctx[p].r \in Requests
    /\ ctx[p].ver <= request[ctx[p].r].ver
    /\ ctx[p].ver = request[ctx[p].r].ver =>
          request[ctx[p].r].status \in AllowedFrom(target)

(* A handler that will write a quote holds an existing one; the version it *)
(* holds is the caller's, and may be ahead of the stored one.              *)
HoldsQuote(p) ==
    /\ ctx[p].q \in Quotes
    /\ quote[ctx[p].q].status # "absent"

(* A send remembers the version it loaded, and while that is the stored    *)
(* one the fee lines it computed from are the stored ones.                 *)
KnowsFees(p) ==
    /\ ctx[p].seen <= quote[ctx[p].q].ver
    /\ ctx[p].seen = quote[ctx[p].q].ver =>
          /\ quote[ctx[p].q].fees = ctx[p].fees
          /\ ctx[p].fees # NoFees

HandlerInv(p) ==
    /\ pc[p] = "requestCommit" =>
          ctx[p].target \in ProviderTarget /\ HoldsRequest(p, ctx[p].target)
    /\ pc[p] \in CancelStages => HoldsRequest(p, "cancelled")
    /\ pc[p] \in CloseStages =>
          ctx[p].r \in Requests /\ request[ctx[p].r].status = "cancelled"
    /\ pc[p] \in CreateStages => ctx[p].r \in Requests /\ Engaged(ctx[p].r)
    /\ pc[p] \in SendStages \cup DecideStages \cup {"updateCommit", "withdrawCommit"}
          => HoldsQuote(p)
    /\ pc[p] \in SendStages => KnowsFees(p)
    /\ pc[p] \in {"sendAfter", "sendUndo"} => ctx[p].q \in Quotes
    /\ pc[p] \in DecideStages => ctx[p].target \in Decision
    /\ pc[p] \in EnsureStages =>
          ctx[p].q \in Quotes /\ quote[ctx[p].q].status = "accepted"

QuotesAnswerRequests ==
    \A q \in Quotes : quote[q].status # "absent" => quote[q].req \in Requests

DataInv ==
    /\ QuotesAnswerRequests
    /\ QuotedRequestIsEngaged
    /\ OneActiveQuote
    /\ CaseRecordsAcceptance
    /\ TotalsMatchFees

IInv ==
    /\ TypeOK
    /\ DataInv
    /\ \A p \in Handlers : HandlerInv(p)

-----------------------------------------------------------------------------
(* How the stored documents may change in a step *)

RequestsEvolve ==
    \A r \in Requests :
        \/ request'[r] = request[r]
        \/ request[r].status = "absent" /\ request'[r].ver = request[r].ver
        \/ /\ request'[r].ver = request[r].ver + 1
           /\ request[r].status # "cancelled"
           /\ request[r].status = "ready_for_quote" =>
                 request'[r].status = "cancelled"

QuotesEvolve ==
    \A q \in Quotes :
        \/ quote'[q] = quote[q]
        \/ quote[q].status = "absent"
        \/ /\ quote'[q].ver = quote[q].ver + 1
           /\ quote[q].status \in ActiveStatus
           /\ quote'[q].status # "absent"

(* What a step leaves of the stored documents, and of the handler p that   *)
(* takes it; IInv' follows from the two.                                   *)
DataStep ==
    /\ clock' \in Nat
    /\ request' \in [Requests -> RequestDoc]
    /\ quote' \in [Quotes -> QuoteDoc]
    /\ caseOf' \in [Cases -> Quotes \cup {None}]
    /\ early' \subseteq Quotes
    /\ RequestsEvolve
    /\ QuotesEvolve
    /\ DataInv'

LocalStep(p) ==
    /\ pc' \in [Handlers -> Stage]
    /\ ctx' \in [Handlers -> Context]
    /\ HandlerInv(p)'
    /\ \A o \in Handlers \ {p} : pc'[o] = pc[o] /\ ctx'[o] = ctx[o]

LEMMA AllowedFromFacts ==
    ASSUME NEW t \in ProviderTarget \cup {"cancelled"}
    PROVE  /\ AllowedFrom(t) \subseteq
                 {"submitted", "provider_reviewing", "ready_for_quote"}
           /\ t # "cancelled" => "ready_for_quote" \notin AllowedFrom(t)
  BY DEF AllowedFrom, ProviderTarget

(* The stages of one command that require the same of the documents.       *)
SameKind(s, t) ==
    \/ s = t
    \/ \E F \in {CancelStages, CloseStages, CreateStages, SendStages,
                 DecideStages, EnsureStages} : s \in F /\ t \in F

(* A handler that stays, or moves within its command, keeps its part of    *)
(* the invariant whatever step the others take.                            *)
LEMMA StandingHandler ==
    ASSUME TypeOK, DataStep, NEW p \in Handlers, HandlerInv(p),
           SameKind(pc[p], pc'[p]),
           /\ ctx'[p].r = ctx[p].r
           /\ ctx'[p].q = ctx[p].q
           /\ ctx'[p].target = ctx[p].target
           /\ ctx'[p].ver = ctx[p].ver
           /\ ctx'[p].seen = ctx[p].seen
           /\ ctx'[p].fees = ctx[p].fees
    PROVE  HandlerInv(p)'
  <1>1. ASSUME NEW t \in ProviderTarget \cup {"cancelled"}, HoldsRequest(p, t)
        PROVE  HoldsRequest(p, t)'
    <2> DEFINE r == ctx[p].r
    <2>1. r \in Requests
      BY <1>1 DEF HoldsRequest
    <2>2. /\ request[r].ver \in Nat /\ ctx[p].ver \in Nat
          /\ ctx[p].ver <= request[r].ver
          /\ ctx[p].ver = request[r].ver => request[r].status \in AllowedFrom(t)
      BY <1>1, <2>1 DEF HoldsRequest, TypeOK, RequestDoc, Context
    <2>3. \/ request'[r] = request[r]
          \/ request[r].status = "absent" /\ request'[r].ver = request[r].ver
          \/ request'[r].ver = request[r].ver + 1
      BY <2>1 DEF DataStep, RequestsEvolve
    <2>4. request[r].status = "absent" => request[r].status \notin AllowedFrom(t)
      BY AllowedFromFacts
    <2>5. /\ ctx[p].ver <= request'[r].ver
          /\ ctx[p].ver = request'[r].ver => request'[r].status \in AllowedFrom(t)
      BY <2>2, <2>3, <2>4
    <2>. QED
      BY <2>1, <2>5 DEF HoldsRequest
  <1>2. HoldsQuote(p) => HoldsQuote(p)'
    BY DEF HoldsQuote, DataStep, QuotesEvolve, TypeOK, QuoteDoc, Context
  <1>3. ASSUME NEW r \in Requests, Engaged(r)
        PROVE  Engaged(r)'
    BY <1>3 DEF Engaged, DataStep, RequestsEvolve, TypeOK, RequestDoc
  <1>4. ASSUME NEW r \in Requests, request[r].status = "cancelled"
        PROVE  request'[r].status = "cancelled"
    BY <1>4 DEF DataStep, RequestsEvolve, TypeOK, RequestDoc
  <1>5. ASSUME NEW q \in Quotes, quote[q].status = "accepted"
        PROVE  quote'[q].status = "accepted"
    BY <1>5 DEF DataStep, QuotesEvolve, ActiveStatus, TypeOK, QuoteDoc
  <1>6. ASSUME pc[p] \in SendStages
        PROVE  KnowsFees(p)'
    <2>1. HoldsQuote(p) /\ KnowsFees(p)
      BY <1>6 DEF HandlerInv
    <2>2. \/ quote'[ctx[p].q] = quote[ctx[p].q]
          \/ quote'[ctx[p].q].ver = quote[ctx[p].q].ver + 1
      BY <2>1 DEF HoldsQuote, DataStep, QuotesEvolve
    <2>3. ctx[p].seen \in Nat /\ quote[ctx[p].q].ver \in Nat
      BY <2>1 DEF HoldsQuote, TypeOK, QuoteDoc, Context
    <2>. QED
      BY <2>1, <2>2, <2>3 DEF KnowsFees
  <1>7. /\ pc'[p] = "requestCommit" <=> pc[p] = "requestCommit"
        /\ \A F \in {CancelStages, CloseStages, CreateStages, SendStages,
                     DecideStages, EnsureStages, {"sendAfter", "sendUndo"},
                     SendStages \cup DecideStages
                         \cup {"updateCommit", "withdrawCommit"}} :
              pc'[p] \in F <=> pc[p] \in F
    BY DEF SameKind, CancelStages, CloseStages, CreateStages, SendStages,
           DecideStages, EnsureStages
  <1>8. /\ pc'[p] = "requestCommit" =>
             ctx'[p].target \in ProviderTarget /\ HoldsRequest(p, ctx[p].target)'
        /\ pc'[p] \in CancelStages => HoldsRequest(p, "cancelled")'
    BY <1>1, <1>7 DEF HandlerInv
  <1>9. /\ pc'[p] \in CloseStages =>
             ctx'[p].r \in Requests /\ request'[ctx'[p].r].status = "cancelled"
        /\ pc'[p] \in CreateStages => ctx'[p].r \in Requests /\ Engaged(ctx[p].r)'
    BY <1>3, <1>4, <1>7 DEF HandlerInv
  <1>10. /\ pc'[p] \in SendStages \cup DecideStages
                           \cup {"updateCommit", "withdrawCommit"}
               => HoldsQuote(p)'
         /\ pc'[p] \in SendStages => KnowsFees(p)'
    BY <1>2, <1>6, <1>7 DEF HandlerInv
  <1>11. /\ pc'[p] \in {"sendAfter", "sendUndo"} => ctx'[p].q \in Quotes
         /\ pc'[p] \in DecideStages => ctx'[p].target \in Decision
         /\ pc'[p] \in EnsureStages =>
               ctx'[p].q \in Quotes /\ quote'[ctx'[p].q].status = "accepted"
    BY <1>5, <1>7 DEF HandlerInv
  <1>. QED
    BY <1>8, <1>9, <1>10, <1>11 DEF HandlerInv, HoldsRequest, Engaged

LEMMA StepKeepsInvariant ==
    ASSUME IInv, NEW p \in Handlers, DataStep, LocalStep(p)
    PROVE  IInv'
  <1>1. TypeOK'
    BY DEF DataStep, LocalStep, TypeOK
  <1>2. DataInv'
    BY DEF DataStep
  <1>3. ASSUME NEW o \in Handlers
        PROVE  HandlerInv(o)'
    BY StandingHandler DEF IInv, LocalStep, SameKind
  <1>. QED
    BY <1>1, <1>2, <1>3 DEF IInv

-----------------------------------------------------------------------------
(* Effects on the stored documents *)

LEMMA KeepData ==
    ASSUME TypeOK, DataInv, UnchangedData
    PROVE  DataStep
  BY DEF TypeOK, UnchangedData, DataStep, RequestsEvolve, QuotesEvolve,
         DataInv, QuotesAnswerRequests, QuotedRequestIsEngaged,
         OneActiveQuote, CaseRecordsAcceptance,
         TotalsMatchFees

(* A request moves along an edge of its life that keeps an engaged request *)
(* engaged.                                                                *)
LEMMA MoveRequestData ==
    ASSUME TypeOK, DataInv, UNCHANGED <<clock, quote, caseOf, early>>,
           NEW r \in Requests, NEW t \in ProviderTarget \cup {"cancelled"},
           request[r].status \in AllowedFrom(t), SetRequest(r, t)
    PROVE  DataStep
  <1>1. request' \in [Requests -> RequestDoc]
    BY DEF SetRequest, TypeOK, RequestDoc, RequestStatus, ProviderTarget
  <1>2. RequestsEvolve
    BY AllowedFromFacts
       DEF RequestsEvolve, SetRequest, TypeOK, RequestDoc
  <1>3. \A x \in Requests : Engaged(x) => Engaged(x)'
    BY <1>2 DEF RequestsEvolve, Engaged, TypeOK, RequestDoc
  <1>4. QuotesAnswerRequests' /\ QuotedRequestIsEngaged'
    BY <1>3 DEF DataInv, QuotesAnswerRequests, QuotedRequestIsEngaged, Engaged
  <1>. QED
    BY <1>1, <1>2, <1>4
       DEF TypeOK, DataStep, QuotesEvolve, DataInv, OneActiveQuote,
           CaseRecordsAcceptance, TotalsMatchFees

(* An active quote is closed; only a sent one other than by withdrawal.    *)
LEMMA CloseQuoteData ==
    ASSUME TypeOK, DataInv, UNCHANGED <<clock, request, caseOf, early>>,
           NEW q \in Quotes, NEW s \in TerminalStatus,
           \/ quote[q].status = "sent"
           \/ quote[q].status = "draft" /\ s = "withdrawn",
           SetQuote(q, s)
    PROVE  DataStep
  <1>1. quote' \in [Quotes -> QuoteDoc]
    BY DEF SetQuote, TypeOK, QuoteDoc, QuoteStatus, TerminalStatus
  <1>2. /\ quote'[q].status = s
        /\ quote'[q].ver = quote[q].ver + 1
        /\ quote'[q].req = quote[q].req
        /\ quote'[q].fees = quote[q].fees
        /\ quote'[q].total = quote[q].total
        /\ \A o \in Quotes \ {q} : quote'[o] = quote[o]
    BY DEF SetQuote, TypeOK, QuoteDoc
  <1>3. QuotesEvolve
    BY <1>2 DEF QuotesEvolve, ActiveStatus, TerminalStatus
  <1>4. DataInv'
    <2>1. QuotesAnswerRequests' /\ QuotedRequestIsEngaged'
      BY <1>2 DEF DataInv, QuotesAnswerRequests, QuotedRequestIsEngaged
    <2>2. OneActiveQuote'
      BY <1>2 DEF DataInv, OneActiveQuote, ActiveStatus, TerminalStatus
    <2>3. CaseRecordsAcceptance'
      BY <1>2 DEF DataInv, CaseRecordsAcceptance, TypeOK
    <2>4. TotalsMatchFees'
      BY <1>2 DEF DataInv, TotalsMatchFees
    <2>. QED
      BY <2>1, <2>2, <2>3, <2>4 DEF DataInv
  <1>. QED
    BY <1>1, <1>3, <1>4 DEF TypeOK, DataStep, RequestsEvolve

LEMMA NormalizeData ==
    ASSUME TypeOK, DataInv, NEW p \in Handlers, NEW r \in Requests,
           NormalizeSentOf(p, r), UNCHANGED <<clock, request, caseOf, early>>
    PROVE  DataStep
  BY CloseQuoteData, KeepData
     DEF NormalizeSentOf, Due, QuotesIn, QuotesOf, TerminalStatus, UnchangedData

-----------------------------------------------------------------------------
(* Effects on the handler *)

LEMMA FinishLocal ==
    ASSUME TypeOK, NEW p \in Handlers, Finish(p)
    PROVE  LocalStep(p)
  <1>1. Blank \in Context
    BY EngagementAssumption
       DEF Blank, Context, RequestStatus, QuoteStatus
  <1>2. pc' \in [Handlers -> Stage] /\ ctx' \in [Handlers -> Context]
    BY <1>1 DEF Finish, TypeOK, Stage
  <1>3. pc'[p] = "idle"
    BY DEF Finish, TypeOK
  <1>4. HandlerInv(p)'
    BY <1>3 DEF HandlerInv, CancelStages, CloseStages, CreateStages,
                SendStages, DecideStages, EnsureStages
  <1>. QED
    BY <1>2, <1>4 DEF LocalStep, Finish, TypeOK

LEMMA GotoLocal ==
    ASSUME IInv, DataStep, NEW p \in Handlers, NEW stage \in Stage,
           Goto(p, stage), SameKind(pc[p], stage)
    PROVE  LocalStep(p)
  <1>1. pc'[p] = stage /\ ctx' = ctx
    BY DEF Goto, IInv, TypeOK
  <1>2. HandlerInv(p)'
    BY <1>1, StandingHandler DEF IInv
  <1>. QED
    BY <1>2 DEF Goto, LocalStep, IInv, TypeOK

(* A check that moves within its command or answers with an error.         *)
LEMMA CheckStep ==
    ASSUME IInv, NEW p \in Handlers, NEW ok, NEW stage \in Stage,
           Check(p, ok, stage), SameKind(pc[p], stage)
    PROVE  DataStep /\ LocalStep(p)
  <1>1. DataStep
    BY KeepData DEF Check, UnchangedData, IInv
  <1>2. Goto(p, stage) \/ Finish(p)
    BY DEF Check
  <1>. QED
    BY <1>1, <1>2, GotoLocal, FinishLocal DEF IInv

-----------------------------------------------------------------------------
(* The steps of a handler, one lemma per command *)

LEMMA TransitionSteps ==
    ASSUME IInv, NEW p \in Handlers, CommitTransition(p)
    PROVE  DataStep /\ LocalStep(p)
  <1>1. ctx[p].target \in ProviderTarget /\ HoldsRequest(p, ctx[p].target)
    BY DEF CommitTransition, IInv, HandlerInv
  <1>2. CASE RequestUnmoved(ctx[p].r, ctx[p].ver)
    <2>1. SetRequest(ctx[p].r, ctx[p].target)
      BY <1>2 DEF CommitTransition
    <2>2. request[ctx[p].r].status \in AllowedFrom(ctx[p].target)
      BY <1>1, <1>2 DEF HoldsRequest, RequestUnmoved
    <2>3. ctx[p].r \in Requests
      BY <1>1 DEF HoldsRequest
    <2>. QED
      BY <1>1, <2>1, <2>2, <2>3, MoveRequestData, FinishLocal
         DEF CommitTransition, IInv
  <1>3. CASE ~RequestUnmoved(ctx[p].r, ctx[p].ver)
    BY <1>3, KeepData, FinishLocal DEF CommitTransition, UnchangedData, IInv
  <1>. QED
    BY <1>2, <1>3

LEMMA CancelSteps ==
    ASSUME IInv, NEW p \in Handlers,
           CancelExpire(p) \/ CancelCheckAccepted(p) \/ CancelCheckSent(p)
               \/ CancelCommit(p)
    PROVE  DataStep /\ LocalStep(p)
  <1>1. HoldsRequest(p, "cancelled")
    BY DEF CancelExpire, CancelCheckAccepted, CancelCheckSent, CancelCommit,
           IInv, HandlerInv, CancelStages
  <1>2. ctx[p].r \in Requests
    BY <1>1 DEF HoldsRequest
  <1>3. CASE CancelExpire(p)
    <2>1. DataStep
      BY <1>2, <1>3, NormalizeData DEF CancelExpire, IInv
    <2>. QED
      BY <1>3, <2>1, GotoLocal DEF CancelExpire, SameKind, CancelStages, Stage
  <1>4. CASE CancelCheckAccepted(p) \/ CancelCheckSent(p)
    BY <1>4, CheckStep
       DEF CancelCheckAccepted, CancelCheckSent, SameKind, CancelStages, Stage
  <1>5. CASE CancelCommit(p) /\ RequestUnmoved(ctx[p].r, ctx[p].ver)
    <2>1. SetRequest(ctx[p].r, "cancelled") /\ Goto(p, "closeDraftsFind")
      BY <1>5 DEF CancelCommit
    <2>2. request[ctx[p].r].status \in AllowedFrom("cancelled")
      BY <1>1, <1>5 DEF HoldsRequest, RequestUnmoved
    <2>3. DataStep
      BY <1>2, <1>5, <2>1, <2>2, MoveRequestData DEF CancelCommit, IInv
    <2>4. pc'[p] = "closeDraftsFind" /\ ctx' = ctx
      BY <2>1 DEF Goto, IInv, TypeOK
    <2>5. request'[ctx[p].r].status = "cancelled"
      BY <1>2, <2>1 DEF SetRequest, IInv, TypeOK, RequestDoc
    <2>6. HandlerInv(p)'
      BY <1>2, <2>4, <2>5
         DEF HandlerInv, CancelStages, CloseStages, CreateStages, SendStages,
             DecideStages, EnsureStages
    <2>. QED
      BY <2>1, <2>3, <2>6 DEF Goto, LocalStep, IInv, TypeOK, Stage
  <1>6. CASE CancelCommit(p) /\ ~RequestUnmoved(ctx[p].r, ctx[p].ver)
    BY <1>6, KeepData, FinishLocal DEF CancelCommit, UnchangedData, IInv
  <1>. QED
    BY <1>3, <1>4, <1>5, <1>6

LEMMA CloseFindStep ==
    ASSUME IInv, NEW p \in Handlers, NEW at \in CloseStages,
           NEW next \in CloseStages, NEW status, CloseFind(p, at, status, next)
    PROVE  DataStep /\ LocalStep(p)
  <1>1. DataStep
    BY KeepData DEF CloseFind, IInv
  <1>2. QuotesIn(ctx[p].r, status) \in SUBSET Quotes
    BY DEF QuotesIn, QuotesOf
  <1>3. /\ pc'[p] = next
        /\ pc' \in [Handlers -> Stage]
        /\ ctx' \in [Handlers -> Context]
        /\ \A o \in Handlers \ {p} : pc'[o] = pc[o] /\ ctx'[o] = ctx[o]
    BY <1>2 DEF CloseFind, IInv, TypeOK, Context, Stage, CloseStages
  <1>4. /\ ctx'[p].r = ctx[p].r
        /\ ctx'[p].q = ctx[p].q
        /\ ctx'[p].target = ctx[p].target
        /\ ctx'[p].ver = ctx[p].ver
        /\ ctx'[p].seen = ctx[p].seen
        /\ ctx'[p].fees = ctx[p].fees
    BY DEF CloseFind, IInv, TypeOK, Context
  <1>5. SameKind(pc[p], next)
    BY DEF CloseFind, SameKind
  <1>6. HandlerInv(p)'
    BY <1>1, <1>3, <1>4, <1>5, StandingHandler DEF IInv
  <1>. QED
    BY <1>1, <1>3, <1>6 DEF LocalStep

LEMMA CloseOneStep ==
    ASSUME IInv, NEW p \in Handlers, NEW at \in CloseStages,
           NEW status \in ActiveStatus, CloseOne(p, at, status)
    PROVE  DataStep /\ LocalStep(p)
  <1>1. PICK q \in ctx[p].todo :
           /\ IF quote[q].status = status
              THEN SetQuote(q, "withdrawn")
              ELSE UNCHANGED quote
           /\ ctx' = [ctx EXCEPT ![p].todo = @ \ {q}]
    BY DEF CloseOne
  <1>2. q \in Quotes
    BY DEF IInv, TypeOK, Context
  <1>3. DataStep
    BY <1>1, <1>2, CloseQuoteData, KeepData
       DEF CloseOne, UnchangedData, IInv, ActiveStatus, TerminalStatus
  <1>4. /\ pc' = pc
        /\ ctx' \in [Handlers -> Context]
        /\ \A o \in Handlers \ {p} : ctx'[o] = ctx[o]
    BY <1>1 DEF CloseOne, IInv, TypeOK, Context
  <1>5. /\ ctx'[p].r = ctx[p].r
        /\ ctx'[p].q = ctx[p].q
        /\ ctx'[p].target = ctx[p].target
        /\ ctx'[p].ver = ctx[p].ver
        /\ ctx'[p].seen = ctx[p].seen
        /\ ctx'[p].fees = ctx[p].fees
    BY <1>1 DEF IInv, TypeOK, Context
  <1>6. HandlerInv(p)'
    BY <1>3, <1>4, <1>5, StandingHandler DEF IInv, SameKind
  <1>. QED
    BY <1>3, <1>4, <1>6 DEF LocalStep, IInv, TypeOK

LEMMA CloseSteps ==
    ASSUME IInv, NEW p \in Handlers,
           CloseDraftsFind(p) \/ CloseDraft(p) \/ CloseDraftsDone(p)
               \/ CloseSentFind(p) \/ CloseSent(p) \/ CloseSentDone(p)
    PROVE  DataStep /\ LocalStep(p)
  <1>1. CASE CloseDraftsFind(p) \/ CloseSentFind(p)
    BY <1>1, CloseFindStep DEF CloseDraftsFind, CloseSentFind, CloseStages
  <1>2. CASE CloseDraft(p) \/ CloseSent(p)
    BY <1>2, CloseOneStep DEF CloseDraft, CloseSent, CloseStages, ActiveStatus
  <1>3. CASE CloseDraftsDone(p)
    <2>1. DataStep
      BY <1>3, KeepData DEF CloseDraftsDone, IInv
    <2>. QED
      BY <1>3, <2>1, GotoLocal
         DEF CloseDraftsDone, SameKind, CloseStages, Stage
  <1>4. CASE CloseSentDone(p)
    BY <1>4, KeepData, FinishLocal DEF CloseSentDone, IInv
  <1>. QED
    BY <1>1, <1>2, <1>3, <1>4

LEMMA CreateSteps ==
    ASSUME IInv, NEW p \in Handlers,
           CreateCheckAccepted(p) \/ CreateExpire(p) \/ CreateReadRevision(p)
               \/ CreateInsert(p)
    PROVE  DataStep /\ LocalStep(p)
  <1>1. ctx[p].r \in Requests /\ Engaged(ctx[p].r)
    BY DEF CreateCheckAccepted, CreateExpire, CreateReadRevision, CreateInsert,
           IInv, HandlerInv, CreateStages
  <1>2. CASE CreateCheckAccepted(p)
    BY <1>2, CheckStep DEF CreateCheckAccepted, SameKind, CreateStages, Stage
  <1>3. CASE CreateExpire(p)
    <2>1. DataStep
      BY <1>1, <1>3, NormalizeData DEF CreateExpire, IInv
    <2>. QED
      BY <1>3, <2>1, GotoLocal DEF CreateExpire, SameKind, CreateStages, Stage
  <1>4. CASE CreateReadRevision(p)
    <2>1. DataStep
      BY <1>4, KeepData DEF CreateReadRevision, IInv
    <2>2. PICK n \in Nat : ctx' = [ctx EXCEPT ![p].rev = n]
      <3>1. CASE ctx' = [ctx EXCEPT ![p].rev = 1]
        BY <3>1
      <3>2. ASSUME NEW latest \in QuotesOf(ctx[p].r),
                   ctx' = [ctx EXCEPT ![p].rev = quote[latest].rev + 1]
            PROVE  \E n \in Nat : ctx' = [ctx EXCEPT ![p].rev = n]
        <4>1. quote[latest].rev + 1 \in Nat
          BY DEF QuotesOf, IInv, TypeOK, QuoteDoc
        <4>. QED
          BY <3>2, <4>1
      <3>. QED
        BY <1>4, <3>1, <3>2 DEF CreateReadRevision
    <2>3. /\ pc'[p] = "createInsert"
          /\ pc' \in [Handlers -> Stage]
          /\ ctx' \in [Handlers -> Context]
          /\ \A o \in Handlers \ {p} : pc'[o] = pc[o] /\ ctx'[o] = ctx[o]
      BY <1>4, <2>2 DEF CreateReadRevision, IInv, TypeOK, Context, Stage
    <2>4. /\ ctx'[p].r = ctx[p].r
          /\ ctx'[p].q = ctx[p].q
          /\ ctx'[p].target = ctx[p].target
          /\ ctx'[p].ver = ctx[p].ver
          /\ ctx'[p].seen = ctx[p].seen
          /\ ctx'[p].fees = ctx[p].fees
      BY <2>2 DEF IInv, TypeOK, Context
    <2>5. SameKind(pc[p], pc'[p])
      BY <1>4, <2>3 DEF CreateReadRevision, SameKind, CreateStages
    <2>6. HandlerInv(p)'
      BY <2>1, <2>4, <2>5, StandingHandler DEF IInv
    <2>. QED
      BY <2>1, <2>3, <2>6 DEF LocalStep
  <1>5. CASE CreateInsert(p) /\ ActiveSlotFree(ctx[p].r)
    <2>1. PICK q \in Quotes :
             /\ quote[q].status = "absent"
             /\ quote' = [quote EXCEPT ![q] =
                    [NewQuote EXCEPT !.status = "draft", !.req = ctx[p].r,
                                     !.rev = ctx[p].rev]]
      BY <1>5 DEF CreateInsert
    <2>2. UNCHANGED <<clock, request, caseOf, early>>
      BY <1>5 DEF CreateInsert
    <2>3. /\ quote'[q].status = "draft"
          /\ quote'[q].req = ctx[p].r
          /\ \A o \in Quotes \ {q} : quote'[o] = quote[o]
      BY <2>1 DEF NewQuote, IInv, TypeOK
    <2>4. quote' \in [Quotes -> QuoteDoc]
      BY <1>1, <2>1
         DEF NewQuote, IInv, TypeOK, QuoteDoc, QuoteStatus, Context
    <2>5. \A o \in Quotes : quote[o].status \in ActiveStatus =>
             quote[o].req # ctx[p].r
      BY <1>5 DEF ActiveSlotFree, QuotesOf, ActiveStatus
    <2>6. QuotesAnswerRequests' /\ QuotedRequestIsEngaged'
      BY <1>1, <2>2, <2>3
         DEF IInv, DataInv, QuotesAnswerRequests, QuotedRequestIsEngaged, Engaged
    <2>7. OneActiveQuote'
      BY <2>3, <2>5 DEF IInv, DataInv, OneActiveQuote
    <2>8. CaseRecordsAcceptance' /\ TotalsMatchFees'
      BY <2>1, <2>2, <2>3
         DEF IInv, DataInv, TypeOK, CaseRecordsAcceptance, TotalsMatchFees
    <2>9. DataStep
      BY <2>1, <2>2, <2>3, <2>4, <2>6, <2>7, <2>8
         DEF DataStep, DataInv, RequestsEvolve, QuotesEvolve, IInv, TypeOK
    <2>. QED
      BY <1>5, <2>9, FinishLocal DEF CreateInsert, IInv
  <1>6. CASE CreateInsert(p) /\ ~ActiveSlotFree(ctx[p].r)
    BY <1>6, KeepData, FinishLocal DEF CreateInsert, UnchangedData, IInv
  <1>. QED
    BY <1>2, <1>3, <1>4, <1>5, <1>6

(* A draft changes, and stays a draft, or is sent with totals that match   *)
(* or from a load older than the version named.                            *)
LEMMA WriteDraftData ==
    ASSUME TypeOK, DataInv, UNCHANGED <<clock, request, caseOf>>,
           early \subseteq early', early' \subseteq Quotes,
           NEW q \in Quotes, NEW new \in QuoteDoc, quote[q].status = "draft",
           quote' = [quote EXCEPT ![q] = new],
           new.status \in ActiveStatus,
           new.req = quote[q].req,
           new.ver = quote[q].ver + 1,
           new.status = "sent" =>
               q \in early' \/ (new.fees # NoFees /\ new.total = new.fees)
    PROVE  DataStep
  <1>1. quote'[q] = new /\ \A o \in Quotes \ {q} : quote'[o] = quote[o]
    BY DEF TypeOK
  <1>2. quote' \in [Quotes -> QuoteDoc]
    BY DEF TypeOK
  <1>3. QuotesEvolve
    BY <1>1 DEF QuotesEvolve, ActiveStatus
  <1>4. QuotesAnswerRequests' /\ QuotedRequestIsEngaged'
    BY <1>1 DEF DataInv, QuotesAnswerRequests, QuotedRequestIsEngaged
  <1>5. OneActiveQuote'
    BY <1>1 DEF DataInv, OneActiveQuote, ActiveStatus
  <1>6. CaseRecordsAcceptance'
    BY <1>1 DEF DataInv, CaseRecordsAcceptance, TypeOK
  <1>7. TotalsMatchFees'
    BY <1>1 DEF DataInv, TotalsMatchFees, ActiveStatus
  <1>. QED
    BY <1>2, <1>3, <1>4, <1>5, <1>6, <1>7
       DEF DataStep, DataInv, RequestsEvolve, TypeOK

LEMMA UpdateSteps ==
    ASSUME IInv, NEW p \in Handlers, UpdateCommit(p)
    PROVE  DataStep /\ LocalStep(p)
  <1> DEFINE q  == ctx[p].q
             ok == QuoteUnmoved(q, ctx[p].ver) /\ quote[q].status = "draft"
  <1>1. q \in Quotes
    BY DEF UpdateCommit, IInv, HandlerInv, HoldsQuote
  <1>2. CASE ok
    <2> DEFINE new == [quote[q] EXCEPT !.fees = ctx[p].fees,
                                       !.total = ctx[p].fees,
                                       !.ver = @ + 1]
    <2>1. quote' = [quote EXCEPT ![q] = new]
      BY <1>1, <1>2 DEF UpdateCommit, IInv, TypeOK
    <2>2. /\ new \in QuoteDoc
          /\ new.status = "draft"
          /\ new.req = quote[q].req
          /\ new.ver = quote[q].ver + 1
      <3>1. quote[q] \in QuoteDoc /\ ctx[p].fees \in Fees \cup {NoFees}
        BY <1>1 DEF IInv, TypeOK, Context
      <3>2. quote[q].ver + 1 \in Nat
        BY <3>1 DEF QuoteDoc
      <3>3. new \in QuoteDoc
        BY <3>1, <3>2 DEF QuoteDoc
      <3>4. /\ new.status = quote[q].status
            /\ new.req = quote[q].req
            /\ new.ver = quote[q].ver + 1
        BY <3>1 DEF QuoteDoc
      <3>. QED
        BY <1>2, <3>3, <3>4
    <2>3. UNCHANGED <<clock, request, caseOf, early>>
      BY DEF UpdateCommit
    <2>4. DataStep
      BY <1>1, <1>2, <2>1, <2>2, <2>3, WriteDraftData
         DEF IInv, TypeOK, ActiveStatus
    <2>. QED
      BY <2>4, FinishLocal DEF UpdateCommit, IInv
  <1>3. CASE ~ok
    BY <1>3, KeepData, FinishLocal DEF UpdateCommit, UnchangedData, IInv
  <1>. QED
    BY <1>2, <1>3

LEMMA SendSteps ==
    ASSUME IInv, NEW p \in Handlers,
           SendCheckRequest(p) \/ SendCheckFresh(p) \/ SendCommit(p)
               \/ SendCheckAfter(p) \/ SendUndo(p)
    PROVE  DataStep /\ LocalStep(p)
  <1> DEFINE q  == ctx[p].q
             ok == QuoteUnmoved(q, ctx[p].ver) /\ quote[q].status = "draft"
  <1>1. CASE SendCheckRequest(p) \/ SendCheckFresh(p)
    BY <1>1, CheckStep
       DEF SendCheckRequest, SendCheckFresh, SameKind, SendStages, Stage
  <1>2. CASE SendCommit(p) /\ ok
    <2> DEFINE new == [quote[q] EXCEPT
                          !.status = "sent",
                          !.total = ctx[p].fees,
                          !.expiresAt = ComputeExpiresAt(ctx[p].now, ctx[p].days),
                          !.ver = @ + 1]
    <2>1. HoldsQuote(p) /\ KnowsFees(p)
      BY <1>2 DEF SendCommit, SendStages, IInv, HandlerInv
    <2>2. q \in Quotes /\ quote[q] \in QuoteDoc /\ ctx[p] \in Context
      BY <2>1 DEF HoldsQuote, IInv, TypeOK
    <2>3. /\ early \subseteq early' /\ early' \subseteq Quotes
          /\ \/ q \in early'
             \/ quote[q].fees = ctx[p].fees /\ ctx[p].fees # NoFees
      BY <1>2, <2>1, <2>2 DEF SendCommit, KnowsFees, QuoteUnmoved, IInv, TypeOK
    <2>4. quote' = [quote EXCEPT ![q] = new]
      BY <1>2, <2>2 DEF SendCommit, IInv, TypeOK
    <2>5. ctx[p].now + ctx[p].days \in Nat
      BY <2>2 DEF Context
    <2>6. /\ new \in QuoteDoc
          /\ new.status = "sent"
          /\ new.req = quote[q].req
          /\ new.ver = quote[q].ver + 1
          /\ new.fees = quote[q].fees
          /\ new.total = ctx[p].fees
      <3>1. /\ quote[q].ver + 1 \in Nat
            /\ ctx[p].fees \in Fees \cup {NoFees}
            /\ ComputeExpiresAt(ctx[p].now, ctx[p].days) \in Nat
            /\ "sent" \in QuoteStatus
        BY <2>2, <2>5
           DEF QuoteDoc, Context, ComputeExpiresAt, QuoteStatus
      <3>2. new \in QuoteDoc
        BY <2>2, <3>1 DEF QuoteDoc
      <3>3. /\ new.status = "sent"
            /\ new.req = quote[q].req
            /\ new.ver = quote[q].ver + 1
            /\ new.fees = quote[q].fees
            /\ new.total = ctx[p].fees
        BY <2>2 DEF QuoteDoc
      <3>. QED
        BY <3>2, <3>3
    <2>7. UNCHANGED <<clock, request, caseOf>> /\ Goto(p, "sendAfter")
      BY <1>2 DEF SendCommit
    <2>8. DataStep
      BY <1>2, <2>2, <2>3, <2>4, <2>6, <2>7, WriteDraftData
         DEF IInv, ActiveStatus
    <2>9. pc'[p] = "sendAfter" /\ ctx' = ctx
      BY <2>7 DEF Goto, IInv, TypeOK
    <2>10. HandlerInv(p)'
      BY <2>2, <2>9
         DEF HandlerInv, CancelStages, CloseStages, CreateStages, SendStages,
             DecideStages, EnsureStages
    <2>. QED
      BY <2>7, <2>8, <2>10 DEF Goto, LocalStep, IInv, TypeOK, Stage
  <1>3. CASE SendCommit(p) /\ ~ok
    BY <1>3, KeepData, FinishLocal DEF SendCommit, UnchangedData, IInv
  <1>4. CASE SendCheckAfter(p)
    <2>1. DataStep
      BY <1>4, KeepData DEF SendCheckAfter, IInv
    <2>2. CASE RequestIsReady(ctx[p].r)
      BY <1>4, <2>1, <2>2, FinishLocal DEF SendCheckAfter, IInv
    <2>3. CASE ~RequestIsReady(ctx[p].r)
      <3>1. Goto(p, "sendUndo") /\ q \in Quotes
        BY <1>4, <2>3 DEF SendCheckAfter, IInv, HandlerInv
      <3>2. pc'[p] = "sendUndo" /\ ctx' = ctx
        BY <3>1 DEF Goto, IInv, TypeOK
      <3>3. HandlerInv(p)'
        BY <3>1, <3>2
           DEF HandlerInv, CancelStages, CloseStages, CreateStages, SendStages,
               DecideStages, EnsureStages
      <3>. QED
        BY <2>1, <3>1, <3>3 DEF Goto, LocalStep, IInv, TypeOK, Stage
    <2>. QED
      BY <2>2, <2>3
  <1>5. CASE SendUndo(p)
    <2>1. q \in Quotes
      BY <1>5 DEF SendUndo, IInv, HandlerInv
    <2>2. DataStep
      BY <1>5, <2>1, CloseQuoteData, KeepData
         DEF SendUndo, UnchangedData, IInv, TerminalStatus
    <2>. QED
      BY <1>5, <2>2, FinishLocal DEF SendUndo, IInv
  <1>. QED
    BY <1>1, <1>2, <1>3, <1>4, <1>5

LEMMA WithdrawSteps ==
    ASSUME IInv, NEW p \in Handlers, WithdrawCommit(p)
    PROVE  DataStep /\ LocalStep(p)
  <1>1. ctx[p].q \in Quotes
    BY DEF WithdrawCommit, IInv, HandlerInv, HoldsQuote
  <1>2. \/ UNCHANGED quote
        \/ /\ SetQuote(ctx[p].q, "withdrawn")
           /\ quote[ctx[p].q].status \in {"draft", "sent"}
    BY DEF WithdrawCommit, OfferOpen
  <1>3. DataStep
    BY <1>1, <1>2, CloseQuoteData, KeepData
       DEF WithdrawCommit, UnchangedData, IInv, TerminalStatus
  <1>. QED
    BY <1>3, FinishLocal DEF WithdrawCommit, IInv

LEMMA DecideSteps ==
    ASSUME IInv, NEW p \in Handlers,
           DecideCheckRequest(p) \/ DecideCheckFresh(p) \/ DecideCommit(p)
    PROVE  DataStep /\ LocalStep(p)
  <1> DEFINE q  == ctx[p].q
             ok == QuoteUnmoved(q, ctx[p].ver) /\ OfferOpen(q, ctx[p].now)
  <1>1. CASE DecideCheckRequest(p) \/ DecideCheckFresh(p)
    BY <1>1, CheckStep
       DEF DecideCheckRequest, DecideCheckFresh, SameKind, DecideStages, Stage
  <1>2. CASE DecideCommit(p)
    <2>1. q \in Quotes /\ ctx[p].target \in Decision
      BY <1>2 DEF DecideCommit, DecideStages, IInv, HandlerInv, HoldsQuote
    <2>2. \/ UNCHANGED quote
          \/ SetQuote(q, ctx[p].target) /\ quote[q].status = "sent"
      BY <1>2 DEF DecideCommit, OfferOpen
    <2>3. DataStep
      BY <1>2, <2>1, <2>2, CloseQuoteData, KeepData
         DEF DecideCommit, UnchangedData, IInv, TerminalStatus, Decision
    <2>4. CASE ok /\ ctx[p].target = "accepted"
      <3>1. SetQuote(q, "accepted") /\ Goto(p, "ensureExisting")
        BY <1>2, <2>4 DEF DecideCommit
      <3>2. quote'[q].status = "accepted"
        BY <2>1, <3>1 DEF SetQuote, IInv, TypeOK, QuoteDoc
      <3>3. pc'[p] = "ensureExisting" /\ ctx' = ctx
        BY <3>1 DEF Goto, IInv, TypeOK
      <3>4. HandlerInv(p)'
        BY <2>1, <3>2, <3>3
           DEF HandlerInv, CancelStages, CloseStages, CreateStages, SendStages,
               DecideStages, EnsureStages
      <3>. QED
        BY <2>3, <3>1, <3>4 DEF Goto, LocalStep, IInv, TypeOK, Stage
    <2>5. CASE ~(ok /\ ctx[p].target = "accepted")
      BY <1>2, <2>3, <2>5, FinishLocal DEF DecideCommit, IInv
    <2>. QED
      BY <2>4, <2>5
  <1>. QED
    BY <1>1, <1>2

LEMMA EnsureSteps ==
    ASSUME IInv, NEW p \in Handlers,
           EnsureFindExisting(p) \/ EnsureFindAgain(p) \/ EnsureInsert(p)
    PROVE  DataStep /\ LocalStep(p)
  <1>1. CASE EnsureFindExisting(p) \/ EnsureFindAgain(p)
    BY <1>1, CheckStep
       DEF EnsureFindExisting, EnsureFindAgain, SameKind, EnsureStages, Stage
  <1>2. CASE EnsureInsert(p) /\ CaseSlotFree(ctx[p].q)
    <2>1. ctx[p].q \in Quotes /\ quote[ctx[p].q].status = "accepted"
      BY <1>2 DEF EnsureInsert, IInv, HandlerInv, EnsureStages
    <2>2. PICK c \in Cases : /\ caseOf[c] = None
                             /\ caseOf' = [caseOf EXCEPT ![c] = ctx[p].q]
      BY <1>2 DEF EnsureInsert
    <2>3. UNCHANGED <<clock, request, quote, early>>
      BY <1>2 DEF EnsureInsert
    <2>4. caseOf' \in [Cases -> Quotes \cup {None}]
      BY <2>1, <2>2 DEF IInv, TypeOK
    <2>5. CaseRecordsAcceptance'
      BY <1>2, <2>1, <2>2, <2>3
         DEF IInv, DataInv, TypeOK, CaseRecordsAcceptance, CaseSlotFree
    <2>6. DataStep
      BY <2>3, <2>4, <2>5
         DEF DataStep, DataInv, RequestsEvolve, QuotesEvolve, IInv, TypeOK,
             QuotesAnswerRequests, QuotedRequestIsEngaged, OneActiveQuote,
             TotalsMatchFees
    <2>. QED
      BY <1>2, <2>6, FinishLocal DEF EnsureInsert, IInv
  <1>3. CASE EnsureInsert(p) /\ ~CaseSlotFree(ctx[p].q)
    BY <1>3, KeepData, FinishLocal DEF EnsureInsert, UnchangedData, IInv
  <1>. QED
    BY <1>1, <1>2, <1>3

(* A command that starts where c records what its checks found.            *)
LEMMA StartStep ==
    ASSUME IInv, UnchangedData, NEW p \in Handlers, NEW stage \in Stage,
           NEW c \in Context, Start(p, stage, c),
           (pc'[p] = stage /\ ctx'[p] = c) => HandlerInv(p)'
    PROVE  DataStep /\ LocalStep(p)
  <1>1. pc'[p] = stage /\ ctx'[p] = c
    BY DEF Start, IInv, TypeOK
  <1>2. DataStep
    BY KeepData DEF IInv
  <1>. QED
    BY <1>1, <1>2 DEF Start, LocalStep, IInv, TypeOK

LEMMA BeginRequestSteps ==
    ASSUME IInv, NEW p \in Handlers, NEW r \in Requests,
           NEW t \in ProviderTarget,
           BeginTransition(p, r, t) \/ BeginCancel(p, r) \/ BeginCreate(p, r)
    PROVE  DataStep /\ LocalStep(p)
  <1>1. request[r].ver \in Nat
    BY DEF IInv, TypeOK, RequestDoc
  <1>2. Blank \in Context
    BY EngagementAssumption
       DEF Blank, Context, RequestStatus, QuoteStatus
  <1>3. CASE BeginTransition(p, r, t)
    <2> DEFINE c == [Blank EXCEPT !.r = r, !.target = t, !.ver = request[r].ver]
    <2>1. c \in Context
      BY <1>1, <1>2 DEF Context, ProviderTarget, RequestStatus
    <2>2. /\ c.r = r /\ c.target = t /\ c.ver = request[r].ver
      BY DEF Blank
    <2>3. /\ request[r].status \in AllowedFrom(t)
          /\ Start(p, "requestCommit", c)
          /\ UnchangedData
      BY <1>3 DEF BeginTransition
    <2>4. ASSUME pc'[p] = "requestCommit", ctx'[p] = c
          PROVE  HandlerInv(p)'
      BY <1>1, <2>2, <2>3, <2>4
         DEF HandlerInv, HoldsRequest, UnchangedData, AllowedFrom,
             CancelStages, CloseStages, CreateStages, SendStages,
             DecideStages, EnsureStages
    <2>. HIDE DEF c
    <2>. QED
      BY <2>1, <2>3, <2>4, StartStep DEF Stage
  <1>4. CASE BeginCancel(p, r)
    <2> DEFINE c == [Blank EXCEPT !.r = r, !.ver = request[r].ver]
    <2>1. c \in Context
      BY <1>1, <1>2 DEF Context
    <2>2. c.r = r /\ c.ver = request[r].ver
      BY DEF Blank
    <2>3. /\ request[r].status \in AllowedFrom("cancelled")
          /\ Start(p, "cancelExpire", c)
          /\ UnchangedData
      BY <1>4 DEF BeginCancel
    <2>4. ASSUME pc'[p] = "cancelExpire", ctx'[p] = c
          PROVE  HandlerInv(p)'
      BY <1>1, <2>2, <2>3, <2>4
         DEF HandlerInv, HoldsRequest, UnchangedData, AllowedFrom,
             CancelStages, CloseStages, CreateStages, SendStages,
             DecideStages, EnsureStages
    <2>. HIDE DEF c
    <2>. QED
      BY <2>1, <2>3, <2>4, StartStep DEF Stage
  <1>5. CASE BeginCreate(p, r)
    <2> DEFINE c == [Blank EXCEPT !.r = r]
    <2>1. c \in Context
      BY <1>2 DEF Context
    <2>2. c.r = r
      BY DEF Blank
    <2>3. RequestIsReady(r) /\ Start(p, "createAccepted", c) /\ UnchangedData
      BY <1>5 DEF BeginCreate
    <2>4. ASSUME pc'[p] = "createAccepted", ctx'[p] = c
          PROVE  HandlerInv(p)'
      BY <2>2, <2>3, <2>4
         DEF HandlerInv, RequestIsReady, Engaged, UnchangedData,
             CancelStages, CloseStages, CreateStages, SendStages,
             DecideStages, EnsureStages
    <2>. HIDE DEF c
    <2>. QED
      BY <2>1, <2>3, <2>4, StartStep DEF Stage
  <1>. QED
    BY <1>3, <1>4, <1>5

(* What a command on a quote finds when it loads it.                       *)
LEMMA LoadedQuote ==
    ASSUME IInv, NEW q \in Quotes, quote[q].status # "absent"
    PROVE  /\ quote[q] \in QuoteDoc
           /\ quote[q].ver \in Nat
           /\ quote[q].req \in Requests
           /\ quote[q].fees \in Fees \cup {NoFees}
           /\ quote[q].status \in QuoteStatus
           /\ clock \in Nat
           /\ Blank \in Context
           /\ Claims(quote[q].ver) \subseteq Nat
  <1>1. Blank \in Context
    BY EngagementAssumption
       DEF Blank, Context, RequestStatus, QuoteStatus
  <1>2. quote[q] \in QuoteDoc /\ quote[q].req \in Requests /\ clock \in Nat
    BY DEF IInv, TypeOK, DataInv, QuotesAnswerRequests
  <1>3. quote[q].ver \in Nat
    BY <1>2 DEF QuoteDoc
  <1>4. Claims(quote[q].ver) \subseteq Nat
    BY <1>3, EngagementAssumption DEF Claims
  <1>. QED
    BY <1>1, <1>2, <1>4 DEF QuoteDoc

LEMMA BeginUpdateStep ==
    ASSUME IInv, NEW p \in Handlers, NEW q \in Quotes,
           NEW ver \in Claims(quote[q].ver),
           NEW fees \in Fees \cup {quote[q].fees}, BeginUpdate(p, q, ver, fees)
    PROVE  DataStep /\ LocalStep(p)
  <1> DEFINE c == [Blank EXCEPT !.q = q, !.ver = ver, !.fees = fees]
  <1>1. /\ quote[q].status = "draft"
        /\ Start(p, "updateCommit", c)
        /\ UnchangedData
    BY DEF BeginUpdate
  <1>2. c \in Context
    BY <1>1, LoadedQuote DEF Context
  <1>3. c.q = q
    BY DEF Blank
  <1>4. ASSUME pc'[p] = "updateCommit", ctx'[p] = c
        PROVE  HandlerInv(p)'
    BY <1>1, <1>3, <1>4, LoadedQuote
       DEF HandlerInv, HoldsQuote, UnchangedData,
           CancelStages, CloseStages, CreateStages, SendStages,
           DecideStages, EnsureStages
  <1>. HIDE DEF c
  <1>. QED
    BY <1>1, <1>2, <1>4, StartStep DEF Stage

LEMMA BeginSendStep ==
    ASSUME IInv, NEW p \in Handlers, NEW q \in Quotes, NEW days \in Validity,
           NEW ver \in Claims(quote[q].ver), BeginSend(p, q, ver, days)
    PROVE  DataStep /\ LocalStep(p)
  <1> DEFINE c == [Blank EXCEPT !.q = q, !.r = quote[q].req, !.ver = ver,
                                !.seen = quote[q].ver, !.fees = quote[q].fees,
                                !.days = days, !.now = clock]
  <1>1. /\ quote[q].status = "draft"
        /\ quote[q].fees # NoFees
        /\ Start(p, "sendRequest", c)
        /\ UnchangedData
    BY DEF BeginSend
  <1>2. c \in Context
    BY <1>1, EngagementAssumption, LoadedQuote DEF Context
  <1>3. c.q = q /\ c.seen = quote[q].ver /\ c.fees = quote[q].fees
    BY DEF Blank
  <1>4. ASSUME pc'[p] = "sendRequest", ctx'[p] = c
        PROVE  HandlerInv(p)'
    BY <1>1, <1>3, <1>4, LoadedQuote
       DEF HandlerInv, HoldsQuote, KnowsFees, UnchangedData,
           CancelStages, CloseStages, CreateStages, SendStages,
           DecideStages, EnsureStages
  <1>. HIDE DEF c
  <1>. QED
    BY <1>1, <1>2, <1>4, StartStep DEF Stage

LEMMA BeginDecisionSteps ==
    ASSUME IInv, NEW p \in Handlers, NEW q \in Quotes, NEW d \in Decision,
           NEW ver \in Claims(quote[q].ver),
           \/ BeginWithdraw(p, q, ver) \/ BeginDecision(p, q, ver, d)
           \/ BeginEnsure(p, q)
    PROVE  DataStep /\ LocalStep(p)
  <1>1. quote[q].status # "absent"
    BY DEF BeginWithdraw, BeginDecision, BeginEnsure, OfferOpen, ActiveStatus
  <1>2. CASE BeginWithdraw(p, q, ver)
    <2> DEFINE c == [Blank EXCEPT !.q = q, !.ver = ver, !.now = clock,
                                  !.target = quote[q].status]
    <2>1. c \in Context
      BY <1>1, LoadedQuote DEF Context
    <2>2. c.q = q
      BY DEF Blank
    <2>3. Start(p, "withdrawCommit", c) /\ UnchangedData
      BY <1>2 DEF BeginWithdraw
    <2>4. ASSUME pc'[p] = "withdrawCommit", ctx'[p] = c
          PROVE  HandlerInv(p)'
      BY <1>1, <2>2, <2>3, <2>4, LoadedQuote
         DEF HandlerInv, HoldsQuote, UnchangedData,
             CancelStages, CloseStages, CreateStages, SendStages,
             DecideStages, EnsureStages
    <2>. HIDE DEF c
    <2>. QED
      BY <2>1, <2>3, <2>4, StartStep DEF Stage
  <1>3. CASE BeginDecision(p, q, ver, d)
    <2> DEFINE c == [Blank EXCEPT !.q = q, !.r = quote[q].req, !.ver = ver,
                                  !.target = d, !.now = clock]
    <2>1. c \in Context
      BY <1>1, LoadedQuote DEF Context, Decision, QuoteStatus
    <2>2. c.q = q /\ c.target = d
      BY DEF Blank
    <2>3. Start(p, "decideRequest", c) /\ UnchangedData
      BY <1>3 DEF BeginDecision
    <2>4. ASSUME pc'[p] = "decideRequest", ctx'[p] = c
          PROVE  HandlerInv(p)'
      BY <1>1, <2>2, <2>3, <2>4, LoadedQuote
         DEF HandlerInv, HoldsQuote, UnchangedData,
             CancelStages, CloseStages, CreateStages, SendStages,
             DecideStages, EnsureStages
    <2>. HIDE DEF c
    <2>. QED
      BY <2>1, <2>3, <2>4, StartStep DEF Stage
  <1>4. CASE BeginEnsure(p, q)
    <2> DEFINE c == [Blank EXCEPT !.q = q]
    <2>1. c \in Context
      BY <1>1, LoadedQuote DEF Context
    <2>2. c.q = q
      BY DEF Blank
    <2>3. /\ quote[q].status = "accepted"
          /\ Start(p, "ensureExisting", c)
          /\ UnchangedData
      BY <1>4 DEF BeginEnsure
    <2>4. ASSUME pc'[p] = "ensureExisting", ctx'[p] = c
          PROVE  HandlerInv(p)'
      BY <2>2, <2>3, <2>4
         DEF HandlerInv, UnchangedData, CancelStages, CloseStages,
             CreateStages, SendStages, DecideStages, EnsureStages
    <2>. HIDE DEF c
    <2>. QED
      BY <2>1, <2>3, <2>4, StartStep DEF Stage
  <1>. QED
    BY <1>2, <1>3, <1>4

(* Every command that starts, every operation of one in flight, and every  *)
(* way for one to end early.                                               *)
LEMMA BeginSteps ==
    ASSUME IInv, NEW p \in Handlers, Begin(p)
    PROVE  DataStep /\ LocalStep(p)
  <1>0. "declined" \in ProviderTarget /\ "declined" \in Decision
    BY DEF ProviderTarget, Decision
  <1>1. ASSUME NEW r \in Requests,
               \/ \E t \in ProviderTarget : BeginTransition(p, r, t)
               \/ BeginCancel(p, r)
               \/ BeginCreate(p, r)
        PROVE  DataStep /\ LocalStep(p)
    BY <1>0, <1>1, BeginRequestSteps
  <1>2. ASSUME NEW q \in Quotes, NEW ver \in Claims(quote[q].ver),
               \/ \E fees \in Fees \cup {quote[q].fees} :
                     BeginUpdate(p, q, ver, fees)
               \/ \E days \in Validity : BeginSend(p, q, ver, days)
        PROVE  DataStep /\ LocalStep(p)
    BY <1>2, BeginUpdateStep, BeginSendStep
  <1>3. ASSUME NEW q \in Quotes, NEW ver \in Claims(quote[q].ver),
               \/ BeginWithdraw(p, q, ver)
               \/ \E d \in Decision : BeginDecision(p, q, ver, d)
        PROVE  DataStep /\ LocalStep(p)
    BY <1>0, <1>3, BeginDecisionSteps
  <1>4. ASSUME NEW q \in Quotes, BeginEnsure(p, q)
        PROVE  DataStep /\ LocalStep(p)
    <2>1. quote[q].ver \in Nat
      BY DEF IInv, TypeOK, QuoteDoc
    <2>2. quote[q].ver \in Claims(quote[q].ver)
      BY <2>1, EngagementAssumption DEF Claims
    <2>. QED
      BY <1>0, <1>4, <2>2, BeginDecisionSteps
  <1>. QED
    BY <1>1, <1>2, <1>3, <1>4 DEF Begin

LEMMA ContinueSteps ==
    ASSUME IInv, NEW p \in Handlers, Continue(p)
    PROVE  DataStep /\ LocalStep(p)
  BY TransitionSteps, CancelSteps, CloseSteps, CreateSteps, UpdateSteps,
     SendSteps, WithdrawSteps, DecideSteps, EnsureSteps
     DEF Continue

LEMMA EndSteps ==
    ASSUME IInv, NEW p \in Handlers, GateDenied(p) \/ Crash(p)
    PROVE  DataStep /\ LocalStep(p)
  BY KeepData, FinishLocal DEF GateDenied, Crash, IInv

LEMMA DocumentSteps ==
    ASSUME IInv,
           \/ \E r \in Requests : SubmitRequest(r)
           \/ \E q \in Quotes : ExpireOnLoad(q)
           \/ Tick
    PROVE  DataStep /\ UNCHANGED <<pc, ctx>>
  <1>1. ASSUME NEW r \in Requests, SubmitRequest(r)
        PROVE  DataStep /\ UNCHANGED <<pc, ctx>>
    <2>1. /\ request[r].status = "absent"
          /\ request' = [request EXCEPT ![r].status = "submitted"]
          /\ UNCHANGED <<clock, quote, caseOf, pc, ctx, early>>
      BY <1>1 DEF SubmitRequest
    <2>2. request' \in [Requests -> RequestDoc]
      BY <2>1 DEF IInv, TypeOK, RequestDoc, RequestStatus
    <2>3. RequestsEvolve
      BY <2>1 DEF RequestsEvolve, IInv, TypeOK, RequestDoc
    <2>4. \A x \in Requests : Engaged(x) => Engaged(x)'
      BY <2>1 DEF Engaged, IInv, TypeOK, RequestDoc
    <2>5. QuotesAnswerRequests' /\ QuotedRequestIsEngaged'
      BY <2>1, <2>4
         DEF IInv, DataInv, QuotesAnswerRequests, QuotedRequestIsEngaged,
             Engaged
    <2>. QED
      BY <2>1, <2>2, <2>3, <2>5
         DEF IInv, TypeOK, DataStep, QuotesEvolve, DataInv, OneActiveQuote,
             CaseRecordsAcceptance, TotalsMatchFees
  <1>2. ASSUME NEW q \in Quotes, ExpireOnLoad(q)
        PROVE  DataStep /\ UNCHANGED <<pc, ctx>>
    BY <1>2, CloseQuoteData DEF ExpireOnLoad, Due, TerminalStatus, IInv
  <1>3. CASE Tick
    <2>1. clock' \in Nat
      BY <1>3, EngagementAssumption DEF Tick, IInv, TypeOK
    <2>. QED
      BY <1>3, <2>1
         DEF Tick, IInv, TypeOK, DataStep, RequestsEvolve, QuotesEvolve,
             DataInv, QuotesAnswerRequests, QuotedRequestIsEngaged,
             OneActiveQuote, CaseRecordsAcceptance, TotalsMatchFees
  <1>. QED
    BY <1>1, <1>2, <1>3

-----------------------------------------------------------------------------
(* The invariant holds *)

LEMMA StartsInvariant ==
    Init => IInv
  <1>1. ASSUME Init
        PROVE  TypeOK
    <2>1. NewQuote \in QuoteDoc /\ Blank \in Context
      BY EngagementAssumption
         DEF NewQuote, QuoteDoc, QuoteStatus, Blank, Context, RequestStatus
    <2>. QED
      BY <1>1, <2>1 DEF Init, TypeOK, RequestDoc, RequestStatus, Stage
  <1>2. ASSUME Init
        PROVE  DataInv
    BY <1>2, EngagementAssumption
       DEF Init, NewQuote, DataInv, QuotesAnswerRequests,
           QuotedRequestIsEngaged, OneActiveQuote, CaseRecordsAcceptance,
           TotalsMatchFees, ActiveStatus
  <1>3. ASSUME Init, NEW p \in Handlers
        PROVE  HandlerInv(p)
    BY <1>3
       DEF Init, HandlerInv, CancelStages, CloseStages, CreateStages,
           SendStages, DecideStages, EnsureStages
  <1>. QED
    BY <1>1, <1>2, <1>3 DEF IInv

(* In every step the documents evolve as DataStep says and IInv is kept.   *)
LEMMA NextStep ==
    ASSUME IInv, [Next]_vars
    PROVE  DataStep /\ IInv'
  <1>1. ASSUME NEW p \in Handlers, DataStep, LocalStep(p)
        PROVE  IInv'
    BY <1>1, StepKeepsInvariant
  <1>2. ASSUME DataStep, UNCHANGED <<pc, ctx>>
        PROVE  IInv'
    <2>1. TypeOK' /\ DataInv'
      BY <1>2 DEF IInv, DataStep, TypeOK
    <2>2. ASSUME NEW o \in Handlers
          PROVE  HandlerInv(o)'
      BY <1>2, StandingHandler DEF IInv, SameKind
    <2>. QED
      BY <2>1, <2>2 DEF IInv
  <1>3. ASSUME NEW p \in Handlers,
               Begin(p) \/ Continue(p) \/ GateDenied(p) \/ Crash(p)
        PROVE  DataStep /\ IInv'
    BY <1>1, <1>3, BeginSteps, ContinueSteps, EndSteps
  <1>4. CASE \/ \E r \in Requests : SubmitRequest(r)
             \/ \E q \in Quotes : ExpireOnLoad(q)
             \/ Tick
    BY <1>2, <1>4, DocumentSteps
  <1>5. CASE UNCHANGED vars
    BY <1>2, <1>5, KeepData DEF vars, UnchangedData, IInv
  <1>. QED
    BY <1>3, <1>4, <1>5 DEF Next

(* Every document, and what every handler remembers of the documents it    *)
(* has read, stays in the types the code gives them.                       *)
THEOREM TypeCorrect ==
    Spec => []TypeOK
  <1>1. Init => IInv
    BY StartsInvariant
  <1>2. IInv /\ [Next]_vars => IInv'
    BY NextStep
  <1>3. IInv => TypeOK
    BY DEF IInv
  <1>. QED
    BY <1>1, <1>2, <1>3, PTL DEF Spec

(* The four safety invariants of the runs hold together, for any number of *)
(* requests, quotes, cases and concurrent commands, with or without        *)
(* stopping API instances: one active quote per request, at most one case  *)
(* per quote and only for an accepted one, totals that match the fee lines *)
(* (unless the send named a later version than it loaded), and a quoted    *)
(* request that no provider transition takes back.                         *)
THEOREM EngagementSafety ==
    Spec => [](/\ OneActiveQuote
               /\ CaseRecordsAcceptance
               /\ TotalsMatchFees
               /\ QuotedRequestIsEngaged)
  <1>1. Init => IInv
    BY StartsInvariant
  <1>2. IInv /\ [Next]_vars => IInv'
    BY NextStep
  <1>3. IInv => /\ OneActiveQuote
                /\ CaseRecordsAcceptance
                /\ TotalsMatchFees
                /\ QuotedRequestIsEngaged
    BY DEF IInv, DataInv
  <1>. QED
    BY <1>1, <1>2, <1>3, PTL DEF Spec

(* A decided quote is never written again, by any interleaving of the      *)
(* guarded commits with the unversioned cleanups.                          *)
THEOREM DecisionsAreFinal ==
    Spec => DecidedQuotesAreFinal
  <1>1. Init => IInv
    BY StartsInvariant
  <1>2. IInv /\ [Next]_vars => IInv'
    BY NextStep
  <1>3. IInv /\ [Next]_vars =>
          [\A q \in Quotes :
              quote[q].status \in TerminalStatus => quote'[q] = quote[q]]_vars
    <2>1. ASSUME IInv, [Next]_vars, NEW q \in Quotes,
                 quote[q].status \in TerminalStatus
          PROVE  quote'[q] = quote[q]
      <3>1. QuotesEvolve
        BY <2>1, NextStep DEF DataStep
      <3>. QED
        BY <2>1, <3>1 DEF QuotesEvolve, TerminalStatus, ActiveStatus
    <2>. QED
      BY <2>1
  <1>. QED
    BY <1>1, <1>2, <1>3, PTL DEF Spec, DecidedQuotesAreFinal

-----------------------------------------------------------------------------
(* GbsEngagement implements GbsEngagementContract: commands interleaved at *)
(* every database operation show the parties nothing that commands run one *)
(* at a time could not show.  Each step maps to one step of the contract   *)
(* or to none; the invariants above say which.                             *)

(* A step of the handlers seen as a step of the contract. *)
Mapped == [Contract!ContractNext]_(Contract!contractVars)

SameStatuses ==
    \A q \in Quotes : /\ quote'[q].status = quote[q].status
                      /\ quote'[q].req = quote[q].req

-----------------------------------------------------------------------------
(* One lemma per step of the contract *)

LEMMA MapStutter ==
    ASSUME UNCHANGED <<request, caseOf>>, SameStatuses
    PROVE  Mapped
  <1>1. UNCHANGED Contract!contractVars
    BY DEF Contract!contractVars, SameStatuses
  <1>. QED
    BY <1>1 DEF Mapped

LEMMA MapRequestEdge ==
    ASSUME UNCHANGED <<quote, caseOf>>, NEW r \in Requests,
           NEW t \in {"submitted", "provider_reviewing", "ready_for_quote",
                      "declined", "cancelled"},
           <<request[r].status, t>> \in Contract!RequestEdge,
           request'[r].status = t,
           \A o \in Requests \ {r} : request'[o] = request[o]
    PROVE  Mapped
  <1>1. Contract!MoveRequest(r)
    BY DEF Contract!MoveRequest
  <1>. QED
    BY <1>1 DEF Mapped, Contract!ContractNext

LEMMA MapMoveRequest ==
    ASSUME TypeOK, UNCHANGED <<quote, caseOf>>, NEW r \in Requests,
           NEW t \in ProviderTarget \cup {"cancelled"},
           request[r].status \in AllowedFrom(t), SetRequest(r, t)
    PROVE  Mapped
  <1>1. <<request[r].status, t>> \in Contract!RequestEdge
    BY DEF Contract!RequestEdge, AllowedFrom, ProviderTarget
  <1>2. /\ request'[r].status = t
        /\ \A o \in Requests \ {r} : request'[o] = request[o]
    BY DEF SetRequest, TypeOK, RequestDoc
  <1>. QED
    BY <1>1, <1>2, MapRequestEdge DEF ProviderTarget

LEMMA MapMoveQuote ==
    ASSUME TypeOK, UNCHANGED <<request, caseOf>>, NEW q \in Quotes,
           <<quote[q].status, quote'[q].status>> \in Contract!QuoteEdge,
           quote'[q].req = quote[q].req,
           \A o \in Quotes \ {q} : quote'[o] = quote[o]
    PROVE  Mapped
  <1>1. quote'[q].status \in {"sent", "withdrawn", "expired", "accepted",
                              "declined"}
    BY DEF Contract!QuoteEdge
  <1>2. Contract!MoveQuote(q)
    BY <1>1 DEF Contract!MoveQuote
  <1>. QED
    BY <1>2 DEF Mapped, Contract!ContractNext

LEMMA MapCloseQuote ==
    ASSUME TypeOK, UNCHANGED <<request, caseOf>>, NEW q \in Quotes,
           NEW s \in TerminalStatus,
           \/ quote[q].status = "sent"
           \/ quote[q].status = "draft" /\ s = "withdrawn",
           SetQuote(q, s)
    PROVE  Mapped
  <1>1. /\ quote'[q].status = s
        /\ quote'[q].req = quote[q].req
        /\ \A o \in Quotes \ {q} : quote'[o] = quote[o]
    BY DEF SetQuote, TypeOK, QuoteDoc
  <1>2. <<quote[q].status, s>> \in Contract!QuoteEdge
    BY DEF Contract!QuoteEdge, TerminalStatus
  <1>. QED
    BY <1>1, <1>2, MapMoveQuote

LEMMA MapNormalize ==
    ASSUME TypeOK, UNCHANGED <<request, caseOf>>, NEW p \in Handlers,
           NEW r \in Requests, NormalizeSentOf(p, r)
    PROVE  Mapped
  <1>1. ASSUME NEW q \in QuotesIn(r, "sent"), SetQuote(q, "expired")
        PROVE  Mapped
    BY <1>1, MapCloseQuote DEF QuotesIn, QuotesOf, TerminalStatus
  <1>2. ASSUME UNCHANGED quote
        PROVE  Mapped
    BY <1>2, MapStutter DEF SameStatuses
  <1>. QED
    BY <1>1, <1>2 DEF NormalizeSentOf

LEMMA MapInsertDraft ==
    ASSUME IInv, NEW p \in Handlers, CreateInsert(p)
    PROVE  Mapped
  <1>1. PICK r \in Requests : r = ctx[p].r /\ Engaged(r)
    BY DEF CreateInsert, IInv, HandlerInv, CreateStages
  <1>2. CASE ActiveSlotFree(r)
    <2>1. PICK q \in Quotes :
             /\ quote[q].status = "absent"
             /\ quote' = [quote EXCEPT ![q] =
                    [NewQuote EXCEPT !.status = "draft", !.req = r,
                                     !.rev = ctx[p].rev]]
      BY <1>1, <1>2 DEF CreateInsert
    <2>2. /\ quote'[q].status = "draft"
          /\ quote'[q].req = r
          /\ \A o \in Quotes \ {q} : quote'[o] = quote[o]
      BY <2>1 DEF NewQuote, IInv, TypeOK
    <2>3. \A o \in Quotes : quote[o].req = r =>
             quote[o].status \notin {"draft", "sent"}
      BY <1>2 DEF ActiveSlotFree, QuotesOf, ActiveStatus
    <2>4. UNCHANGED <<request, caseOf>>
      BY DEF CreateInsert
    <2>5. /\ [x \in Quotes |-> quote'[x].status] =
                [[x \in Quotes |-> quote[x].status] EXCEPT ![q] = "draft"]
          /\ [x \in Quotes |-> quote'[x].req] =
                [[x \in Quotes |-> quote[x].req] EXCEPT ![q] = r]
      BY <2>2
    <2>6. Contract!DraftQuote(q, r)
      BY <1>1, <2>1, <2>3, <2>4, <2>5
         DEF Contract!DraftQuote, Contract!Engaged, Contract!Active, Engaged
    <2>. QED
      BY <1>1, <2>6 DEF Mapped, Contract!ContractNext
  <1>3. CASE ~ActiveSlotFree(r)
    BY <1>1, <1>3, MapStutter DEF CreateInsert, SameStatuses
  <1>. QED
    BY <1>2, <1>3

LEMMA MapInsertCase ==
    ASSUME IInv, NEW p \in Handlers, EnsureInsert(p)
    PROVE  Mapped
  <1>1. PICK q \in Quotes : q = ctx[p].q /\ quote[q].status = "accepted"
    BY DEF EnsureInsert, IInv, HandlerInv, EnsureStages
  <1>2. CASE CaseSlotFree(q)
    <2>1. PICK c \in Cases : /\ caseOf[c] = None
                             /\ caseOf' = [caseOf EXCEPT ![c] = q]
      BY <1>1, <1>2 DEF EnsureInsert
    <2>2. /\ caseOf'[c] = q
          /\ \A d \in Cases \ {c} : caseOf'[d] = caseOf[d]
          /\ caseOf[c] \notin Quotes
          /\ \A d \in Cases : caseOf[d] # q
      BY <1>2, <2>1, EngagementAssumption DEF IInv, TypeOK, CaseSlotFree
    <2>3. UNCHANGED <<request, quote>>
      BY DEF EnsureInsert
    <2>4. {d \in Cases : caseOf'[d] = q} = {c}
      BY <2>2
    <2>5. \A o \in Quotes \ {q} :
             {d \in Cases : caseOf'[d] = o} = {d \in Cases : caseOf[d] = o}
      BY <2>2
    <2>6. {d \in Cases : caseOf[d] = q} = {}
      BY <2>2
    <2>7. Contract!OpenCase(q, c)
      BY <1>1, <2>2, <2>3, <2>4, <2>5, <2>6 DEF Contract!OpenCase
    <2>. QED
      BY <1>1, <2>7 DEF Mapped, Contract!ContractNext
  <1>3. CASE ~CaseSlotFree(q)
    BY <1>1, <1>3, MapStutter DEF EnsureInsert, SameStatuses
  <1>. QED
    BY <1>2, <1>3

-----------------------------------------------------------------------------
(* Every step of the handlers *)

(* The operations that only read. *)
LEMMA ReadingSteps ==
    ASSUME NEW p \in Handlers,
           \/ Begin(p) \/ GateDenied(p) \/ Crash(p)
           \/ CancelCheckAccepted(p) \/ CancelCheckSent(p)
           \/ CloseDraftsFind(p) \/ CloseDraftsDone(p)
           \/ CloseSentFind(p) \/ CloseSentDone(p)
           \/ CreateCheckAccepted(p) \/ CreateReadRevision(p)
           \/ SendCheckRequest(p) \/ SendCheckFresh(p) \/ SendCheckAfter(p)
           \/ DecideCheckRequest(p) \/ DecideCheckFresh(p)
           \/ EnsureFindExisting(p) \/ EnsureFindAgain(p)
    PROVE  UnchangedData
  <1>1. Begin(p) => UnchangedData
    BY DEF Begin, BeginTransition, BeginCancel, BeginCreate, BeginUpdate,
           BeginSend, BeginWithdraw, BeginDecision, BeginEnsure
  <1>2. GateDenied(p) \/ Crash(p) => UnchangedData
    BY DEF GateDenied, Crash
  <1>3. CloseDraftsFind(p) \/ CloseDraftsDone(p) \/ CloseSentFind(p)
            \/ CloseSentDone(p) => UnchangedData
    BY DEF CloseDraftsFind, CloseDraftsDone, CloseSentFind, CloseSentDone,
           CloseFind
  <1>4. CreateReadRevision(p) \/ SendCheckAfter(p) => UnchangedData
    BY DEF CreateReadRevision, SendCheckAfter
  <1>5. \/ CancelCheckAccepted(p) \/ CancelCheckSent(p)
        \/ CreateCheckAccepted(p)
        \/ SendCheckRequest(p) \/ SendCheckFresh(p)
        \/ DecideCheckRequest(p) \/ DecideCheckFresh(p)
        \/ EnsureFindExisting(p) \/ EnsureFindAgain(p)
        => UnchangedData
    BY DEF CancelCheckAccepted, CancelCheckSent, CreateCheckAccepted,
           SendCheckRequest, SendCheckFresh, DecideCheckRequest,
           DecideCheckFresh, EnsureFindExisting, EnsureFindAgain, Check,
           UnchangedData
  <1>. QED
    BY <1>1, <1>2, <1>3, <1>4, <1>5

LEMMA ReadingMapped ==
    ASSUME UnchangedData
    PROVE  Mapped
  BY MapStutter DEF UnchangedData, SameStatuses

LEMMA RequestWritesMapped ==
    ASSUME IInv, NEW p \in Handlers, CommitTransition(p) \/ CancelCommit(p)
    PROVE  Mapped
  <1>1. CASE CommitTransition(p)
    <2>1. ctx[p].target \in ProviderTarget /\ HoldsRequest(p, ctx[p].target)
      BY <1>1 DEF CommitTransition, IInv, HandlerInv
    <2>2. CASE RequestUnmoved(ctx[p].r, ctx[p].ver)
      <3>1. /\ SetRequest(ctx[p].r, ctx[p].target)
            /\ UNCHANGED <<quote, caseOf>>
        BY <1>1, <2>2 DEF CommitTransition
      <3>2. /\ request[ctx[p].r].status \in AllowedFrom(ctx[p].target)
            /\ ctx[p].r \in Requests
        BY <2>1, <2>2 DEF HoldsRequest, RequestUnmoved
      <3>. QED
        BY <2>1, <3>1, <3>2, MapMoveRequest DEF IInv
    <2>3. CASE ~RequestUnmoved(ctx[p].r, ctx[p].ver)
      BY <1>1, <2>3, MapStutter DEF CommitTransition, SameStatuses
    <2>. QED
      BY <2>2, <2>3
  <1>2. CASE CancelCommit(p)
    <2>1. HoldsRequest(p, "cancelled")
      BY <1>2 DEF CancelCommit, IInv, HandlerInv, CancelStages
    <2>2. CASE RequestUnmoved(ctx[p].r, ctx[p].ver)
      <3>1. SetRequest(ctx[p].r, "cancelled") /\ UNCHANGED <<quote, caseOf>>
        BY <1>2, <2>2 DEF CancelCommit
      <3>2. /\ request[ctx[p].r].status \in AllowedFrom("cancelled")
            /\ ctx[p].r \in Requests
        BY <2>1, <2>2 DEF HoldsRequest, RequestUnmoved
      <3>. QED
        BY <3>1, <3>2, MapMoveRequest DEF IInv
    <2>3. CASE ~RequestUnmoved(ctx[p].r, ctx[p].ver)
      BY <1>2, <2>3, MapStutter DEF CancelCommit, SameStatuses
    <2>. QED
      BY <2>2, <2>3
  <1>. QED
    BY <1>1, <1>2

LEMMA CleanupsMapped ==
    ASSUME IInv, NEW p \in Handlers,
           CancelExpire(p) \/ CreateExpire(p) \/ CloseDraft(p) \/ CloseSent(p)
               \/ SendUndo(p)
    PROVE  Mapped
  <1>1. CASE CancelExpire(p)
    <2>1. ctx[p].r \in Requests
      BY <1>1 DEF CancelExpire, IInv, HandlerInv, HoldsRequest, CancelStages
    <2>. QED
      BY <1>1, <2>1, MapNormalize DEF CancelExpire, IInv
  <1>2. CASE CreateExpire(p)
    <2>1. ctx[p].r \in Requests
      BY <1>2 DEF CreateExpire, IInv, HandlerInv, CreateStages
    <2>. QED
      BY <1>2, <2>1, MapNormalize DEF CreateExpire, IInv
  <1>3. ASSUME NEW at, NEW status \in ActiveStatus, CloseOne(p, at, status)
        PROVE  Mapped
    <2>1. PICK q \in ctx[p].todo :
             IF quote[q].status = status
             THEN SetQuote(q, "withdrawn")
             ELSE UNCHANGED quote
      BY <1>3 DEF CloseOne
    <2>2. q \in Quotes /\ UNCHANGED <<request, caseOf>>
      BY <1>3 DEF CloseOne, IInv, TypeOK, Context
    <2>. QED
      BY <2>1, <2>2, MapCloseQuote, MapStutter
         DEF SameStatuses, IInv, ActiveStatus, TerminalStatus
  <1>4. CASE SendUndo(p)
    <2>1. ctx[p].q \in Quotes /\ UNCHANGED <<request, caseOf>>
      BY <1>4 DEF SendUndo, IInv, HandlerInv
    <2>. QED
      BY <1>4, <2>1, MapCloseQuote, MapStutter
         DEF SendUndo, SameStatuses, IInv, TerminalStatus
  <1>. QED
    BY <1>1, <1>2, <1>3, <1>4 DEF CloseDraft, CloseSent, ActiveStatus

LEMMA QuoteWritesMapped ==
    ASSUME IInv, NEW p \in Handlers,
           UpdateCommit(p) \/ SendCommit(p) \/ WithdrawCommit(p)
               \/ DecideCommit(p)
    PROVE  Mapped
  <1> DEFINE q == ctx[p].q
  <1>1. HoldsQuote(p) /\ q \in Quotes /\ UNCHANGED <<request, caseOf>>
    BY DEF UpdateCommit, SendCommit, WithdrawCommit, DecideCommit, IInv,
           HandlerInv, HoldsQuote, SendStages, DecideStages
  <1>2. ASSUME UNCHANGED quote
        PROVE  Mapped
    BY <1>1, <1>2, MapStutter DEF SameStatuses
  <1>3. CASE UpdateCommit(p) /\ quote' # quote
    <2>1. quote' = [quote EXCEPT ![q].fees = ctx[p].fees,
                                 ![q].total = ctx[p].fees,
                                 ![q].ver = @ + 1]
      BY <1>3 DEF UpdateCommit
    <2>2. SameStatuses
      BY <1>1, <2>1 DEF SameStatuses, IInv, TypeOK, QuoteDoc
    <2>. QED
      BY <1>1, <2>2, MapStutter
  <1>4. CASE SendCommit(p) /\ quote' # quote
    <2>1. /\ quote[q].status = "draft"
          /\ quote' = [quote EXCEPT
                 ![q].status = "sent",
                 ![q].total = ctx[p].fees,
                 ![q].expiresAt = ComputeExpiresAt(ctx[p].now, ctx[p].days),
                 ![q].ver = @ + 1]
      BY <1>4 DEF SendCommit
    <2>2. /\ quote'[q].status = "sent"
          /\ quote'[q].req = quote[q].req
          /\ \A o \in Quotes \ {q} : quote'[o] = quote[o]
      BY <1>1, <2>1 DEF IInv, TypeOK, QuoteDoc
    <2>3. <<quote[q].status, quote'[q].status>> \in Contract!QuoteEdge
      BY <2>1, <2>2 DEF Contract!QuoteEdge
    <2>. QED
      BY <1>1, <2>2, <2>3, MapMoveQuote DEF IInv
  <1>5. CASE WithdrawCommit(p) /\ quote' # quote
    <2>1. /\ SetQuote(q, "withdrawn")
          /\ quote[q].status \in {"draft", "sent"}
      BY <1>5 DEF WithdrawCommit, OfferOpen
    <2>. QED
      BY <1>1, <2>1, MapCloseQuote DEF IInv, TerminalStatus
  <1>6. CASE DecideCommit(p) /\ quote' # quote
    <2>1. SetQuote(q, ctx[p].target) /\ quote[q].status = "sent"
      BY <1>6 DEF DecideCommit, OfferOpen
    <2>2. ctx[p].target \in TerminalStatus
      BY <1>6
         DEF DecideCommit, DecideStages, IInv, HandlerInv, Decision,
             TerminalStatus
    <2>. QED
      BY <1>1, <2>1, <2>2, MapCloseQuote DEF IInv
  <1>. QED
    BY <1>2, <1>3, <1>4, <1>5, <1>6

LEMMA StepsMapped ==
    ASSUME IInv, [Next]_vars
    PROVE  Mapped
  <1>1. ASSUME NEW p \in Handlers, Begin(p) \/ GateDenied(p) \/ Crash(p)
        PROVE  Mapped
    BY <1>1, ReadingSteps, ReadingMapped
  <1>2. ASSUME NEW p \in Handlers, Continue(p)
        PROVE  Mapped
    BY <1>2, ReadingSteps, ReadingMapped, RequestWritesMapped,
       CleanupsMapped, QuoteWritesMapped, MapInsertDraft, MapInsertCase
       DEF Continue
  <1>3. ASSUME NEW r \in Requests, SubmitRequest(r)
        PROVE  Mapped
    <2>1. /\ request[r].status = "absent"
          /\ request' = [request EXCEPT ![r].status = "submitted"]
          /\ UNCHANGED <<quote, caseOf>>
      BY <1>3 DEF SubmitRequest
    <2>2. /\ request'[r].status = "submitted"
          /\ \A o \in Requests \ {r} : request'[o] = request[o]
      BY <2>1 DEF IInv, TypeOK, RequestDoc
    <2>3. <<request[r].status, "submitted">> \in Contract!RequestEdge
      BY <2>1 DEF Contract!RequestEdge
    <2>. QED
      BY <2>1, <2>2, <2>3, MapRequestEdge
  <1>4. ASSUME NEW q \in Quotes, ExpireOnLoad(q)
        PROVE  Mapped
    BY <1>4, MapCloseQuote DEF ExpireOnLoad, Due, TerminalStatus, IInv
  <1>5. CASE Tick
    BY <1>5, MapStutter DEF Tick, SameStatuses
  <1>6. CASE UNCHANGED vars
    BY <1>6, MapStutter DEF vars, SameStatuses
  <1>. QED
    BY <1>1, <1>2, <1>3, <1>4, <1>5, <1>6 DEF Next

(* For every value of the constants, the interleaved commands implement    *)
(* the contract.                                                           *)
THEOREM EngagementImplementsContract ==
    Spec => ImplementsContract
  <1>1. Init => Contract!ContractInit
    BY EngagementAssumption DEF Init, Contract!ContractInit, NewQuote
  <1>2. Init => IInv
    BY StartsInvariant
  <1>3. IInv /\ [Next]_vars => IInv'
    BY NextStep
  <1>4. IInv /\ [Next]_vars => [Contract!ContractNext]_(Contract!contractVars)
    BY StepsMapped DEF Mapped
  <1>. QED
    BY <1>1, <1>2, <1>3, <1>4, PTL
       DEF Spec, ImplementsContract, Contract!ContractSpec

-----------------------------------------------------------------------------
(* A cancelled request does not keep an offer open: who takes it back *)

SenderStages == {"sendRequest", "sendFresh", "sendCommit", "sendAfter"}
OwnerStages  == CloseStages \cup {"sendAfter", "sendUndo"}

(* The handler will withdraw q unless somebody else does before.           *)
Owns(p, q) ==
    \/ /\ ctx[p].r = quote[q].req
       /\ pc[p] \in {"closeDraftsFind", "closeDrafts", "closeSentFind"}
    \/ pc[p] = "closeSent" /\ q \in ctx[p].todo
    \/ ctx[p].q = q /\ pc[p] \in {"sendAfter", "sendUndo"}

(* A send remembers the request of the quote it sends: the request it      *)
(* looks at afterwards is the one whose cancellation matters.              *)
SenderKnows(p) ==
    /\ ctx[p].q \in Quotes /\ quote[ctx[p].q].status # "absent"
    /\ ctx[p].r = quote[ctx[p].q].req

OwnInv ==
    /\ \A p \in Handlers : pc[p] \in SenderStages => SenderKnows(p)
    /\ SentOnCancelledIsOwned

(* What most steps leave alone: quotes keep their request, none is sent,   *)
(* and no request is cancelled.                                            *)
ReqsStay ==
    \A q \in Quotes : quote[q].status # "absent" =>
        quote'[q].status # "absent" /\ quote'[q].req = quote[q].req

NothingSent ==
    \A q \in Quotes : quote'[q].status = "sent" =>
        quote[q].status = "sent" /\ quote'[q].req = quote[q].req

NothingCancelled ==
    \A r \in Requests : request'[r].status = "cancelled"
                           => request[r].status = "cancelled"

Others(p) == \A o \in Handlers \ {p} : pc'[o] = pc[o] /\ ctx'[o] = ctx[o]

LEMMA OwnedDefinition ==
    SentOnCancelledIsOwned <=>
        \A q \in Quotes :
            quote[q].status = "sent" /\ request[quote[q].req].status = "cancelled"
                => \E p \in Handlers : Owns(p, q)
  BY DEF SentOnCancelledIsOwned, Owns

LEMMA OwnersStand ==
    ASSUME IInv, OwnInv, NEW p \in Handlers, Others(p), ReqsStay,
           pc'[p] \in SenderStages => SenderKnows(p)',
           \A q \in Quotes :
              quote'[q].status = "sent"
                 /\ request'[quote'[q].req].status = "cancelled" =>
              \/ Owns(p, q)'
              \/ /\ quote[q].status = "sent"
                 /\ request[quote[q].req].status = "cancelled"
                 /\ ~Owns(p, q)
    PROVE  OwnInv'
  <1>1. ASSUME NEW o \in Handlers, pc'[o] \in SenderStages
        PROVE  SenderKnows(o)'
    BY <1>1 DEF OwnInv, SenderKnows, ReqsStay, Others
  <1>2. ASSUME NEW q \in Quotes, quote'[q].status = "sent",
               request'[quote'[q].req].status = "cancelled"
        PROVE  \E o \in Handlers : Owns(o, q)'
    <2>1. CASE Owns(p, q)'
      BY <2>1
    <2>2. CASE ~Owns(p, q)'
      <3>1. /\ quote[q].status = "sent"
            /\ request[quote[q].req].status = "cancelled" /\ ~Owns(p, q)
        BY <1>2, <2>2
      <3>2. PICK o \in Handlers : Owns(o, q)
        BY <3>1, OwnedDefinition DEF OwnInv
      <3>3. o # p /\ quote'[q].req = quote[q].req
        BY <3>1, <3>2 DEF ReqsStay
      <3>4. pc'[o] = pc[o] /\ ctx'[o] = ctx[o]
        BY <3>3 DEF Others
      <3>. QED
        BY <3>2, <3>3, <3>4 DEF Owns
    <2>. QED
      BY <2>1, <2>2
  <1>3. SentOnCancelledIsOwned'
    BY <1>2 DEF SentOnCancelledIsOwned, Owns
  <1>. QED
    BY <1>1, <1>3 DEF OwnInv

(* A handler that owns nothing takes a step that creates nothing to own.   *)
LEMMA QuietHandler ==
    ASSUME IInv, OwnInv, NEW p \in Handlers, Others(p), ReqsStay, NothingSent,
           NothingCancelled, pc[p] \notin OwnerStages,
           pc'[p] \in SenderStages => SenderKnows(p)'
    PROVE  OwnInv'
  <1>1. ASSUME NEW q \in Quotes, quote'[q].status = "sent",
               request'[quote'[q].req].status = "cancelled"
        PROVE  /\ quote[q].status = "sent"
               /\ request[quote[q].req].status = "cancelled"
               /\ ~Owns(p, q)
    <2>1. quote[q].status = "sent" /\ quote'[q].req = quote[q].req
      BY <1>1 DEF NothingSent
    <2>2. quote[q].req \in Requests
      BY <2>1 DEF IInv, DataInv, QuotesAnswerRequests
    <2>3. ~Owns(p, q)
      BY DEF Owns, OwnerStages, CloseStages
    <2>. QED
      BY <1>1, <2>1, <2>2, <2>3 DEF NothingCancelled
  <1>. QED
    BY <1>1, OwnersStand

(* What writes a quote without sending it.                                 *)
LEMMA ClosedQuote ==
    ASSUME TypeOK, NEW q \in Quotes, NEW s \in TerminalStatus, SetQuote(q, s)
    PROVE  ReqsStay /\ NothingSent
  BY DEF TypeOK, QuoteDoc, SetQuote, TerminalStatus, ReqsStay, NothingSent

LEMMA SameQuotes ==
    ASSUME quote' = quote
    PROVE  ReqsStay /\ NothingSent
  BY DEF ReqsStay, NothingSent

LEMMA NormalizedQuotes ==
    ASSUME TypeOK, NEW p, NEW r, NormalizeSentOf(p, r)
    PROVE  ReqsStay /\ NothingSent
  BY ClosedQuote, SameQuotes
     DEF NormalizeSentOf, QuotesIn, QuotesOf, TerminalStatus

(* Where a step leaves its handler.                                        *)
LEMMA Moved ==
    ASSUME TypeOK, NEW p \in Handlers
    PROVE  /\ \A s : Goto(p, s) => Others(p) /\ pc'[p] = s /\ ctx' = ctx
           /\ Finish(p) => Others(p) /\ pc'[p] = "idle"
           /\ \A s, c : Start(p, s, c) =>
                 /\ Others(p) /\ pc[p] = "idle"
                 /\ pc'[p] = s /\ ctx'[p] = c
  BY DEF TypeOK, Goto, Finish, Start, Others

(* Checks, expiries, and the commands that end in one write.               *)
LEMMA QuietReads ==
    ASSUME IInv, OwnInv, NEW p \in Handlers, UnchangedData,
           pc[p] \notin OwnerStages,
           \/ Finish(p)
           \/ \E s \in Stage : Goto(p, s) /\ (s \in SenderStages =>
                                                 pc[p] \in SenderStages)
    PROVE  OwnInv'
  <1>1. Others(p) /\ (pc'[p] = "idle" \/ ctx' = ctx)
    BY Moved DEF IInv
  <1>2. ReqsStay /\ NothingSent /\ NothingCancelled
    BY SameQuotes DEF UnchangedData, NothingCancelled
  <1>3. pc'[p] \in SenderStages => SenderKnows(p)'
    <2>1. ASSUME pc'[p] \in SenderStages
          PROVE  pc[p] \in SenderStages /\ ctx' = ctx
      BY <2>1, Moved DEF IInv, SenderStages
    <2>. QED
      BY <2>1 DEF OwnInv, SenderKnows, UnchangedData
  <1>. QED
    BY <1>1, <1>2, <1>3, QuietHandler

LEMMA QuietWrites ==
    ASSUME IInv, OwnInv, NEW p \in Handlers, ReqsStay, NothingSent,
           NothingCancelled, pc[p] \notin OwnerStages,
           \/ Finish(p)
           \/ \E s \in Stage \ SenderStages : Goto(p, s)
    PROVE  OwnInv'
  <1>1. Others(p) /\ pc'[p] \notin SenderStages
    BY Moved DEF IInv, SenderStages
  <1>. QED
    BY <1>1, QuietHandler

LEMMA NobodyMoves ==
    ASSUME IInv, OwnInv, UNCHANGED <<pc, ctx>>, ReqsStay, NothingSent,
           NothingCancelled
    PROVE  OwnInv'
  <1>1. \A p \in Handlers : pc'[p] \in SenderStages => SenderKnows(p)'
    BY DEF OwnInv, SenderKnows, ReqsStay
  <1>2. ASSUME NEW q \in Quotes, quote'[q].status = "sent",
               request'[quote'[q].req].status = "cancelled"
        PROVE  \E o \in Handlers : Owns(o, q)'
    <2>1. /\ quote[q].status = "sent" /\ quote'[q].req = quote[q].req
          /\ quote[q].req \in Requests
      BY <1>2 DEF NothingSent, IInv, DataInv, QuotesAnswerRequests
    <2>2. PICK o \in Handlers : Owns(o, q)
      BY <1>2, <2>1, OwnedDefinition DEF OwnInv, NothingCancelled
    <2>. QED
      BY <2>1, <2>2 DEF Owns
  <1>3. SentOnCancelledIsOwned'
    BY <1>2 DEF SentOnCancelledIsOwned, Owns
  <1>. QED
    BY <1>1, <1>3 DEF OwnInv

LEMMA CheckKeepsOwners ==
    ASSUME IInv, OwnInv, NEW p \in Handlers, NEW ok, NEW s \in Stage,
           Check(p, ok, s), pc[p] \notin OwnerStages,
           s \in SenderStages => pc[p] \in SenderStages
    PROVE  OwnInv'
  BY QuietReads DEF Check, UnchangedData

(* The commands that take nothing back and send nothing.                   *)
LEMMA RequestCommandsKeepOwners ==
    ASSUME IInv, OwnInv, NEW p \in Handlers,
           \/ CommitTransition(p) \/ CancelExpire(p)
           \/ CancelCheckAccepted(p) \/ CancelCheckSent(p)
    PROVE  OwnInv'
  <1>1. CASE CommitTransition(p)
    <2>1. ctx[p].target \in ProviderTarget
      BY <1>1 DEF CommitTransition, IInv, HandlerInv
    <2>2. NothingCancelled
      BY <1>1, <2>1
         DEF CommitTransition, SetRequest, NothingCancelled, ProviderTarget,
             IInv, TypeOK, RequestDoc
    <2>3. /\ ReqsStay /\ NothingSent /\ Finish(p)
          /\ pc[p] \notin OwnerStages
      BY <1>1, SameQuotes DEF CommitTransition, OwnerStages, CloseStages
    <2>. QED
      BY <2>2, <2>3, QuietWrites
  <1>2. CASE CancelExpire(p)
    <2>1. ReqsStay /\ NothingSent
      BY <1>2, NormalizedQuotes DEF CancelExpire, IInv
    <2>2. /\ NothingCancelled /\ pc[p] \notin OwnerStages
          /\ Goto(p, "cancelAccepted")
      BY <1>2 DEF CancelExpire, NothingCancelled, OwnerStages, CloseStages
    <2>. QED
      BY <2>1, <2>2, QuietWrites DEF Stage, SenderStages
  <1>3. CASE CancelCheckAccepted(p) \/ CancelCheckSent(p)
    BY <1>3, CheckKeepsOwners
       DEF CancelCheckAccepted, CancelCheckSent, Stage, SenderStages,
           OwnerStages, CloseStages
  <1>. QED
    BY <1>1, <1>2, <1>3

LEMMA CreateKeepsOwners ==
    ASSUME IInv, OwnInv, NEW p \in Handlers,
           \/ CreateCheckAccepted(p) \/ CreateExpire(p)
           \/ CreateReadRevision(p) \/ CreateInsert(p)
    PROVE  OwnInv'
  <1>1. CASE CreateCheckAccepted(p)
    BY <1>1, CheckKeepsOwners
       DEF CreateCheckAccepted, Stage, SenderStages, OwnerStages, CloseStages
  <1>2. CASE CreateExpire(p)
    <2>1. ReqsStay /\ NothingSent
      BY <1>2, NormalizedQuotes DEF CreateExpire, IInv
    <2>2. /\ NothingCancelled /\ pc[p] \notin OwnerStages
          /\ Goto(p, "createRevision")
      BY <1>2 DEF CreateExpire, NothingCancelled, OwnerStages, CloseStages
    <2>. QED
      BY <2>1, <2>2, QuietWrites DEF Stage, SenderStages
  <1>3. CASE CreateReadRevision(p)
    <2>1. /\ pc[p] = "createRevision" /\ pc'[p] = "createInsert"
          /\ Others(p) /\ UNCHANGED <<request, quote>>
      BY <1>3 DEF CreateReadRevision, UnchangedData, Others, IInv, TypeOK
    <2>2. ReqsStay /\ NothingSent /\ NothingCancelled
      BY <2>1, SameQuotes DEF NothingCancelled
    <2>. QED
      BY <2>1, <2>2, QuietHandler DEF SenderStages, OwnerStages, CloseStages
  <1>4. CASE CreateInsert(p)
    <2>1. ReqsStay /\ NothingSent
      <3>1. ASSUME NEW q \in Quotes, quote[q].status = "absent",
                   quote' = [quote EXCEPT ![q] =
                       [NewQuote EXCEPT !.status = "draft", !.req = ctx[p].r,
                                        !.rev = ctx[p].rev]]
            PROVE  ReqsStay /\ NothingSent
        <4>1. /\ quote'[q].status = "draft"
              /\ \A o \in Quotes \ {q} : quote'[o] = quote[o]
          BY <3>1 DEF NewQuote, IInv, TypeOK
        <4>. QED
          BY <3>1, <4>1 DEF ReqsStay, NothingSent
      <3>. QED
        BY <1>4, <3>1, SameQuotes DEF CreateInsert
    <2>2. NothingCancelled /\ pc[p] \notin OwnerStages /\ Finish(p)
      BY <1>4 DEF CreateInsert, NothingCancelled, OwnerStages, CloseStages
    <2>. QED
      BY <2>1, <2>2, QuietWrites
  <1>. QED
    BY <1>1, <1>2, <1>3, <1>4

LEMMA UpdateKeepsOwners ==
    ASSUME IInv, OwnInv, NEW p \in Handlers, UpdateCommit(p)
    PROVE  OwnInv'
  <1>1. ctx[p].q \in Quotes
    BY DEF UpdateCommit, IInv, HandlerInv, HoldsQuote
  <1>2. ReqsStay /\ NothingSent
    <2>1. ASSUME NEW q \in Quotes
          PROVE  /\ quote'[q].status = quote[q].status
                 /\ quote'[q].req = quote[q].req
      BY <1>1 DEF UpdateCommit, IInv, TypeOK, QuoteDoc
    <2>. QED
      BY <2>1 DEF ReqsStay, NothingSent
  <1>3. NothingCancelled /\ pc[p] \notin OwnerStages /\ Finish(p)
    BY DEF UpdateCommit, NothingCancelled, OwnerStages, CloseStages
  <1>. QED
    BY <1>2, <1>3, QuietWrites

LEMMA DecisionsKeepOwners ==
    ASSUME IInv, OwnInv, NEW p \in Handlers,
           \/ WithdrawCommit(p) \/ DecideCheckRequest(p) \/ DecideCheckFresh(p)
           \/ DecideCommit(p)
    PROVE  OwnInv'
  <1>1. CASE WithdrawCommit(p)
    <2>1. ctx[p].q \in Quotes
      BY <1>1 DEF WithdrawCommit, IInv, HandlerInv, HoldsQuote
    <2>2. ReqsStay /\ NothingSent
      BY <1>1, <2>1, ClosedQuote, SameQuotes
         DEF WithdrawCommit, TerminalStatus, IInv
    <2>3. NothingCancelled /\ pc[p] \notin OwnerStages /\ Finish(p)
      BY <1>1 DEF WithdrawCommit, NothingCancelled, OwnerStages, CloseStages
    <2>. QED
      BY <2>2, <2>3, QuietWrites
  <1>2. CASE DecideCheckRequest(p) \/ DecideCheckFresh(p)
    BY <1>2, CheckKeepsOwners
       DEF DecideCheckRequest, DecideCheckFresh, Stage, SenderStages,
           OwnerStages, CloseStages
  <1>3. CASE DecideCommit(p)
    <2>1. ctx[p].q \in Quotes /\ ctx[p].target \in TerminalStatus
      BY <1>3
         DEF DecideCommit, DecideStages, IInv, HandlerInv, HoldsQuote,
             Decision, TerminalStatus
    <2>2. ReqsStay /\ NothingSent
      BY <1>3, <2>1, ClosedQuote, SameQuotes DEF DecideCommit, IInv
    <2>3. /\ NothingCancelled /\ pc[p] \notin OwnerStages
          /\ Goto(p, "ensureExisting") \/ Finish(p)
      BY <1>3 DEF DecideCommit, NothingCancelled, OwnerStages, CloseStages
    <2>. QED
      BY <2>2, <2>3, QuietWrites DEF Stage, SenderStages
  <1>. QED
    BY <1>1, <1>2, <1>3

LEMMA EnsureKeepsOwners ==
    ASSUME IInv, OwnInv, NEW p \in Handlers,
           EnsureFindExisting(p) \/ EnsureFindAgain(p) \/ EnsureInsert(p)
    PROVE  OwnInv'
  <1>1. CASE EnsureFindExisting(p) \/ EnsureFindAgain(p)
    BY <1>1, CheckKeepsOwners
       DEF EnsureFindExisting, EnsureFindAgain, Stage, SenderStages,
           OwnerStages, CloseStages
  <1>2. CASE EnsureInsert(p)
    BY <1>2, SameQuotes, QuietWrites
       DEF EnsureInsert, NothingCancelled, OwnerStages, CloseStages
  <1>. QED
    BY <1>1, <1>2

(* The cancel and its cleanup: the cancel owns every sent quote of its     *)
(* request, then the list it reads, and drops only what it has withdrawn.  *)
LEMMA CancelOwns ==
    ASSUME IInv, OwnInv, NEW p \in Handlers, CancelCommit(p)
    PROVE  OwnInv'
  <1>1. ReqsStay /\ NothingSent
    BY SameQuotes DEF CancelCommit
  <1>2. CASE Finish(p) /\ UNCHANGED request
    BY <1>1, <1>2, QuietWrites
       DEF CancelCommit, NothingCancelled, OwnerStages, CloseStages
  <1>3. CASE SetRequest(ctx[p].r, "cancelled") /\ Goto(p, "closeDraftsFind")
    <2>1. Others(p) /\ pc'[p] = "closeDraftsFind" /\ ctx' = ctx
      BY <1>3, Moved DEF IInv
    <2>2. ASSUME NEW q \in Quotes, quote'[q].status = "sent",
                 request'[quote'[q].req].status = "cancelled"
          PROVE  \/ Owns(p, q)'
                 \/ /\ quote[q].status = "sent"
                    /\ request[quote[q].req].status = "cancelled"
                    /\ ~Owns(p, q)
      <3>1. quote' = quote /\ pc[p] = "cancelCommit"
        BY DEF CancelCommit
      <3>2. quote[q].req \in Requests
        BY <2>2, <3>1 DEF IInv, DataInv, QuotesAnswerRequests
      <3>3. CASE quote[q].req = ctx[p].r
        BY <2>1, <3>1, <3>3 DEF Owns
      <3>4. CASE quote[q].req # ctx[p].r
        <4>1. request'[quote[q].req] = request[quote[q].req]
          BY <1>3, <3>2, <3>4 DEF SetRequest, IInv, TypeOK
        <4>. QED
          BY <2>2, <3>1, <4>1 DEF Owns
      <3>. QED
        BY <3>3, <3>4
    <2>. QED
      BY <1>1, <2>1, <2>2, OwnersStand DEF SenderStages
  <1>. QED
    BY <1>2, <1>3 DEF CancelCommit

LEMMA CleanupOwns ==
    ASSUME IInv, OwnInv, NEW p \in Handlers,
           \/ CloseDraftsFind(p) \/ CloseDraft(p) \/ CloseDraftsDone(p)
           \/ CloseSentFind(p) \/ CloseSent(p) \/ CloseSentDone(p)
    PROVE  OwnInv'
  <1>. DEFINE Kept == \A q \in Quotes :
                 quote[q].status = "sent" /\ quote'[q].status = "sent"
                    /\ Owns(p, q) => Owns(p, q)'
  <1>1. ASSUME Others(p), ReqsStay, NothingSent, request' = request, Kept,
               pc'[p] \notin SenderStages
        PROVE  OwnInv'
    <2>1. ASSUME NEW q \in Quotes, quote'[q].status = "sent",
                 request'[quote'[q].req].status = "cancelled"
          PROVE  \/ Owns(p, q)'
                 \/ /\ quote[q].status = "sent"
                    /\ request[quote[q].req].status = "cancelled"
                    /\ ~Owns(p, q)
      BY <1>1, <2>1 DEF NothingSent
    <2>. QED
      BY <1>1, <2>1, OwnersStand
  <1>. HIDE DEF Kept
  <1>2. CASE CloseDraftsFind(p) \/ CloseSentFind(p)
    <2>1. /\ Others(p) /\ UNCHANGED <<request, quote>>
          /\ ctx'[p].r = ctx[p].r /\ ctx'[p].q = ctx[p].q
          /\ \/ pc[p] = "closeDraftsFind" /\ pc'[p] = "closeDrafts"
             \/ /\ pc[p] = "closeSentFind" /\ pc'[p] = "closeSent"
                /\ ctx'[p].todo = QuotesIn(ctx[p].r, "sent")
      BY <1>2
         DEF CloseDraftsFind, CloseSentFind, CloseFind, UnchangedData, Others,
             IInv, TypeOK, Context
    <2>2. Kept
      BY <2>1 DEF Kept, Owns, QuotesIn, QuotesOf
    <2>3. ReqsStay /\ NothingSent
      BY <2>1, SameQuotes
    <2>. QED
      BY <1>1, <2>1, <2>2, <2>3 DEF SenderStages
  <1>3. CASE CloseDraft(p) \/ CloseSent(p)
    <2>1. PICK q \in ctx[p].todo :
             /\ quote' = quote \/ SetQuote(q, "withdrawn")
             /\ pc[p] = "closeSent" =>
                   (quote[q].status = "sent" => SetQuote(q, "withdrawn"))
             /\ ctx' = [ctx EXCEPT ![p].todo = @ \ {q}]
      BY <1>3 DEF CloseDraft, CloseSent, CloseOne
    <2>2. /\ q \in Quotes /\ UNCHANGED <<request, pc>>
          /\ pc[p] \in {"closeDrafts", "closeSent"}
      BY <1>3 DEF CloseDraft, CloseSent, CloseOne, IInv, TypeOK, Context
    <2>3. ReqsStay /\ NothingSent
      BY <2>1, <2>2, ClosedQuote, SameQuotes DEF IInv, TerminalStatus
    <2>4. /\ Others(p) /\ ctx'[p].r = ctx[p].r /\ ctx'[p].q = ctx[p].q
          /\ ctx'[p].todo = ctx[p].todo \ {q}
      BY <2>1, <2>2 DEF Others, IInv, TypeOK, Context
    <2>5. pc[p] = "closeSent" /\ quote[q].status = "sent"
             => quote'[q].status # "sent"
      BY <2>1, <2>2 DEF SetQuote, IInv, TypeOK, QuoteDoc
    <2>6. Kept
      BY <2>2, <2>3, <2>4, <2>5 DEF Kept, Owns, NothingSent
    <2>. QED
      BY <1>1, <2>2, <2>3, <2>4, <2>6 DEF SenderStages
  <1>4. CASE CloseDraftsDone(p) \/ CloseSentDone(p)
    <2>1. UNCHANGED <<request, quote>>
      BY <1>4 DEF CloseDraftsDone, CloseSentDone, UnchangedData
    <2>2. /\ Others(p)
          /\ \/ /\ pc[p] = "closeDrafts" /\ pc'[p] = "closeSentFind"
                /\ ctx' = ctx
             \/ /\ pc[p] = "closeSent" /\ ctx[p].todo = {}
                /\ pc'[p] = "idle"
      BY <1>4, Moved DEF CloseDraftsDone, CloseSentDone, IInv
    <2>3. Kept
      BY <2>1, <2>2 DEF Kept, Owns
    <2>4. ReqsStay /\ NothingSent
      BY <2>1, SameQuotes
    <2>. QED
      BY <1>1, <2>1, <2>2, <2>3, <2>4 DEF SenderStages
  <1>. QED
    BY <1>2, <1>3, <1>4

(* The send: it owns the quote it sent until it has seen the request still *)
(* ready, or has taken the quote back.                                     *)
LEMMA SendOwns ==
    ASSUME IInv, OwnInv, NEW p \in Handlers,
           \/ SendCheckRequest(p) \/ SendCheckFresh(p) \/ SendCommit(p)
           \/ SendCheckAfter(p) \/ SendUndo(p)
    PROVE  OwnInv'
  <1>. DEFINE q == ctx[p].q
  <1>1. CASE SendCheckRequest(p) \/ SendCheckFresh(p)
    BY <1>1, CheckKeepsOwners
       DEF SendCheckRequest, SendCheckFresh, Stage, SenderStages, OwnerStages,
           CloseStages
  <1>2. CASE SendCommit(p)
    <2>1. /\ pc[p] = "sendCommit" /\ SenderKnows(p) /\ q \in Quotes
          /\ request' = request
      BY <1>2 DEF SendCommit, OwnInv, SenderKnows, SenderStages
    <2>2. CASE Finish(p) /\ UNCHANGED quote
      BY <2>1, <2>2, SameQuotes, QuietWrites
         DEF NothingCancelled, OwnerStages, CloseStages
    <2>3. CASE ~(Finish(p) /\ UNCHANGED quote)
      <3>1. /\ quote' = [quote EXCEPT
                             ![q].status = "sent",
                             ![q].total = ctx[p].fees,
                             ![q].expiresAt = ComputeExpiresAt(ctx[p].now, ctx[p].days),
                             ![q].ver = @ + 1]
            /\ Goto(p, "sendAfter")
        BY <1>2, <2>3 DEF SendCommit
      <3>2. Others(p) /\ pc'[p] = "sendAfter" /\ ctx' = ctx
        BY <3>1, Moved DEF IInv
      <3>3. /\ quote'[q].status = "sent" /\ quote'[q].req = quote[q].req
            /\ \A o \in Quotes \ {q} : quote'[o] = quote[o]
        BY <2>1, <3>1 DEF IInv, TypeOK, QuoteDoc
      <3>4. ReqsStay /\ SenderKnows(p)'
        BY <2>1, <3>2, <3>3 DEF ReqsStay, SenderKnows
      <3>5. Owns(p, q)'
        BY <3>2 DEF Owns
      <3>6. \A o \in Quotes \ {q} : ~Owns(p, o)
        BY <2>1 DEF Owns
      <3>. QED
        BY <2>1, <3>2, <3>3, <3>4, <3>5, <3>6, OwnersStand
    <2>. QED
      BY <2>2, <2>3
  <1>3. CASE SendCheckAfter(p)
    <2>1. /\ pc[p] = "sendAfter" /\ SenderKnows(p)
          /\ UNCHANGED <<request, quote>>
      BY <1>3 DEF SendCheckAfter, UnchangedData, OwnInv, SenderStages
    <2>2. /\ Others(p)
          /\ \/ pc'[p] = "idle" /\ request[ctx[p].r].status = "ready_for_quote"
             \/ pc'[p] = "sendUndo" /\ ctx' = ctx
      BY <1>3, Moved DEF SendCheckAfter, RequestIsReady, IInv
    <2>3. ASSUME NEW o \in Quotes, quote[o].status = "sent",
                 request[quote[o].req].status = "cancelled"
          PROVE  Owns(p, o)' \/ ~Owns(p, o)
      <3>1. o # q => ~Owns(p, o)
        BY <2>1 DEF Owns
      <3>2. o = q => pc'[p] = "sendUndo" /\ ctx' = ctx
        BY <2>1, <2>2, <2>3 DEF SenderKnows
      <3>. QED
        BY <3>1, <3>2 DEF Owns
    <2>4. ReqsStay
      BY <2>1, SameQuotes
    <2>5. pc'[p] \notin SenderStages
      BY <2>2 DEF SenderStages
    <2>. QED
      BY <2>1, <2>2, <2>3, <2>4, <2>5, OwnersStand
  <1>4. CASE SendUndo(p)
    <2>1. pc[p] = "sendUndo" /\ q \in Quotes /\ request' = request
      BY <1>4 DEF SendUndo, IInv, HandlerInv
    <2>2. Others(p) /\ pc'[p] = "idle"
      BY <1>4, Moved DEF SendUndo, IInv
    <2>3. ReqsStay /\ NothingSent
      BY <1>4, <2>1, ClosedQuote, SameQuotes DEF SendUndo, TerminalStatus, IInv
    <2>4. quote'[q].status # "sent"
      BY <1>4, <2>1 DEF SendUndo, SetQuote, IInv, TypeOK, QuoteDoc
    <2>5. \A o \in Quotes \ {q} : ~Owns(p, o)
      BY <2>1 DEF Owns
    <2>. QED
      BY <2>1, <2>2, <2>3, <2>4, <2>5, OwnersStand
         DEF NothingSent, SenderStages
  <1>. QED
    BY <1>1, <1>2, <1>3, <1>4

LEMMA BeginKeepsOwners ==
    ASSUME IInv, OwnInv, NEW p \in Handlers, Begin(p)
    PROVE  OwnInv'
  <1>1. UnchangedData
    BY ReadingSteps
  <1>2. ReqsStay /\ NothingSent /\ NothingCancelled
    BY <1>1, SameQuotes DEF UnchangedData, NothingCancelled
  <1>3. ASSUME Others(p), pc[p] = "idle", pc'[p] \notin SenderStages
        PROVE  OwnInv'
    BY <1>2, <1>3, QuietHandler DEF OwnerStages, CloseStages
  <1>4. ASSUME NEW q \in Quotes, NEW days \in Validity, NEW ver,
               BeginSend(p, q, ver, days)
        PROVE  OwnInv'
    <2>. DEFINE c == [Blank EXCEPT !.q = q, !.r = quote[q].req, !.ver = ver,
                                   !.seen = quote[q].ver, !.fees = quote[q].fees,
                                   !.days = days, !.now = clock]
    <2>1. Start(p, "sendRequest", c) /\ quote[q].status = "draft"
      BY <1>4 DEF BeginSend
    <2>2. c.q = q /\ c.r = quote[q].req
      BY DEF Blank
    <2>. HIDE DEF c
    <2>3. /\ Others(p) /\ pc[p] = "idle"
          /\ pc'[p] = "sendRequest" /\ ctx'[p] = c
      BY <2>1, Moved DEF IInv
    <2>4. SenderKnows(p)'
      BY <1>1, <2>1, <2>2, <2>3 DEF SenderKnows, UnchangedData
    <2>. QED
      BY <1>2, <2>3, <2>4, QuietHandler DEF OwnerStages, CloseStages
  <1>5. ASSUME NEW r \in Requests,
               \/ \E t \in ProviderTarget : BeginTransition(p, r, t)
               \/ BeginCancel(p, r) \/ BeginCreate(p, r)
        PROVE  OwnInv'
    <2>1. ASSUME NEW t \in ProviderTarget, BeginTransition(p, r, t)
          PROVE  OwnInv'
      <3>1. Others(p) /\ pc[p] = "idle" /\ pc'[p] = "requestCommit"
        BY <2>1, Moved DEF BeginTransition, IInv
      <3>. QED
        BY <1>3, <3>1 DEF SenderStages
    <2>2. ASSUME BeginCancel(p, r)
          PROVE  OwnInv'
      <3>1. Others(p) /\ pc[p] = "idle" /\ pc'[p] = "cancelExpire"
        BY <2>2, Moved DEF BeginCancel, IInv
      <3>. QED
        BY <1>3, <3>1 DEF SenderStages
    <2>3. ASSUME BeginCreate(p, r)
          PROVE  OwnInv'
      <3>1. Others(p) /\ pc[p] = "idle" /\ pc'[p] = "createAccepted"
        BY <2>3, Moved DEF BeginCreate, IInv
      <3>. QED
        BY <1>3, <3>1 DEF SenderStages
    <2>. QED
      BY <1>5, <2>1, <2>2, <2>3
  <1>6. ASSUME NEW q \in Quotes, NEW ver,
               \/ \E fees \in Fees \cup {quote[q].fees} :
                     BeginUpdate(p, q, ver, fees)
               \/ BeginWithdraw(p, q, ver)
               \/ \E d \in Decision : BeginDecision(p, q, ver, d)
               \/ BeginEnsure(p, q)
        PROVE  OwnInv'
    <2>1. ASSUME NEW fees, BeginUpdate(p, q, ver, fees)
          PROVE  OwnInv'
      <3>1. Others(p) /\ pc[p] = "idle" /\ pc'[p] = "updateCommit"
        BY <2>1, Moved DEF BeginUpdate, IInv
      <3>. QED
        BY <1>3, <3>1 DEF SenderStages
    <2>2. ASSUME BeginWithdraw(p, q, ver)
          PROVE  OwnInv'
      <3>1. Others(p) /\ pc[p] = "idle" /\ pc'[p] = "withdrawCommit"
        BY <2>2, Moved DEF BeginWithdraw, IInv
      <3>. QED
        BY <1>3, <3>1 DEF SenderStages
    <2>3. ASSUME NEW d, BeginDecision(p, q, ver, d)
          PROVE  OwnInv'
      <3>1. Others(p) /\ pc[p] = "idle" /\ pc'[p] = "decideRequest"
        BY <2>3, Moved DEF BeginDecision, IInv
      <3>. QED
        BY <1>3, <3>1 DEF SenderStages
    <2>4. ASSUME BeginEnsure(p, q)
          PROVE  OwnInv'
      <3>1. Others(p) /\ pc[p] = "idle" /\ pc'[p] = "ensureExisting"
        BY <2>4, Moved DEF BeginEnsure, IInv
      <3>. QED
        BY <1>3, <3>1 DEF SenderStages
    <2>. QED
      BY <1>6, <2>1, <2>2, <2>3, <2>4
  <1>. QED
    BY <1>4, <1>5, <1>6 DEF Begin

LEMMA OwnStep ==
    ASSUME ~MayCrash, IInv, OwnInv, [Next]_vars
    PROVE  OwnInv'
  <1>1. ASSUME NEW p \in Handlers, Continue(p)
        PROVE  OwnInv'
    BY <1>1, RequestCommandsKeepOwners, CreateKeepsOwners, UpdateKeepsOwners,
       DecisionsKeepOwners, EnsureKeepsOwners, CancelOwns, CleanupOwns, SendOwns
       DEF Continue
  <1>2. ASSUME NEW p \in Handlers, GateDenied(p)
        PROVE  OwnInv'
    BY <1>2, QuietReads DEF GateDenied, OwnerStages, CloseStages
  <1>3. ASSUME NEW p \in Handlers
        PROVE  ~Crash(p)
    BY DEF Crash
  <1>4. ASSUME NEW r \in Requests, SubmitRequest(r)
        PROVE  OwnInv'
    <2>1. NothingCancelled
      BY <1>4 DEF SubmitRequest, NothingCancelled, IInv, TypeOK, RequestDoc
    <2>. QED
      BY <1>4, <2>1, SameQuotes, NobodyMoves DEF SubmitRequest
  <1>5. ASSUME NEW q \in Quotes, ExpireOnLoad(q)
        PROVE  OwnInv'
    <2>1. ReqsStay /\ NothingSent
      BY <1>5, ClosedQuote DEF ExpireOnLoad, TerminalStatus, IInv
    <2>. QED
      BY <1>5, <2>1, NobodyMoves DEF ExpireOnLoad, NothingCancelled
  <1>6. CASE Tick \/ UNCHANGED vars
    BY <1>6, SameQuotes, NobodyMoves DEF Tick, vars, NothingCancelled
  <1>. QED
    BY <1>1, <1>2, <1>3, <1>4, <1>5, <1>6, BeginKeepsOwners DEF Next

(* When no API instance stops, a sent quote on a cancelled request is one  *)
(* that a cancel, its cleanup or the send itself is still about to take    *)
(* back, for any number of commands in flight: the window in which a send  *)
(* and a cancel cross is always closed by one of the two.                  *)
THEOREM CancelledOffersAreOwned ==
    ASSUME ~MayCrash
    PROVE  Spec => []SentOnCancelledIsOwned
  <1>1. Init => IInv /\ OwnInv
    <2>1. Init => OwnInv
      BY DEF Init, OwnInv, SenderStages, SentOnCancelledIsOwned, NewQuote
    <2>. QED
      BY <2>1, StartsInvariant
  <1>2. IInv /\ OwnInv /\ [Next]_vars => IInv' /\ OwnInv'
    BY NextStep, OwnStep
  <1>3. OwnInv => SentOnCancelledIsOwned
    BY DEF OwnInv
  <1>. QED
    BY <1>1, <1>2, <1>3, PTL DEF Spec
=============================================================================
