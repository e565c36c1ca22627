----------------------- MODULE GbsEngagementContract -----------------------
(***************************************************************************)
(* What the Business Services engagement promises to its two parties, with *)
(* every command as one indivisible step: the life of a request, of each   *)
(* quote and of the case an accepted quote gives rise to.  GbsEngagement,  *)
(* where the commands are interleaved handlers, implements it.             *)
(***************************************************************************)
CONSTANTS Requests, Quotes, Cases, None

VARIABLES
    requestStatus,  \* [Requests -> status]
    quoteStatus,    \* [Quotes -> status]
    quoteOf,        \* [Quotes -> the request it answers, None if absent]
    cases           \* [Quotes -> the set of cases opened from it]

contractVars == <<requestStatus, quoteStatus, quoteOf, cases>>

Active(q)  == quoteStatus[q] \in {"draft", "sent"}
Engaged(r) == requestStatus[r] \in {"ready_for_quote", "cancelled"}

(* The edges of the request's life. *)
RequestEdge ==
    {<<"absent", "submitted">>, <<"submitted", "provider_reviewing">>,
     <<"submitted", "declined">>, <<"submitted", "ready_for_quote">>,
     <<"submitted", "cancelled">>, <<"provider_reviewing", "declined">>,
     <<"provider_reviewing", "ready_for_quote">>,
     <<"provider_reviewing", "cancelled">>,
     <<"ready_for_quote", "cancelled">>}

(* The edges of a quote's life after its creation. *)
QuoteEdge ==
    {<<"draft", "sent">>, <<"draft", "withdrawn">>, <<"sent", "withdrawn">>,
     <<"sent", "expired">>, <<"sent", "accepted">>, <<"sent", "declined">>}

MoveRequest(r) ==
    /\ \E s \in {"submitted", "provider_reviewing", "ready_for_quote",
                 "declined", "cancelled"} :
          /\ <<requestStatus[r], s>> \in RequestEdge
          /\ requestStatus' = [requestStatus EXCEPT ![r] = s]
    /\ UNCHANGED <<quoteStatus, quoteOf, cases>>

(* A new draft on an engaged request, none of whose quotes is active.      *)
DraftQuote(q, r) ==
    /\ quoteStatus[q] = "absent"
    /\ Engaged(r)
    /\ \A o \in Quotes : quoteOf[o] = r => ~Active(o)
    /\ quoteStatus' = [quoteStatus EXCEPT ![q] = "draft"]
    /\ quoteOf' = [quoteOf EXCEPT ![q] = r]
    /\ UNCHANGED <<requestStatus, cases>>

MoveQuote(q) ==
    /\ \E s \in {"sent", "withdrawn", "expired", "accepted", "declined"} :
          /\ <<quoteStatus[q], s>> \in QuoteEdge
          /\ quoteStatus' = [quoteStatus EXCEPT ![q] = s]
    /\ UNCHANGED <<requestStatus, quoteOf, cases>>

(* The one case of an accepted quote; a case belongs to one quote.         *)
OpenCase(q, c) ==
    /\ quoteStatus[q] = "accepted"
    /\ cases[q] = {}
    /\ \A o \in Quotes : c \notin cases[o]
    /\ cases' = [cases EXCEPT ![q] = {c}]
    /\ UNCHANGED <<requestStatus, quoteStatus, quoteOf>>

ContractInit ==
    /\ requestStatus = [r \in Requests |-> "absent"]
    /\ quoteStatus = [q \in Quotes |-> "absent"]
    /\ quoteOf = [q \in Quotes |-> None]
    /\ cases = [q \in Quotes |-> {}]

ContractNext ==
    \/ \E r \in Requests : MoveRequest(r)
    \/ \E q \in Quotes, r \in Requests : DraftQuote(q, r)
    \/ \E q \in Quotes : MoveQuote(q)
    \/ \E q \in Quotes, c \in Cases : OpenCase(q, c)

ContractSpec == ContractInit /\ [][ContractNext]_contractVars
=============================================================================
