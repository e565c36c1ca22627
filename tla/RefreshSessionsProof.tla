----------------------- MODULE RefreshSessionsProof ------------------------
(***************************************************************************)
(* Theorems about RefreshSessions, for any number of requests, sessions    *)
(* and tokens and for every window and lifetime.                           *)
(*                                                                         *)
(* SessionInv is inductive.  Its core is that a token that was given to a  *)
(* client never becomes current again once it has been replaced: whoever   *)
(* has won with it is the only one, and a request that lost with it will   *)
(* not find it current when it judges the session.                         *)
(***************************************************************************)
EXTENDS RefreshSessions, TLAPS

Refreshing == {"subject", "rotate", "judge", "revoke", "reread", "cleanup"}
Signed     == {"rotate", "reread"}

(* A document is created once, with its first token.                       *)
NoDocument ==
    \A s \in Sessions : session[s].cur = 0 =>
        /\ session[s].ended = "no"
        /\ \A n \in Tokens : parent[s][n] = None /\ <<s, n>> \notin given

CurrentIsSigned ==
    \A s \in Sessions : session[s].cur # 0 => parent[s][session[s].cur] # None

(* What has reached a client was signed, for a token replaced since.       *)
GivenIsSigned ==
    \A s \in Sessions, n \in Tokens : <<s, n>> \in given =>
        parent[s][n] # None /\ parent[s][n] # session[s].cur

ParentIsGiven ==
    \A s \in Sessions, n \in Tokens :
        parent[s][n] \in Tokens => <<s, parent[s][n]>> \in given

(* What a request knows.                                                   *)
CallOK(c) ==
    /\ c.pc \in Refreshing =>
         c.s \in Sessions /\ c.tok \in Tokens /\ <<c.s, c.tok>> \in given
    /\ c.pc \in Signed =>
         /\ c.new \in Tokens /\ parent[c.s][c.new] = c.tok
         /\ <<c.s, c.new>> \notin given
    /\ c.pc = "rotate" => c.new # session[c.s].cur
    /\ c.pc = "reread" =>
         /\ c.tok # session[c.s].cur
         /\ \A n \in Tokens : <<c.s, n>> \in given => parent[c.s][n] # c.tok
    /\ c.pc = "judge" /\ Alive(session[c.s], c.now) => c.tok # session[c.s].cur
    /\ c.pc = "revoke" =>
         /\ c.tok # c.seen.cur /\ Alive(c.seen, c.now)
         /\ ~Benign(c.seen, c.tok, c.now)
    /\ c.pc = "issue" => c.born = c.ver

CallsOK == \A p \in Calls : CallOK(call[p])

(* No two requests hold the same successor, or have won with one token.    *)
CallsDiffer ==
    \A p, q \in Calls :
        /\ call[p].pc \in Signed /\ call[q].pc \in Signed
        /\ call[p].s = call[q].s
        /\ \/ call[p].new = call[q].new
           \/ At(p, "reread") /\ At(q, "reread") /\ call[p].tok = call[q].tok
        => p = q

(* Every change of the account is counted, and a session has the count of  *)
(* its sign-in.                                                            *)
VersionsCount ==
    /\ epoch = account.ver
    /\ \A s \in Sessions : session[s].born = session[s].ver

SessionInv ==
    /\ TypeOK /\ NoDocument /\ CurrentIsSigned /\ GivenIsSigned
    /\ ParentIsGiven /\ OneSuccessor /\ CallsOK /\ CallsDiffer /\ VersionsCount

LEMMA InitInv == Init => SessionInv
<1> SUFFICES ASSUME Init PROVE SessionInv
  OBVIOUS
<1>1. TypeOK
  <2>1. NoSession \in Session
    BY DEF NoSession, Session, Ends
  <2>2. IdleCall \in Call
    BY <2>1 DEF IdleCall, Call, Steps
  <2> QED
    BY <2>1, <2>2, RSAssumption DEF Init, TypeOK
<1>2. \A p \in Calls : call[p].pc = "idle"
  BY DEF Init, IdleCall
<1>3. /\ CallsOK /\ CallsDiffer
  BY <1>2 DEF CallsOK, CallOK, CallsDiffer, Refreshing, Signed, At
<1>4. VersionsCount /\ NoDocument /\ CurrentIsSigned /\ GivenIsSigned
      /\ OneSuccessor
  BY DEF Init, VersionsCount, NoSession, NoDocument, CurrentIsSigned,
         GivenIsSigned, OneSuccessor
<1>5. ParentIsGiven
  BY RSAssumption DEF Init, ParentIsGiven, Tokens
<1> QED
  BY <1>1, <1>3, <1>4, <1>5 DEF SessionInv

-----------------------------------------------------------------------------
(* A step that leaves the documents alone and of the requests changes one  *)
(* at most.                                                                *)
LEMMA CallStep ==
    ASSUME SessionInv, NEW p \in Calls, NEW c \in Call,
           call' = [call EXCEPT ![p] = c], UNCHANGED <<session, parent, given>>,
           clock' \in Nat, account' \in [active : BOOLEAN, ver : 0 .. MaxVersion],
           epoch' = account'.ver, CallOK(c), c.pc \notin Signed
    PROVE  SessionInv'
<1>1. /\ call'[p] = c
      /\ \A q \in Calls : q # p => call'[q] = call[q]
  BY DEF SessionInv, TypeOK
<1>2. TypeOK'
  <2>1. epoch' \in Nat
    BY RSAssumption
  <2> QED
    BY <2>1 DEF SessionInv, TypeOK
<1>3. CallsOK'
  BY <1>1 DEF SessionInv, CallsOK, CallOK
<1>4. CallsDiffer'
  BY <1>1 DEF SessionInv, CallsDiffer, At
<1>5. NoDocument' /\ CurrentIsSigned' /\ GivenIsSigned' /\ ParentIsGiven'
      /\ OneSuccessor'
  BY DEF SessionInv, NoDocument, CurrentIsSigned, GivenIsSigned, ParentIsGiven,
         OneSuccessor
<1>6. VersionsCount'
  BY DEF SessionInv, VersionsCount
<1> QED
  BY <1>2, <1>3, <1>4, <1>5, <1>6 DEF SessionInv

LEMMA QuietStep ==
    ASSUME SessionInv, UNCHANGED <<session, parent, given, call>>,
           clock' \in Nat, account' \in [active : BOOLEAN, ver : 0 .. MaxVersion],
           epoch' = account'.ver
    PROVE  SessionInv'
<1>1. TypeOK'
  <2>1. epoch' \in Nat
    BY RSAssumption
  <2> QED
    BY <2>1 DEF SessionInv, TypeOK
<1>2. CallsOK' /\ CallsDiffer'
  BY DEF SessionInv, CallsOK, CallOK, CallsDiffer, At
<1>3. NoDocument' /\ CurrentIsSigned' /\ GivenIsSigned' /\ ParentIsGiven'
      /\ OneSuccessor' /\ VersionsCount'
  BY DEF SessionInv, NoDocument, CurrentIsSigned, GivenIsSigned, ParentIsGiven,
         OneSuccessor, VersionsCount
<1> QED
  BY <1>1, <1>2, <1>3 DEF SessionInv

LEMMA IdleCallOK ==
    /\ IdleCall \in Call /\ IdleCall.pc \notin Signed
    /\ CallOK(IdleCall)
<1>1. NoSession \in Session
  BY DEF NoSession, Session, Ends
<1> QED
  BY <1>1 DEF IdleCall, Call, Steps, CallOK, Refreshing, Signed

LEMMA FinishStep ==
    ASSUME SessionInv, NEW p \in Calls, Finish(p),
           UNCHANGED <<clock, account, session, parent, given, epoch>>
    PROVE  SessionInv'
<1>1. /\ clock' \in Nat /\ account' \in [active : BOOLEAN, ver : 0 .. MaxVersion]
      /\ epoch' = account'.ver /\ call' = [call EXCEPT ![p] = IdleCall]
  BY DEF SessionInv, TypeOK, VersionsCount, Finish
<1> QED
  BY <1>1, IdleCallOK, CallStep

(* A live session ends; of the requests some are over with that.           *)
LEMMA EndStep ==
    ASSUME SessionInv, NEW s \in Sessions, NEW how \in Ends,
           session[s].cur # 0, session[s].ended = "no", how # "no",
           session' = [session EXCEPT ![s].ended = how],
           call' \in [Calls -> Call],
           \A q \in Calls : call'[q] = call[q] \/ call'[q] = IdleCall,
           UNCHANGED <<clock, account, parent, given, epoch>>
    PROVE  SessionInv'
<1>1. /\ session' \in [Sessions -> Session]
      /\ \A t \in Sessions :
            /\ session'[t].cur = session[t].cur
            /\ session'[t].ends = session[t].ends
            /\ session'[t].born = session[t].born /\ session'[t].ver = session[t].ver
            /\ session'[t].ended = "no" => session[t].ended = "no"
  BY DEF SessionInv, TypeOK, Session
<1>2. TypeOK'
  BY <1>1 DEF SessionInv, TypeOK
<1>3. CallsOK'
  <2> SUFFICES ASSUME NEW p \in Calls PROVE CallOK(call[p])'
    BY DEF CallsOK
  <2>1. CASE call'[p] = IdleCall
    BY <2>1 DEF IdleCall, CallOK, Refreshing, Signed
  <2>2. CASE call'[p] = call[p]
    <3>1. CallOK(call[p])
      BY DEF SessionInv, CallsOK
    <3>2. CASE call[p].pc \notin Refreshing
      BY <2>2, <3>1, <3>2 DEF CallOK, Refreshing, Signed
    <3>3. CASE call[p].pc \in Refreshing
      <4>1. call[p].s \in Sessions
        BY <3>1, <3>3 DEF CallOK
      <4>2. /\ session'[call[p].s].cur = session[call[p].s].cur
            /\ Alive(session'[call[p].s], call[p].now)
                 => Alive(session[call[p].s], call[p].now)
        BY <1>1, <4>1 DEF Alive
      <4> QED
        BY <2>2, <3>1, <4>2 DEF CallOK
    <3> QED
      BY <3>2, <3>3
  <2> QED
    BY <2>1, <2>2
<1>4. CallsDiffer'
  BY DEF SessionInv, CallsDiffer, At, IdleCall, Signed
<1>5. NoDocument' /\ CurrentIsSigned' /\ GivenIsSigned' /\ ParentIsGiven'
      /\ OneSuccessor' /\ VersionsCount'
  <2>1. NoDocument'
    BY <1>1 DEF SessionInv, NoDocument
  <2> QED
    BY <1>1, <2>1 DEF SessionInv, CurrentIsSigned, GivenIsSigned,
              ParentIsGiven, OneSuccessor, VersionsCount
<1> QED
  BY <1>2, <1>3, <1>4, <1>5 DEF SessionInv

-----------------------------------------------------------------------------
(* What holds of a request in the course of a refresh.                     *)
LEMMA HasSession ==
    ASSUME SessionInv, NEW p \in Calls, call[p].pc \in Refreshing
    PROVE  /\ call[p].s \in Sessions /\ call[p].tok \in Tokens
           /\ <<call[p].s, call[p].tok>> \in given
           /\ session[call[p].s].cur # 0 /\ session[call[p].s].cur \in Tokens
<1>1. /\ call[p].s \in Sessions /\ call[p].tok \in Tokens
      /\ <<call[p].s, call[p].tok>> \in given
  BY DEF SessionInv, CallsOK, CallOK
<1>2. session[call[p].s].cur # 0
  BY <1>1 DEF SessionInv, NoDocument
<1>3. session[call[p].s] \in Session
  BY <1>1 DEF SessionInv, TypeOK
<1> QED
  BY <1>1, <1>2, <1>3 DEF Session

(* The first token of a session: there was nothing of that session before. *)
LEMMA IssueStep ==
    ASSUME SessionInv, NEW p \in Calls, NEW s \in Sessions, Issue(p, s)
    PROVE  SessionInv'
<1> DEFINE doc == [cur |-> 1, prev |-> 0, at |-> 0, ends |-> clock + Lifetime,
                   ver |-> call[p].ver, ended |-> "no", born |-> call[p].born]
<1>0. /\ call[p] \in Call /\ call[p].pc = "issue" /\ session[s].cur = 0
      /\ call[p].born = call[p].ver
  BY DEF SessionInv, TypeOK, Issue, At, CallsOK, CallOK
<1>1. /\ doc \in Session /\ doc.cur = 1 /\ doc.born = doc.ver
  <2>1. clock + Lifetime \in Nat /\ call[p].ver \in Nat /\ 1 \in Tokens
    BY <1>0, RSAssumption DEF SessionInv, TypeOK, Call, Tokens
  <2> QED
    BY <1>0, <2>1 DEF Session, Ends
<1> HIDE DEF doc
<1>2. /\ session' \in [Sessions -> Session] /\ session'[s] = doc
      /\ \A t \in Sessions : t # s => session'[t] = session[t]
  BY <1>1 DEF SessionInv, TypeOK, Issue, doc
<1>3. 1 \in Tokens /\ 0 \notin Tokens
  BY RSAssumption DEF Tokens
<1>4. /\ parent' \in [Sessions -> [Tokens -> Tokens \cup {0, None}]]
      /\ parent'[s][1] = 0
      /\ \A t \in Sessions, n \in Tokens :
           t # s \/ n # 1 => parent'[t][n] = parent[t][n]
  BY <1>3 DEF SessionInv, TypeOK, Issue
<1>5. given' = given \cup {<<s, 1>>}
  BY DEF Issue
<1>6. \A n \in Tokens : parent[s][n] = None /\ <<s, n>> \notin given
  BY <1>0 DEF SessionInv, NoDocument
<1>7. /\ call' \in [Calls -> Call] /\ call'[p] = IdleCall
      /\ \A q \in Calls : q # p => call'[q] = call[q]
  BY IdleCallOK DEF SessionInv, TypeOK, Issue, Finish
<1>8. UNCHANGED <<clock, account, epoch>>
  BY DEF Issue
<1>a. TypeOK'
  BY <1>2, <1>3, <1>4, <1>5, <1>7, <1>8 DEF SessionInv, TypeOK
<1>b. NoDocument'
  <2> SUFFICES ASSUME NEW t \in Sessions, session'[t].cur = 0
               PROVE  /\ session'[t].ended = "no"
                      /\ \A n \in Tokens : parent'[t][n] = None
                                          /\ <<t, n>> \notin given'
    BY DEF NoDocument
  <2>1. t # s
    BY <1>1, <1>2
  <2> QED
    BY <1>2, <1>4, <1>5, <2>1 DEF SessionInv, NoDocument
<1>i. CurrentIsSigned'
  <2> SUFFICES ASSUME NEW t \in Sessions, session'[t].cur # 0
               PROVE  parent'[t][session'[t].cur] # None
    BY DEF CurrentIsSigned
  <2>1. CASE t = s
    BY <1>1, <1>2, <1>4, <2>1, RSAssumption
  <2>2. CASE t # s
    <3>1. session'[t] = session[t] /\ session[t].cur \in Tokens
      BY <1>2, <2>2 DEF SessionInv, TypeOK, Session
    <3> QED
      BY <1>4, <2>2, <3>1 DEF SessionInv, CurrentIsSigned
  <2> QED
    BY <2>1, <2>2
<1>c. GivenIsSigned'
  BY <1>1, <1>2, <1>3, <1>4, <1>5, <1>6, RSAssumption DEF SessionInv, GivenIsSigned
<1>d. ParentIsGiven'
  BY <1>3, <1>4, <1>5 DEF SessionInv, ParentIsGiven
<1>e. OneSuccessor'
  <2> SUFFICES ASSUME NEW t \in given', NEW u \in given', t[1] = u[1],
                      parent'[t[1]][t[2]] = parent'[u[1]][u[2]]
               PROVE  t = u
    BY DEF OneSuccessor
  <2>1. /\ t \in Sessions \X Tokens /\ u \in Sessions \X Tokens
    BY <1>a DEF TypeOK
  <2>2. CASE t[1] = s
    <3>1. \A x \in given' : x \in Sessions \X Tokens /\ x[1] = s => x = <<s, 1>>
      BY <1>5, <1>6
    <3> QED
      BY <2>1, <2>2, <3>1
  <2>3. CASE t[1] # s
    BY <1>4, <1>5, <2>1, <2>3 DEF SessionInv, OneSuccessor
  <2> QED
    BY <2>2, <2>3
<1>f. CallsOK'
  <2> SUFFICES ASSUME NEW q \in Calls PROVE CallOK(call[q])'
    BY DEF CallsOK
  <2>1. CASE q = p
    BY <1>7, <2>1 DEF IdleCall, CallOK, Refreshing, Signed
  <2>2. CASE q # p /\ call[q].pc \notin Refreshing
    BY <1>7, <2>2 DEF SessionInv, CallsOK, CallOK, Refreshing, Signed
  <2>3. CASE q # p /\ call[q].pc \in Refreshing
    <3>1. CallOK(call[q]) /\ call'[q] = call[q]
      BY <1>7, <2>3 DEF SessionInv, CallsOK
    <3>2. call[q].s \in Sessions /\ call[q].s # s
      BY <1>6, <2>3, HasSession
    <3>3. /\ session'[call[q].s] = session[call[q].s]
          /\ \A n \in Tokens : /\ parent'[call[q].s][n] = parent[call[q].s][n]
                               /\ <<call[q].s, n>> \in given'
                                    <=> <<call[q].s, n>> \in given
      BY <1>2, <1>4, <1>5, <3>2
    <3> QED
      BY <3>1, <3>3 DEF CallOK, Refreshing, Signed
  <2> QED
    BY <2>1, <2>2, <2>3
<1>g. CallsDiffer'
  BY <1>7 DEF SessionInv, CallsDiffer, At, IdleCall, Signed
<1>h. VersionsCount'
  BY <1>1, <1>2, <1>8 DEF SessionInv, VersionsCount
<1> QED
  BY <1>a, <1>b, <1>c, <1>d, <1>e, <1>f, <1>g, <1>h, <1>i DEF SessionInv

-----------------------------------------------------------------------------
(* What RefreshSubject changes for an account it finds eligible.           *)
Signing(p, n) ==
    /\ parent' = [parent EXCEPT ![call[p].s][n] = call[p].tok]
    /\ call' = [call EXCEPT ![p].pc = "rotate", ![p].new = n,
                            ![p].now = clock]

(* A successor is signed: nobody holds it, and no token has it as parent.  *)
LEMMA SignStep ==
    ASSUME SessionInv, NEW p \in Calls, call[p].pc = "subject",
           NEW n \in Fresh(call[p].s),
           Signing(p, n),
           UNCHANGED <<clock, account, session, given, epoch>>
    PROVE  SessionInv'
<1> DEFINE s == call[p].s
           tok == call[p].tok
<1>1. /\ s \in Sessions /\ tok \in Tokens /\ <<s, tok>> \in given
      /\ session[s].cur # 0
  BY HasSession DEF Refreshing
<1>2. n \in Tokens /\ parent[s][n] = None /\ <<s, n>> \notin given
      /\ n # session[s].cur
  BY <1>1 DEF Fresh, SessionInv, GivenIsSigned, CurrentIsSigned
<1>3. /\ parent' \in [Sessions -> [Tokens -> Tokens \cup {0, None}]]
      /\ parent'[s][n] = tok
      /\ \A t \in Sessions, m \in Tokens :
           t # s \/ m # n => parent'[t][m] = parent[t][m]
  BY <1>1, <1>2 DEF SessionInv, TypeOK, Signing
<1>4. /\ call' \in [Calls -> Call]
      /\ call'[p].pc = "rotate" /\ call'[p].new = n /\ call'[p].s = s
      /\ call'[p].tok = tok
      /\ \A q \in Calls : q # p => call'[q] = call[q]
  <2>1. call[p] \in Call /\ clock \in Nat
    BY DEF SessionInv, TypeOK
  <2>2. [call[p] EXCEPT !.pc = "rotate", !.new = n, !.now = clock] \in Call
    BY <1>2, <2>1 DEF Call, Steps
  <2>3. /\ call' \in [Calls -> Call]
        /\ call'[p] = [call[p] EXCEPT !.pc = "rotate", !.new = n, !.now = clock]
    BY <2>2 DEF SessionInv, TypeOK, Signing
  <2>4. \A q \in Calls : q # p => call'[q] = call[q]
    BY DEF SessionInv, TypeOK, Signing
  <2> QED
    BY <2>1, <2>3, <2>4 DEF Call
<1>5. None \notin Tokens
  BY RSAssumption DEF Tokens
<1>a. TypeOK'
  BY <1>3, <1>4 DEF SessionInv, TypeOK
<1>b. NoDocument'
  BY <1>1, <1>3 DEF SessionInv, NoDocument
<1>c. CurrentIsSigned'
  BY <1>2, <1>3 DEF SessionInv, TypeOK, Session, CurrentIsSigned
<1>d. GivenIsSigned'
  BY <1>2, <1>3 DEF SessionInv, GivenIsSigned
<1>e. ParentIsGiven'
  BY <1>1, <1>3 DEF SessionInv, ParentIsGiven
<1>f. OneSuccessor'
  <2>1. \A t \in given : /\ t[1] \in Sessions /\ t[2] \in Tokens
                         /\ t = <<t[1], t[2]>>
    BY DEF SessionInv, TypeOK
  <2>2. \A t \in given : parent'[t[1]][t[2]] = parent[t[1]][t[2]]
    BY <1>2, <1>3, <2>1
  <2> QED
    BY <2>2 DEF SessionInv, OneSuccessor
<1>g. CallsOK'
  <2> SUFFICES ASSUME NEW q \in Calls PROVE CallOK(call[q])'
    BY DEF CallsOK
  <2>1. CASE q = p
    BY <1>1, <1>2, <1>3, <1>4, <2>1 DEF CallOK, Refreshing, Signed
  <2>2. CASE q # p
    <3>1. CallOK(call[q]) /\ call'[q] = call[q]
      BY <1>4, <2>2 DEF SessionInv, CallsOK
    <3>2. ASSUME call[q].pc \in Signed
          PROVE  /\ parent'[call[q].s][call[q].new] = call[q].tok
                 /\ \A m \in Tokens : <<call[q].s, m>> \in given
                      => parent'[call[q].s][m] = parent[call[q].s][m]
      <4>1. /\ call[q].s \in Sessions /\ call[q].tok \in Tokens
            /\ call[q].new \in Tokens
            /\ parent[call[q].s][call[q].new] = call[q].tok
        BY <3>1, <3>2 DEF CallOK, Refreshing, Signed
      <4> QED
        BY <1>2, <1>3, <1>5, <4>1
    <3>3. CASE call[q].pc \in Signed
      BY <3>1, <3>2, <3>3 DEF CallOK, Refreshing, Signed
    <3>4. CASE call[q].pc \notin Signed
      BY <3>1, <3>4 DEF CallOK, Refreshing, Signed
    <3> QED
      BY <3>3, <3>4
  <2> QED
    BY <2>1, <2>2
<1>h. CallsDiffer'
  <2>1. \A q \in Calls : /\ q # p /\ call[q].pc \in Signed /\ call[q].s = s
                         => call[q].new # n
    BY <1>1, <1>2, <1>5 DEF SessionInv, CallsOK, CallOK, Refreshing, Signed
  <2> QED
    BY <1>4, <2>1 DEF SessionInv, CallsDiffer, At
<1>i. VersionsCount'
  BY DEF SessionInv, VersionsCount
<1> QED
  BY <1>a, <1>b, <1>c, <1>d, <1>e, <1>f, <1>g, <1>h, <1>i DEF SessionInv

(* A rotation wins: what was current is given, and what becomes current is *)
(* not, so that no request finds its own token current again.              *)
LEMMA WinStep ==
    ASSUME SessionInv, NEW p \in Calls, call[p].pc = "rotate",
           call[p].tok = Mine(p).cur,
           session' = [session EXCEPT ![call[p].s] =
               [@ EXCEPT !.prev = Mine(p).cur,
                         !.cur = call[p].new, !.at = call[p].now]],
           Goto(p, "reread"),
           UNCHANGED <<clock, account, parent, given, epoch>>
    PROVE  SessionInv'
<1> DEFINE s == call[p].s
           tok == call[p].tok
           new == call[p].new
<1>0. CallOK(call[p]) /\ call[p] \in Call
  BY DEF SessionInv, CallsOK, TypeOK
<1>1. /\ s \in Sessions /\ tok \in Tokens /\ <<s, tok>> \in given
      /\ session[s].cur = tok /\ session[s] \in Session
  BY <1>0, HasSession DEF Refreshing, Mine, SessionInv, TypeOK
<1>2. /\ new \in Tokens /\ parent[s][new] = tok /\ <<s, new>> \notin given
      /\ new # session[s].cur
  BY <1>0 DEF CallOK, Signed
<1>3. /\ session' \in [Sessions -> Session] /\ session'[s].cur = new
      /\ session'[s].born = session[s].born /\ session'[s].ver = session[s].ver
      /\ \A t \in Sessions : t # s => session'[t] = session[t]
  BY <1>0, <1>1, <1>2 DEF SessionInv, TypeOK, Session, Call, Mine
<1>4. /\ call' \in [Calls -> Call]
      /\ call'[p] = [call[p] EXCEPT !.pc = "reread"]
      /\ \A q \in Calls : q # p => call'[q] = call[q]
  BY DEF Goto, SessionInv, TypeOK, Call, Steps
<1>5. /\ call'[p].pc = "reread" /\ call'[p].new = new /\ call'[p].s = s
      /\ call'[p].tok = tok
  BY <1>0, <1>4 DEF Call
<1>6. None \notin Tokens /\ 0 \notin Tokens
  BY RSAssumption DEF Tokens
<1>a. TypeOK'
  BY <1>3, <1>4 DEF SessionInv, TypeOK
<1>b. NoDocument'
  <2> SUFFICES ASSUME NEW t \in Sessions, session'[t].cur = 0
               PROVE  /\ session'[t].ended = "no"
                      /\ \A n \in Tokens : parent[t][n] = None
                                          /\ <<t, n>> \notin given
    BY DEF NoDocument
  <2>1. t # s
    BY <1>2, <1>3, <1>6
  <2> QED
    BY <1>3, <2>1 DEF SessionInv, NoDocument
<1>c. CurrentIsSigned'
  BY <1>1, <1>2, <1>3, <1>6 DEF SessionInv, CurrentIsSigned
<1>d. GivenIsSigned'
  BY SMTT(60), <1>1, <1>2, <1>3 DEF SessionInv, GivenIsSigned, ParentIsGiven
<1>e. ParentIsGiven' /\ OneSuccessor'
  BY DEF SessionInv, ParentIsGiven, OneSuccessor
<1>g. CallsOK'
  <2> SUFFICES ASSUME NEW q \in Calls PROVE CallOK(call[q])'
    BY DEF CallsOK
  <2>1. CASE q = p
    <3>1. \A n \in Tokens : <<s, n>> \in given => parent[s][n] # tok
      BY <1>1 DEF SessionInv, GivenIsSigned
    <3> QED
      BY <1>1, <1>2, <1>3, <1>5, <2>1, <3>1 DEF CallOK, Refreshing, Signed
  <2>2. CASE q # p
    <3>1. CallOK(call[q]) /\ call'[q] = call[q]
      BY <1>4, <2>2 DEF SessionInv, CallsOK
    <3>2. CASE call[q].pc \notin Refreshing
      BY <3>1, <3>2 DEF CallOK, Refreshing, Signed
    <3>3. CASE call[q].pc \in Refreshing /\ call[q].s # s
      <4>1. session'[call[q].s] = session[call[q].s]
        BY <1>3, <3>1, <3>3 DEF CallOK
      <4> QED
        BY <3>1, <4>1 DEF CallOK
    <3>4. CASE call[q].pc \in Refreshing /\ call[q].s = s
      <4>1. call[q].tok # session'[s].cur
        BY <1>2, <1>3, <3>1, <3>4 DEF CallOK
      <4>2. call[q].pc = "rotate" => call[q].new # session'[s].cur
        BY <1>3, <2>2, <3>4 DEF SessionInv, CallsDiffer, Signed
      <4> QED
        BY <3>1, <3>4, <4>1, <4>2 DEF CallOK
    <3> QED
      BY <3>2, <3>3, <3>4
  <2> QED
    BY <2>1, <2>2
<1>h. CallsDiffer'
  <2>1. \A q \in Calls : call[q].pc = "reread" /\ call[q].s = s
                         => call[q].tok # tok
    BY <1>1 DEF SessionInv, CallsOK, CallOK
  <2>2. \A q \in Calls : /\ q # p /\ call[q].pc \in Signed /\ call[q].s = s
                         => call[q].new # new
    BY DEF SessionInv, CallsDiffer, Signed
  <2> SUFFICES ASSUME NEW q \in Calls, NEW r \in Calls,
                      call'[q].pc \in Signed /\ call'[r].pc \in Signed,
                      call'[q].s = call'[r].s,
                      \/ call'[q].new = call'[r].new
                      \/ /\ call'[q].pc = "reread" /\ call'[r].pc = "reread"
                         /\ call'[q].tok = call'[r].tok
               PROVE  q = r
    BY DEF CallsDiffer, At
  <2>3. CASE q # p /\ r # p
    BY <1>4, <2>3 DEF SessionInv, CallsDiffer, At
  <2>4. CASE q = p /\ r # p
    BY <1>4, <1>5, <2>1, <2>2, <2>4
  <2>5. CASE q # p /\ r = p
    BY <1>4, <1>5, <2>1, <2>2, <2>5
  <2> QED
    BY <2>3, <2>4, <2>5
<1>i. VersionsCount'
  BY <1>3 DEF SessionInv, VersionsCount
<1> QED
  BY <1>a, <1>b, <1>c, <1>d, <1>e, <1>g, <1>h, <1>i DEF SessionInv

(* The successor is delivered: no other of the same token was.             *)
LEMMA DeliverStep ==
    ASSUME SessionInv, NEW p \in Calls, call[p].pc = "reread",
           given' = given \cup {<<call[p].s, call[p].new>>}, Finish(p),
           UNCHANGED <<clock, account, session, parent, epoch>>
    PROVE  SessionInv'
<1> DEFINE s == call[p].s
           tok == call[p].tok
           new == call[p].new
<1>0. CallOK(call[p])
  BY DEF SessionInv, CallsOK
<1>1. /\ s \in Sessions /\ tok \in Tokens /\ <<s, tok>> \in given
      /\ session[s].cur # 0
  BY HasSession DEF Refreshing
<1>2. /\ new \in Tokens /\ parent[s][new] = tok /\ tok # session[s].cur
      /\ \A n \in Tokens : <<s, n>> \in given => parent[s][n] # tok
  BY <1>0 DEF CallOK, Signed
<1>3. /\ call' \in [Calls -> Call] /\ call'[p] = IdleCall
      /\ \A q \in Calls : q # p => call'[q] = call[q]
  BY IdleCallOK DEF SessionInv, TypeOK, Finish
<1>4. None \notin Tokens
  BY RSAssumption DEF Tokens
<1>a. TypeOK'
  BY <1>1, <1>2, <1>3 DEF SessionInv, TypeOK
<1>b. NoDocument' /\ CurrentIsSigned'
  BY <1>1 DEF SessionInv, NoDocument, CurrentIsSigned
<1>d. GivenIsSigned'
  BY <1>1, <1>2, <1>4 DEF SessionInv, GivenIsSigned
<1>e. ParentIsGiven'
  BY DEF SessionInv, ParentIsGiven
<1>f. OneSuccessor'
  <2> SUFFICES ASSUME NEW t \in given', NEW u \in given', t[1] = u[1],
                      parent[t[1]][t[2]] = parent[u[1]][u[2]]
               PROVE  t = u
    BY DEF OneSuccessor
  <2>1. \A x \in given : /\ x[1] \in Sessions /\ x[2] \in Tokens
                         /\ x = <<x[1], x[2]>>
    BY DEF SessionInv, TypeOK
  <2>2. \A x \in given : x[1] = s => parent[x[1]][x[2]] # tok
    BY <1>2, <2>1
  <2>3. \A x \in given' : x \in given \/ x = <<s, new>>
    OBVIOUS
  <2> QED
    BY <1>2, <2>2, <2>3 DEF SessionInv, OneSuccessor
<1>g. CallsOK'
  <2> SUFFICES ASSUME NEW q \in Calls PROVE CallOK(call[q])'
    BY DEF CallsOK
  <2>1. CASE q = p
    BY <1>3, <2>1 DEF IdleCall, CallOK, Refreshing, Signed
  <2>2. CASE q # p
    <3>1. CallOK(call[q]) /\ call'[q] = call[q]
      BY <1>3, <2>2 DEF SessionInv, CallsOK
    <3>2. CASE call[q].pc \notin Signed
      BY <3>1, <3>2 DEF CallOK, Refreshing, Signed
    <3>3. CASE call[q].pc \in Signed
      <4>1. call[q].s = s => call[q].new # new
        BY <2>2, <3>3 DEF SessionInv, CallsDiffer, Signed
      <4>2. call[q].pc = "reread" /\ call[q].s = s => call[q].tok # tok
        BY <2>2 DEF SessionInv, CallsDiffer, Signed, At
      <4>3. <<call[q].s, call[q].new>> \notin given'
        BY <3>1, <3>3, <4>1 DEF CallOK
      <4>4. call[q].pc = "reread" => \A n \in Tokens :
              <<call[q].s, n>> \in given' => parent[call[q].s][n] # call[q].tok
        BY <1>2, <3>1, <4>2 DEF CallOK
      <4> QED
        BY <3>1, <3>3, <4>3, <4>4 DEF CallOK, Refreshing, Signed
    <3> QED
      BY <3>2, <3>3
  <2> QED
    BY <2>1, <2>2
<1>h. CallsDiffer'
  BY <1>3 DEF SessionInv, CallsDiffer, At, IdleCall, Signed
<1>i. VersionsCount'
  BY DEF SessionInv, VersionsCount
<1> QED
  BY <1>a, <1>b, <1>d, <1>e, <1>f, <1>g, <1>h, <1>i DEF SessionInv

-----------------------------------------------------------------------------
(* The steps of a refresh.                                                 *)
LEMMA GotoStep ==
    ASSUME SessionInv, NEW p \in Calls, NEW pc \in Steps, Goto(p, pc),
           CallOK([call[p] EXCEPT !.pc = pc]), pc \notin Signed,
           UNCHANGED <<session, parent, given>>,
           clock' \in Nat, account' \in [active : BOOLEAN, ver : 0 .. MaxVersion],
           epoch' = account'.ver
    PROVE  SessionInv'
<1> DEFINE c == [call[p] EXCEPT !.pc = pc]
<1>1. call[p] \in Call
  BY DEF SessionInv, TypeOK
<1>2. c \in Call /\ c.pc = pc
  BY <1>1 DEF Call
<1>3. call' = [call EXCEPT ![p] = c]
  BY DEF Goto
<1>4. CallOK(c)
  OBVIOUS
<1> HIDE DEF c
<1> QED
  BY <1>2, <1>3, <1>4, CallStep

LEMMA RefreshLoadStep ==
    ASSUME SessionInv, NEW p \in Calls, NEW s \in Sessions, NEW n \in Tokens,
           RefreshLoad(p, s, n)
    PROVE  SessionInv'
<1> DEFINE c == [IdleCall EXCEPT !.pc = "subject", !.s = s, !.tok = n]
<1>1. c \in Call /\ c.pc = "subject" /\ c.s = s /\ c.tok = n
  BY IdleCallOK DEF Call, Steps
<1>2. call' = [call EXCEPT ![p] = c] /\ <<s, n>> \in given
      /\ UNCHANGED <<clock, account, session, parent, given, epoch>>
  BY DEF RefreshLoad
<1> HIDE DEF c
<1>3. CallOK(c) /\ c.pc \notin Signed
  BY <1>1, <1>2 DEF CallOK, Refreshing, Signed
<1>4. clock' \in Nat /\ account' \in [active : BOOLEAN, ver : 0 .. MaxVersion]
      /\ epoch' = account'.ver
  BY <1>2 DEF SessionInv, TypeOK, VersionsCount
<1> QED
  BY <1>1, <1>2, <1>3, <1>4, CallStep

LEMMA RefreshSubjectStep ==
    ASSUME SessionInv, NEW p \in Calls, RefreshSubject(p)
    PROVE  SessionInv'
<1>1. CASE Eligible(Mine(p).ver)
  <2>1. PICK n \in Fresh(call[p].s) : Signing(p, n)
    BY <1>1 DEF RefreshSubject, Signing
  <2>2. call[p].pc = "subject"
        /\ UNCHANGED <<clock, account, session, given, epoch>>
    BY DEF RefreshSubject, At
  <2> QED
    BY <2>1, <2>2, SignStep
<1>2. CASE ~Eligible(Mine(p).ver)
  BY <1>2, FinishStep DEF RefreshSubject
<1> QED
  BY <1>1, <1>2

LEMMA RotateStep ==
    ASSUME SessionInv, NEW p \in Calls, Rotate(p)
    PROVE  SessionInv'
<1> DEFINE wins == call[p].tok = Mine(p).cur /\ Alive(Mine(p), call[p].now)
<1>0. call[p].pc = "rotate"
  BY DEF Rotate, Rotation, At
<1>1. CASE wins
  BY <1>0, <1>1, WinStep DEF Rotate, Rotation
<1>2. CASE ~wins
  <2>1. Goto(p, "judge") /\ UNCHANGED <<clock, account, session, parent, given, epoch>>
    BY <1>2 DEF Rotate, Rotation
  <2>2. call[p] \in Call /\ CallOK(call[p])
    BY DEF SessionInv, TypeOK, CallsOK
  <2>3. CallOK([call[p] EXCEPT !.pc = "judge"])
    BY <1>0, <1>2, <2>2 DEF CallOK, Call, Refreshing, Signed, Mine
  <2>4. clock' \in Nat /\ account' \in [active : BOOLEAN, ver : 0 .. MaxVersion]
        /\ epoch' = account'.ver
    BY <2>1 DEF SessionInv, TypeOK, VersionsCount
  <2> QED
    BY <2>1, <2>3, <2>4, GotoStep DEF Steps, Signed
<1> QED
  BY <1>1, <1>2

LEMMA JudgeStep ==
    ASSUME SessionInv, NEW p \in Calls, Judge(p)
    PROVE  SessionInv'
<1> DEFINE done == \/ ~Alive(Mine(p), call[p].now)
                   \/ Benign(Mine(p), call[p].tok, call[p].now)
           c == [call[p] EXCEPT !.pc = "revoke", !.seen = Mine(p)]
<1>1. CASE done
  BY <1>1, FinishStep DEF Judge
<1>2. CASE ~done
  <2>1. call[p].pc = "judge" /\ call' = [call EXCEPT ![p].pc = "revoke",
                                                     ![p].seen = Mine(p)]
        /\ UNCHANGED <<clock, account, session, parent, given, epoch>>
    BY <1>2 DEF Judge, At
  <2>2. call[p] \in Call /\ CallOK(call[p]) /\ Mine(p) = session[call[p].s]
    BY DEF SessionInv, TypeOK, CallsOK, Mine
  <2>3. call[p].s \in Sessions /\ Mine(p) \in Session
    BY <2>1, <2>2 DEF CallOK, Refreshing, SessionInv, TypeOK
  <2>4. /\ c \in Call /\ c.pc = "revoke" /\ c.seen = Mine(p) /\ c.s = call[p].s
        /\ c.tok = call[p].tok /\ c.now = call[p].now
    BY <2>2, <2>3 DEF Call, Steps
  <2>5. call' = [call EXCEPT ![p] = c]
    BY <2>1 DEF SessionInv, TypeOK
  <2> HIDE DEF c
  <2>6. CallOK(c) /\ c.pc \notin Signed
    BY <1>2, <2>1, <2>2, <2>4 DEF CallOK, Refreshing, Signed
  <2>7. clock' \in Nat /\ account' \in [active : BOOLEAN, ver : 0 .. MaxVersion]
        /\ epoch' = account'.ver
    BY <2>1 DEF SessionInv, TypeOK, VersionsCount
  <2> QED
    BY <2>1, <2>4, <2>5, <2>6, <2>7, CallStep
<1> QED
  BY <1>1, <1>2

LEMMA Finished ==
    ASSUME SessionInv, NEW p \in Calls, Finish(p)
    PROVE  /\ call' \in [Calls -> Call]
           /\ \A q \in Calls : call'[q] = call[q] \/ call'[q] = IdleCall
BY IdleCallOK DEF SessionInv, TypeOK, Finish

LEMMA RevokeStep ==
    ASSUME SessionInv, NEW p \in Calls, Revoke(p)
    PROVE  SessionInv'
<1>1. CASE Mine(p) = call[p].seen
  <2>1. call[p].pc = "revoke" /\ CallOK(call[p])
    BY DEF Revoke, At, SessionInv, CallsOK
  <2>2. call[p].s \in Sessions /\ Alive(session[call[p].s], call[p].now)
    BY <1>1, <2>1 DEF CallOK, Refreshing, Mine
  <2>3. session[call[p].s].cur # 0 /\ session[call[p].s].ended = "no"
    BY <2>2 DEF Alive
  <2>4. /\ session' = [session EXCEPT ![call[p].s].ended = "replay"]
        /\ UNCHANGED <<clock, account, parent, given, epoch>> /\ Finish(p)
    BY <1>1 DEF Revoke
  <2> QED
    BY <2>2, <2>3, <2>4, Finished, EndStep DEF Ends
<1>2. CASE Mine(p) # call[p].seen
  BY <1>2, FinishStep DEF Revoke
<1> QED
  BY <1>1, <1>2

LEMMA RereadStep ==
    ASSUME SessionInv, NEW p \in Calls, Reread(p)
    PROVE  SessionInv'
<1>0. call[p].pc = "reread"
  BY DEF Reread, At
<1>1. CASE Eligible(Mine(p).ver)
  BY <1>0, <1>1, DeliverStep DEF Reread
<1>2. CASE ~Eligible(Mine(p).ver)
  <2>1. Goto(p, "cleanup")
        /\ UNCHANGED <<clock, account, session, parent, given, epoch>>
    BY <1>2 DEF Reread
  <2>2. call[p] \in Call /\ CallOK(call[p])
    BY DEF SessionInv, TypeOK, CallsOK
  <2>3. CallOK([call[p] EXCEPT !.pc = "cleanup"])
    BY <1>0, <2>2 DEF CallOK, Call, Refreshing, Signed
  <2>4. clock' \in Nat /\ account' \in [active : BOOLEAN, ver : 0 .. MaxVersion]
        /\ epoch' = account'.ver
    BY <2>1 DEF SessionInv, TypeOK, VersionsCount
  <2> QED
    BY <2>1, <2>3, <2>4, GotoStep DEF Steps, Signed
<1> QED
  BY <1>1, <1>2

LEMMA CleanupStep ==
    ASSUME SessionInv, NEW p \in Calls, Cleanup(p)
    PROVE  SessionInv'
<1> DEFINE s == call[p].s
<1>0. s \in Sessions
  BY HasSession DEF Cleanup, At, Refreshing
<1>1. CASE Alive(session[s], clock)
  BY <1>0, <1>1, Finished, EndStep DEF Cleanup, End, Alive, Ends
<1>2. CASE ~Alive(session[s], clock)
  BY <1>2, FinishStep DEF Cleanup, End
<1> QED
  BY <1>1, <1>2

(* Logging out, and the sweep after a change.                              *)
LEMMA LogoutStep ==
    ASSUME SessionInv, NEW s \in Sessions, Logout(s)
    PROVE  SessionInv'
<1>1. call' \in [Calls -> Call] /\ \A q \in Calls : call'[q] = call[q]
  BY DEF Logout, SessionInv, TypeOK
<1>2. CASE Alive(session[s], clock)
  BY <1>1, <1>2, EndStep DEF Logout, End, Alive, Ends
<1>3. CASE ~Alive(session[s], clock)
  <2>1. UNCHANGED <<clock, account, session, parent, given, epoch, call>>
    BY <1>3 DEF Logout, End
  <2>2. clock' \in Nat /\ account' \in [active : BOOLEAN, ver : 0 .. MaxVersion]
        /\ epoch' = account'.ver
    BY <2>1 DEF SessionInv, TypeOK, VersionsCount
  <2> QED
    BY <2>1, <2>2, QuietStep
<1> QED
  BY <1>2, <1>3

LEMMA SweepStep ==
    ASSUME SessionInv, NEW p \in Calls, NEW s \in Sessions, Sweep(p, s)
    PROVE  SessionInv'
<1>1. call' \in [Calls -> Call] /\ \A q \in Calls : call'[q] = call[q]
  BY DEF Sweep, SessionInv, TypeOK
<1> QED
  BY <1>1, EndStep DEF Sweep, Ends

-----------------------------------------------------------------------------
(* The account, and the requests that change it.                           *)
AccountOK == /\ clock' \in Nat /\ account' \in [active : BOOLEAN, ver : 0 .. MaxVersion]
             /\ epoch' = account'.ver

LEMMA AccountKept ==
    ASSUME SessionInv, UNCHANGED <<clock, account, epoch>>
    PROVE  AccountOK
BY DEF AccountOK, SessionInv, TypeOK, VersionsCount

LEMMA AccountCounted ==
    ASSUME SessionInv, NEW active \in BOOLEAN, Counted(active), UNCHANGED clock
    PROVE  AccountOK
<1>1. account.ver \in 0 .. MaxVersion /\ account.ver < MaxVersion
  BY DEF SessionInv, TypeOK, Counted
<1>2. account.ver + 1 \in 0 .. MaxVersion
  BY <1>1, RSAssumption
<1> QED
  BY <1>2 DEF AccountOK, SessionInv, TypeOK, VersionsCount, Counted

(* A request goes to a step that asks nothing of it.                       *)
LEMMA PlainStep ==
    ASSUME SessionInv, NEW p \in Calls, NEW pc \in {"change", "sweep"},
           Goto(p, pc), UNCHANGED <<session, parent, given>>, AccountOK
    PROVE  SessionInv'
<1>1. call[p] \in Call
  BY DEF SessionInv, TypeOK
<1>2. CallOK([call[p] EXCEPT !.pc = pc])
  BY <1>1 DEF CallOK, Call, Refreshing, Signed
<1>3. pc \in Steps /\ pc \notin Signed
  BY DEF Steps, Signed
<1> QED
  BY <1>2, <1>3, GotoStep DEF AccountOK

LEMMA SignInStep ==
    ASSUME SessionInv, NEW p \in Calls, SignIn(p) PROVE SessionInv'
<1> DEFINE c == [IdleCall EXCEPT !.pc = "issue", !.ver = account.ver, !.born = epoch]
<1>1. account.ver \in Nat /\ epoch \in Nat /\ epoch = account.ver
  BY RSAssumption DEF SessionInv, TypeOK, VersionsCount
<1>2. c \in Call /\ c.pc = "issue" /\ c.ver = account.ver /\ c.born = epoch
  BY <1>1, IdleCallOK DEF Call, Steps
<1>3. call' = [call EXCEPT ![p] = c]
      /\ UNCHANGED <<clock, account, session, parent, given, epoch>>
  BY DEF SignIn
<1> HIDE DEF c
<1>4. CallOK(c) /\ c.pc \notin Signed
  BY <1>1, <1>2 DEF CallOK, Refreshing, Signed
<1> QED
  BY <1>2, <1>3, <1>4, AccountKept, CallStep DEF AccountOK

LEMMA ChangeLoadStep ==
    ASSUME SessionInv, NEW p \in Calls, ChangeLoad(p) PROVE SessionInv'
<1> DEFINE c == [IdleCall EXCEPT !.pc = "change", !.ver = account.ver]
<1>1. account.ver \in Nat
  BY RSAssumption DEF SessionInv, TypeOK
<1>2. c \in Call /\ c.pc = "change"
  BY <1>1, IdleCallOK DEF Call, Steps
<1>3. call' = [call EXCEPT ![p] = c]
      /\ UNCHANGED <<clock, account, session, parent, given, epoch>>
  BY DEF ChangeLoad
<1> HIDE DEF c
<1>4. CallOK(c) /\ c.pc \notin Signed
  BY <1>2 DEF CallOK, Refreshing, Signed
<1> QED
  BY <1>2, <1>3, <1>4, AccountKept, CallStep DEF AccountOK

LEMMA ChangeStep ==
    ASSUME SessionInv, NEW p \in Calls,
           LogoutAll(p) \/ ChangePassword(p) \/ Reset(p) \/ Suspend(p)
    PROVE  SessionInv'
<1>0. /\ account.active \in BOOLEAN /\ FALSE \in BOOLEAN
      /\ UNCHANGED <<clock, session, parent, given>>
  BY DEF LogoutAll, ChangePassword, Reset, Suspend, SessionInv, TypeOK
<1>1. CASE ChangePassword(p) /\ account.ver # call[p].ver
  <2>1. Finish(p) /\ UNCHANGED <<clock, account, session, parent, given, epoch>>
    BY <1>1 DEF ChangePassword
  <2> QED
    BY <2>1, FinishStep
<1>2. CASE ~(ChangePassword(p) /\ account.ver # call[p].ver)
  <2>1. Goto(p, "sweep")
    BY <1>2 DEF LogoutAll, ChangePassword, Reset, Suspend, Goto
  <2>2. \/ Counted(account.active) \/ Counted(FALSE)
        \/ UNCHANGED <<account, epoch>>
    BY <1>2 DEF LogoutAll, ChangePassword, Reset, Suspend
  <2>3. AccountOK
    BY <1>0, <2>2, AccountKept, AccountCounted
  <2> QED
    BY <1>0, <2>1, <2>3, PlainStep
<1> QED
  BY <1>1, <1>2

LEMMA ReactivateStep ==
    ASSUME SessionInv, Reactivate PROVE SessionInv'
<1>1. UNCHANGED <<clock, session, parent, given, call>> /\ TRUE \in BOOLEAN
  BY DEF Reactivate
<1>2. CASE Counted(TRUE)
  BY <1>1, <1>2, AccountCounted, QuietStep DEF AccountOK
<1>3. CASE account' = [account EXCEPT !.active = TRUE] /\ UNCHANGED epoch
  <2>1. AccountOK
    BY <1>1, <1>3 DEF AccountOK, SessionInv, TypeOK, VersionsCount
  <2> QED
    BY <1>1, <2>1, QuietStep DEF AccountOK
<1> QED
  BY <1>2, <1>3 DEF Reactivate

LEMMA TickStep ==
    ASSUME SessionInv, Tick PROVE SessionInv'
<1>1. UNCHANGED <<account, session, parent, given, epoch, call>>
      /\ clock' = clock + 1
  BY DEF Tick
<1>2. AccountOK
  BY <1>1 DEF AccountOK, SessionInv, TypeOK, VersionsCount
<1> QED
  BY <1>1, <1>2, QuietStep DEF AccountOK

LEMMA StutterStep ==
    ASSUME SessionInv, UNCHANGED vars PROVE SessionInv'
<1>1. UNCHANGED <<clock, account, session, parent, given, epoch, call>>
  BY DEF vars
<1> QED
  BY <1>1, AccountKept, QuietStep DEF AccountOK

LEMMA NextInv ==
    ASSUME SessionInv, [Next]_vars PROVE SessionInv'
<1>1. CASE Tick \/ Reactivate \/ \E s \in Sessions : Logout(s)
  BY <1>1, TickStep, ReactivateStep, LogoutStep
<1>2. ASSUME NEW p \in Calls, SignIn(p) \/ \E s \in Sessions : Issue(p, s)
      PROVE  SessionInv'
  BY <1>2, SignInStep, IssueStep
<1>3. ASSUME NEW p \in Calls, Refresh(p) PROVE SessionInv'
  BY <1>3, RefreshLoadStep, RefreshSubjectStep, RotateStep, JudgeStep,
     RevokeStep, RereadStep, CleanupStep DEF Refresh
<1>4. ASSUME NEW p \in Calls, Change(p) PROVE SessionInv'
  BY <1>4, ChangeLoadStep, ChangeStep, SweepStep, FinishStep DEF Change, SweepEnds
<1> QED
  BY <1>1, <1>2, <1>3, <1>4, StutterStep DEF Next

LEMMA SessionInvariant == Spec => []SessionInv
<1>1. Init => SessionInv
  BY InitInv
<1>2. SessionInv /\ [Next]_vars => SessionInv'
  BY NextInv
<1> QED
  BY <1>1, <1>2, PTL DEF Spec

-----------------------------------------------------------------------------
(* The types hold: in particular the count of changes of the account does  *)
(* not pass its maximum.                                                   *)
THEOREM SessionsTypeCorrect == Spec => []TypeOK
<1>1. SessionInv => TypeOK
  BY DEF SessionInv
<1> QED
  BY <1>1, SessionInvariant, PTL

(* Of every token at most one successor reaches a client, however many     *)
(* present it at once or again.                                            *)
THEOREM TokensHaveOneSuccessor == Spec => []OneSuccessor
<1>1. SessionInv => OneSuccessor
  BY DEF SessionInv
<1> QED
  BY <1>1, SessionInvariant, PTL

(* No step goes on with a session that has ended.                          *)
LEMMA EndedKept ==
    ASSUME SessionInv, [Next]_vars, NEW s \in Sessions, session[s].ended # "no"
    PROVE  session'[s] = session[s]
<1>0. session[s].cur # 0 /\ session \in [Sessions -> Session]
  BY DEF SessionInv, NoDocument, TypeOK
<1>1. CASE UNCHANGED session
  BY <1>1
<1>2. ASSUME NEW p \in Calls, NEW t \in Sessions, Issue(p, t)
      PROVE  session'[s] = session[s]
  BY <1>0, <1>2 DEF Issue
<1>3. ASSUME NEW p \in Calls, Rotate(p) PROVE session'[s] = session[s]
  BY <1>0, <1>3 DEF Rotate, Rotation, Alive, Mine
<1>4. ASSUME NEW p \in Calls, Revoke(p) PROVE session'[s] = session[s]
  <2>1. call[p].pc = "revoke" /\ CallOK(call[p])
    BY <1>4 DEF Revoke, At, SessionInv, CallsOK
  <2>2. call[p].seen.ended = "no"
    BY <2>1 DEF CallOK, Alive
  <2> QED
    BY <1>0, <1>4, <2>2 DEF Revoke, Mine
<1>5. ASSUME NEW p \in Calls, Cleanup(p) PROVE session'[s] = session[s]
  BY <1>0, <1>5 DEF Cleanup, End, Alive
<1>6. ASSUME NEW t \in Sessions, Logout(t) PROVE session'[s] = session[s]
  BY <1>0, <1>6 DEF Logout, End, Alive
<1>7. ASSUME NEW p \in Calls, NEW t \in Sessions, Sweep(p, t)
      PROVE  session'[s] = session[s]
  BY <1>0, <1>7 DEF Sweep
<1>8. CASE UNCHANGED vars
  BY <1>8 DEF vars
<1>9. ASSUME NEW p \in Calls, Refresh(p) PROVE session'[s] = session[s]
  BY <1>3, <1>4, <1>5, <1>9
     DEF Refresh, RefreshLoad, RefreshSubject, Judge, Reread
<1>a. ASSUME NEW p \in Calls, Change(p) PROVE session'[s] = session[s]
  BY <1>7, <1>a
     DEF Change, ChangeLoad, LogoutAll, ChangePassword, Reset, Suspend, SweepEnds
<1> QED
  BY <1>2, <1>6, <1>8, <1>9, <1>a DEF Next, Tick, Reactivate, SignIn

(* A session that was revoked, replayed or logged out is never written again:
   no rotation in progress brings it back. *)
THEOREM EndedSessionsStay == Spec => EndedIsFinal
<1>1. SessionInv /\ [Next]_vars
      => [\A s \in Sessions : session[s].ended # "no"
                                => session'[s] = session[s]]_session
  BY EndedKept
<1> QED
  BY <1>1, SessionInvariant, PTL DEF Spec, EndedIsFinal

(* A change of the account bars the sessions that were opened before it.   *)
LEMMA DeliveryIsEligible ==
    ASSUME SessionInv, [Next]_vars, NEW t \in given' \ given, t[2] # 1
    PROVE  account.active /\ session[t[1]].born = epoch
<1>1. PICK p \in Calls : Reread(p)
  <2>1. given' # given
    OBVIOUS
  <2>2. \A p \in Calls, s \in Sessions : ~Issue(p, s)
    BY DEF Issue
  <2>3. \A p \in Calls : Refresh(p) => Reread(p)
    BY <2>1 DEF Refresh, RefreshLoad, RefreshSubject, Rotate, Rotation, Judge,
                Revoke, Cleanup
  <2>4. \A p \in Calls : ~Change(p)
    BY <2>1 DEF Change, ChangeLoad, LogoutAll, ChangePassword, Reset, Suspend,
                Sweep, SweepEnds
  <2>5. Next
    BY <2>1 DEF vars
  <2> QED
    BY <2>1, <2>2, <2>3, <2>4, <2>5 DEF Next, Tick, Reactivate, Logout, SignIn
<1>2. t = <<call[p].s, call[p].new>> /\ Eligible(Mine(p).ver)
  BY <1>1 DEF Reread
<1>3. call[p].s \in Sessions
  BY <1>1, HasSession DEF Reread, At, Refreshing
<1> QED
  BY <1>2, <1>3 DEF Eligible, Mine, SessionInv, VersionsCount

(* A successor token is delivered only while the account is active and only for
   a session opened since its last change: the reread stops the others. *)
THEOREM ChangesBar == Spec => ChangeBarsOldSessions
<1>1. SessionInv /\ [Next]_vars
      => [\A t \in given' \ given : t[2] # 1
            => account.active /\ session[t[1]].born = epoch]_given
  BY DeliveryIsEligible
<1> QED
  BY <1>1, SessionInvariant, PTL DEF Spec, ChangeBarsOldSessions

(* Only a token that was replaced, and not in the way the window excuses,  *)
(* ends a session as a replay.                                             *)
LEMMA ReplayIsJudged ==
    ASSUME SessionInv, [Next]_vars, NEW s \in Sessions,
           session[s].ended = "no", session'[s].ended = "replay"
    PROVE  \E p \in Calls :
             /\ At(p, "revoke") /\ call[p].s = s
             /\ call[p].seen.cur = session[s].cur
             /\ call[p].tok # session[s].cur
             /\ \/ call[p].tok # session[s].prev
                \/ call[p].now < session[s].at
                \/ call[p].now > session[s].at + Window
<1>0. /\ session \in [Sessions -> Session] /\ session'[s] # session[s]
      /\ session'[s].ended \notin {session[s].ended, "mismatch", "logout", "sweep"}
  BY DEF SessionInv, TypeOK
<1>1. PICK p \in Calls : Revoke(p)
  <2>1. \A p \in Calls, t \in Sessions : ~Issue(p, t)
    BY <1>0 DEF Issue
  <2>2. ASSUME NEW p \in Calls, Rotate(p) PROVE FALSE
    <3>1. /\ session' = [session EXCEPT ![call[p].s] =
                [@ EXCEPT !.prev = Mine(p).cur, !.cur = call[p].new,
                          !.at = call[p].now]]
      BY <1>0, <2>2 DEF Rotate, Rotation
    <3>2. session'[s] = [session[s] EXCEPT !.prev = Mine(p).cur,
                            !.cur = call[p].new, !.at = call[p].now]
      BY <1>0, <3>1
    <3>3. session'[s].ended = session[s].ended
      BY <1>0, <3>2 DEF Session
    <3> QED
      BY <1>0, <3>3
  <2>3. \A p \in Calls : ~Cleanup(p)
    BY <1>0 DEF Cleanup, End, Session
  <2>4. \A t \in Sessions : ~Logout(t)
    BY <1>0 DEF Logout, End, Session
  <2>5. \A p \in Calls, t \in Sessions : ~Sweep(p, t)
    BY <1>0 DEF Sweep, Session
  <2>6. \A p \in Calls : Refresh(p) => Revoke(p)
    BY <1>0, <2>2, <2>3 DEF Refresh, RefreshLoad, RefreshSubject, Judge, Reread
  <2>7. \A p \in Calls : ~Change(p)
    BY <1>0, <2>5 DEF Change, ChangeLoad, LogoutAll, ChangePassword, Reset,
                      Suspend, SweepEnds
  <2>8. Next
    BY <1>0 DEF vars
  <2> QED
    BY <1>0, <2>1, <2>4, <2>6, <2>7, <2>8 DEF Next, Tick, Reactivate, SignIn
<1>2. /\ At(p, "revoke") /\ call[p].s = s /\ session[s] = call[p].seen
  BY <1>0, <1>1 DEF Revoke, Mine
<1>3. /\ call[p].tok # session[s].cur
      /\ ~Benign(session[s], call[p].tok, call[p].now)
  BY <1>2 DEF SessionInv, CallsOK, CallOK, At
<1>4. session[s].at \in Nat /\ call[p].now \in Nat /\ Window \in Nat
  BY <1>0, RSAssumption DEF SessionInv, TypeOK, Session, Call
<1> QED
  BY <1>2, <1>3, <1>4 DEF Benign

(* A session is ended as a replay only in the state the judgement was made on,
   and only when the replaced token is out of the window for benign repeats. *)
THEOREM WinnersAreSpared == Spec => WinnerIsSpared
<1>1. SessionInv /\ [Next]_vars
      => [\A s \in Sessions :
            session[s].ended = "no" /\ session'[s].ended = "replay"
              => \E p \in Calls :
                   /\ At(p, "revoke") /\ call[p].s = s
                   /\ call[p].seen.cur = session[s].cur
                   /\ call[p].tok # session[s].cur
                   /\ \/ call[p].tok # session[s].prev
                      \/ call[p].now < session[s].at
                      \/ call[p].now > session[s].at + Window]_session
  BY ReplayIsJudged
<1> QED
  BY <1>1, SessionInvariant, PTL DEF Spec, WinnerIsSpared
=============================================================================
