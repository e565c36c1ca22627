-------------------------- MODULE RefreshSessions --------------------------
(***************************************************************************)
(* The sessions of one account.  A session is a family of refresh tokens   *)
(* of which one is current; presenting it exchanges it for a successor.    *)
(* Modelled from the services of services/auth: initial issuance, the      *)
(* refresh coordinator with the rotation service and the subject state     *)
(* provider, the revocation of families, and the mutations of the account  *)
(* with the flows that sweep its sessions after them.                      *)
(*                                                                         *)
(* Each operation on the database is a step.  A call whose database        *)
(* operation fails, or whose process stops, is one that does not go on.    *)
(***************************************************************************)
EXTENDS Naturals

CONSTANTS
    Calls,      \* concurrent requests
    Sessions,   \* ids of RefreshSession documents
    Window,     \* concurrencyWindowMs
    Lifetime,   \* ttlMs
    None,       \* no session
    MaxTokens,  \* bound of the model on the tokens signed for a session
    MaxVersion, \* the largest tokenVersion
    MaxClock    \* bound of the model on time

ASSUME RSAssumption ==
    /\ None \notin Sessions \cup Nat
    /\ {Window, Lifetime, MaxVersion, MaxClock} \subseteq Nat
    /\ MaxTokens \in Nat \ {0}

VARIABLES
    clock,
    account, \* accountStatus and tokenVersion
    session, \* the RefreshSession documents
    parent,  \* per session and token, the token it was signed to succeed
    given,   \* the tokens that have reached a client
    epoch,   \* how many times the account has been changed
    call     \* the requests

vars == <<clock, account, session, parent, given, epoch, call>>

Tokens == 1 .. MaxTokens
Ends == {"no", "logout", "sweep", "mismatch", "replay"}

(* cur and prev stand for the hashes of the tokens, at for the time of the *)
(* last rotation; a document that does not exist has no current token.     *)
(* born is not stored: the epoch the account was read in at the sign-in.   *)
Session == [cur : Tokens \cup {0}, prev : Tokens \cup {0}, at : Nat,
            ends : Nat, ver : Nat, ended : Ends, born : Nat]

Steps == {"idle", "issue", "subject", "rotate", "judge", "revoke", "reread",
          "cleanup", "change", "sweep"}

Call == [pc : Steps, s : Sessions \cup {None}, tok : Tokens \cup {0},
         new : Tokens \cup {0}, now : Nat, ver : Nat, born : Nat, seen : Session]

TypeOK ==
    /\ clock \in Nat
    /\ account \in [active : BOOLEAN, ver : 0 .. MaxVersion]
    /\ session \in [Sessions -> Session]
    /\ parent \in [Sessions -> [Tokens -> Tokens \cup {0, None}]]
    /\ given \subseteq Sessions \X Tokens
    /\ epoch \in Nat
    /\ call \in [Calls -> Call]

NoSession == [cur |-> 0, prev |-> 0, at |-> 0, ends |-> 0, ver |-> 0,
              ended |-> "no", born |-> 0]

IdleCall == [pc |-> "idle", s |-> None, tok |-> 0, new |-> 0, now |-> 0,
             ver |-> 0, born |-> 0, seen |-> NoSession]

Init ==
    /\ clock = 0
    /\ account = [active |-> TRUE, ver |-> 0]
    /\ session = [s \in Sessions |-> NoSession]
    /\ parent = [s \in Sessions |-> [n \in Tokens |-> None]]
    /\ given = {} /\ epoch = 0
    /\ call = [p \in Calls |-> IdleCall]

-----------------------------------------------------------------------------
At(p, pc) == call[p].pc = pc
Finish(p) == call' = [call EXCEPT ![p] = IdleCall]
Goto(p, pc) == call' = [call EXCEPT ![p].pc = pc]

Mine(p) == session[call[p].s]

(* Neither revoked nor expired.                                            *)
Alive(doc, now) == doc.cur # 0 /\ doc.ended = "no" /\ doc.ends > now

(* SUBJECT_ACTIVE for the version the token was signed with.               *)
Eligible(ver) == account.active /\ account.ver = ver

(* classifySnapshot: the token just replaced, not long ago, by the clock   *)
(* this call has read before it tried to rotate.  A rotation later than    *)
(* that is not benign.                                                     *)
Benign(doc, tok, now) == /\ doc.prev = tok
                         /\ now >= doc.at /\ now - doc.at <= Window

Fresh(s) == {n \in Tokens : parent[s][n] = None}

Tick ==
    /\ clock < MaxClock
    /\ clock' = clock + 1
    /\ UNCHANGED <<account, session, parent, given, epoch, call>>

-----------------------------------------------------------------------------
(* Sign-in: the account is loaded and checked, and the session created     *)
(* with the version it had.                                                *)

SignIn(p) ==
    /\ At(p, "idle")
    /\ account.active
    /\ call' = [call EXCEPT ![p] = [IdleCall EXCEPT
                   !.pc = "issue", !.ver = account.ver, !.born = epoch]]
    /\ UNCHANGED <<clock, account, session, parent, given, epoch>>

(* issueInitialSession                                                     *)
Issue(p, s) ==
    /\ At(p, "issue") /\ session[s].cur = 0
    /\ session' = [session EXCEPT ![s] =
                      [cur |-> 1, prev |-> 0, at |-> 0, ends |-> clock + Lifetime,
                       ver |-> call[p].ver, ended |-> "no", born |-> call[p].born]]
    /\ parent' = [parent EXCEPT ![s][1] = 0]
    /\ given' = given \cup {<<s, 1>>}
    /\ Finish(p)
    /\ UNCHANGED <<clock, account, epoch>>

-----------------------------------------------------------------------------
(* attemptRefresh                                                          *)

(* A client presents a token it was given, perhaps one long replaced: the  *)
(* answer to an earlier call may have been lost.                           *)
RefreshLoad(p, s, n) ==
    /\ At(p, "idle")
    /\ <<s, n>> \in given
    /\ Alive(session[s], clock)
    /\ call' = [call EXCEPT ![p] = [IdleCall EXCEPT
                   !.pc = "subject", !.s = s, !.tok = n]]
    /\ UNCHANGED <<clock, account, session, parent, given, epoch>>

(* The account is read, the successor signed, and the clock read that the  *)
(* rotation and the judgement use.                                         *)
RefreshSubject(p) ==
    /\ At(p, "subject")
    /\ Fresh(call[p].s) # {}
    /\ IF Eligible(Mine(p).ver)
       THEN \E n \in Fresh(call[p].s) :
              /\ \A m \in Fresh(call[p].s) : n <= m
              /\ parent' = [parent EXCEPT ![call[p].s][n] = call[p].tok]
              /\ call' = [call EXCEPT ![p].pc = "rotate", ![p].new = n,
                                      ![p].now = clock]
       ELSE Finish(p) /\ UNCHANGED parent
    /\ UNCHANGED <<clock, account, session, given, epoch>>

(* rotate: the compare-and-swap.                                           *)
Rotation(p, wins) ==
    /\ At(p, "rotate")
    /\ IF wins
       THEN /\ session' = [session EXCEPT ![call[p].s] =
                  [@ EXCEPT !.prev = Mine(p).cur,
                            !.cur = call[p].new, !.at = call[p].now]]
            /\ Goto(p, "reread")
       ELSE UNCHANGED session /\ Goto(p, "judge")
    /\ UNCHANGED <<clock, account, parent, given, epoch>>

(* One faulty form accepts the token replaced last, another leaves out     *)
(* revokedAt.                                                              *)
FaultyRotate(p) ==
    Rotation(p, /\ call[p].tok \in {Mine(p).cur, Mine(p).prev}
                /\ Alive(Mine(p), call[p].now))
FaultyRotateRevoked(p) ==
    Rotation(p, /\ call[p].tok = Mine(p).cur
                /\ Mine(p).ends > call[p].now)
Rotate(p) ==
    Rotation(p, /\ call[p].tok = Mine(p).cur
                /\ Alive(Mine(p), call[p].now))

(* classifyMiss: the session is read again; a replay is to end it.         *)
Judge(p) ==
    /\ At(p, "judge")
    /\ IF ~Alive(Mine(p), call[p].now) \/ Benign(Mine(p), call[p].tok, call[p].now)
       THEN Finish(p)
       ELSE call' = [call EXCEPT ![p].pc = "revoke", ![p].seen = Mine(p)]
    /\ UNCHANGED <<clock, account, session, parent, given, epoch>>

(* Only in the state that was judged.  The faulty form asks no more than   *)
(* that it is not yet revoked.                                             *)
FaultyRevoke(p) ==
    /\ At(p, "revoke")
    /\ session' = IF Mine(p).ended = "no"
                  THEN [session EXCEPT ![call[p].s].ended = "replay"] ELSE session
    /\ Finish(p)
    /\ UNCHANGED <<clock, account, parent, given, epoch>>
Revoke(p) ==
    /\ At(p, "revoke")
    /\ session' = IF Mine(p) = call[p].seen
                  THEN [session EXCEPT ![call[p].s].ended = "replay"] ELSE session
    /\ Finish(p)
    /\ UNCHANGED <<clock, account, parent, given, epoch>>

(* The account is read again, and only then the successor delivered.  The  *)
(* faulty form relies on the earlier read.                                 *)
FaultyReread(p) ==
    /\ At(p, "reread")
    /\ given' = given \cup {<<call[p].s, call[p].new>>}
    /\ Finish(p)
    /\ UNCHANGED <<clock, account, session, parent, epoch>>
Reread(p) ==
    /\ At(p, "reread")
    /\ IF Eligible(Mine(p).ver)
       THEN given' = given \cup {<<call[p].s, call[p].new>>} /\ Finish(p)
       ELSE Goto(p, "cleanup") /\ UNCHANGED given
    /\ UNCHANGED <<clock, account, session, parent, epoch>>

(* revokeCurrentFamily                                                     *)
End(s, how) ==
    session' = IF Alive(session[s], clock)
               THEN [session EXCEPT ![s].ended = how] ELSE session

Cleanup(p) ==
    /\ At(p, "cleanup")
    /\ End(call[p].s, "mismatch")
    /\ Finish(p)
    /\ UNCHANGED <<clock, account, parent, given, epoch>>

Logout(s) ==
    /\ session[s].cur # 0
    /\ End(s, "logout")
    /\ UNCHANGED <<clock, account, parent, given, epoch, call>>

-----------------------------------------------------------------------------
(* Changes of the account.  Each is one conditional update that counts the *)
(* version up, and is refused at the largest; the sessions are swept later.*)
(* The faulty form is not refused.                                         *)

FaultyCounted(active) ==
    /\ account' = [active |-> active, ver |-> account.ver + 1]
    /\ epoch' = epoch + 1
Counted(active) ==
    /\ account.ver < MaxVersion
    /\ account' = [active |-> active, ver |-> account.ver + 1]
    /\ epoch' = epoch + 1

(* logoutAll and changePassword name the version their caller signed in    *)
(* with.                                                                   *)
ChangeLoad(p) ==
    /\ At(p, "idle")
    /\ account.active
    /\ call' = [call EXCEPT ![p] = [IdleCall EXCEPT
                   !.pc = "change", !.ver = account.ver]]
    /\ UNCHANGED <<clock, account, session, parent, given, epoch>>

LogoutAll(p) ==
    /\ At(p, "change")
    /\ IF account.ver = call[p].ver THEN Counted(account.active)
                                    ELSE UNCHANGED <<account, epoch>>
    /\ Goto(p, "sweep")
    /\ UNCHANGED <<clock, session, parent, given>>

ChangePassword(p) ==
    /\ At(p, "change")
    /\ IF account.ver = call[p].ver
       THEN Counted(account.active) /\ Goto(p, "sweep")
       ELSE UNCHANGED <<account, epoch>> /\ Finish(p)
    /\ UNCHANGED <<clock, session, parent, given>>

(* resetPassword, adminResetUserPassword, changeRole.                      *)
Reset(p) ==
    /\ At(p, "idle")
    /\ Counted(account.active)
    /\ call' = [call EXCEPT ![p].pc = "sweep"]
    /\ UNCHANGED <<clock, session, parent, given>>

Suspend(p) ==
    /\ At(p, "idle")
    /\ account.active
    /\ Counted(FALSE)
    /\ call' = [call EXCEPT ![p].pc = "sweep"]
    /\ UNCHANGED <<clock, session, parent, given>>

(* Both modes; no sweep.                                                   *)
Reactivate ==
    /\ ~account.active
    /\ \/ account' = [account EXCEPT !.active = TRUE] /\ UNCHANGED epoch
       \/ Counted(TRUE)
    /\ UNCHANGED <<clock, session, parent, given, call>>

(* revokeAllFamilies: an updateMany ends one document after another, and   *)
(* its failure is ignored.                                                 *)
Sweep(p, s) ==
    /\ At(p, "sweep")
    /\ session[s].cur # 0 /\ session[s].ended = "no"
    /\ session' = [session EXCEPT ![s].ended = "sweep"]
    /\ UNCHANGED <<clock, account, parent, given, epoch, call>>

SweepEnds(p) ==
    /\ At(p, "sweep")
    /\ Finish(p)
    /\ UNCHANGED <<clock, account, session, parent, given, epoch>>

-----------------------------------------------------------------------------
Refresh(p) == \/ \E s \in Sessions, n \in Tokens : RefreshLoad(p, s, n)
              \/ RefreshSubject(p) \/ Rotate(p) \/ Judge(p) \/ Revoke(p)
              \/ Reread(p) \/ Cleanup(p)

Change(p) == \/ ChangeLoad(p) \/ LogoutAll(p) \/ ChangePassword(p)
             \/ Reset(p) \/ Suspend(p)
             \/ (\E s \in Sessions : Sweep(p, s)) \/ SweepEnds(p)

Next == \/ Tick \/ Reactivate
        \/ \E s \in Sessions : Logout(s)
        \/ \E p \in Calls : \/ SignIn(p) \/ \E s \in Sessions : Issue(p, s)
                            \/ Refresh(p) \/ Change(p)

Spec == Init /\ [][Next]_vars

-----------------------------------------------------------------------------
(* Concurrent refreshes and lost answers bring no second successor of a    *)
(* token to a client.                                                      *)
OneSuccessor ==
    \A t, u \in given :
        t[1] = u[1] /\ parent[t[1]][t[2]] = parent[u[1]][u[2]] => t = u

(* A session opened before the account was last changed yields no          *)
(* successor any more, whatever was in progress at the change, and though  *)
(* a suspended account may be active again.                                *)
ChangeBarsOldSessions ==
    [][\A t \in given' \ given : t[2] # 1
           => account.active /\ session[t[1]].born = epoch]_given

(* A session that has ended stays as it ended: no rotation in progress     *)
(* goes on with it.                                                        *)
EndedIsFinal ==
    [][\A s \in Sessions : session[s].ended # "no"
                               => session'[s] = session[s]]_session

(* A session is ended as a replay only for a token that was replaced more  *)
(* than once, or longer ago than the window, or after the call had read    *)
(* its clock; and not if there was another rotation since the judgement.   *)
WinnerIsSpared ==
    [][\A s \in Sessions :
         session[s].ended = "no" /\ session'[s].ended = "replay"
           => \E p \in Calls :
                /\ At(p, "revoke") /\ call[p].s = s
                /\ call[p].seen.cur = session[s].cur
                /\ call[p].tok # session[s].cur
                /\ \/ call[p].tok # session[s].prev
                   \/ call[p].now < session[s].at
                   \/ call[p].now > session[s].at + Window]_session
=============================================================================
