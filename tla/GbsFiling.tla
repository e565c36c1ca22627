----------------------------- MODULE GbsFiling -----------------------------
(***************************************************************************)
(* The customer's authorizations to file for a case, and the filings the   *)
(* provider attests, composed with the life of the case.  Modelled from    *)
(* gbsFilingAuthorizationService.js and gbsExternalFilingService.js.       *)
(*                                                                         *)
(* Every command writes, then writes an audit record without which it must *)
(* not succeed, and takes back what it wrote if the audit record cannot be *)
(* stored.  A handler that stops in the middle is one that does not move.  *)
(***************************************************************************)
EXTENDS GbsCaseLife, FiniteSetsExt

CONSTANTS
    Filers,      \* command handlers, of the customer and of the provider
    MaxAuths,    \* authorizations granted, in the order of createdAt
    MaxAuthVersion

ASSUME FAssumption == None \notin Filers /\ {MaxAuths, MaxAuthVersion} \subseteq Nat

VARIABLES
    auth,      \* the GbsCaseFilingAuthorizations of the case, for one binding
    filing,    \* per authorization, the handler that created its submission
    filer,     \* the handlers
    harmed,    \* history: the audit record of a grant, a claim or an
               \* attestation has failed
    confirmed, \* history: authorizations whose revocation was audited and
               \* reported by the handler that made it
    told       \* history: those reported revoked by a handler that found them
               \* so, audited or not, and not taken back by the other since

replies == <<confirmed, told>>
filingVars == <<auth, filing, filer, harmed, replies>>
vars == <<caseVars, filingVars>>

Auths == 1 .. MaxAuths
AuthStatus == {"none", "active", "claimed", "used", "revoked", "deleted"}

Steps == {"idle", "check", "create", "granted", "undoGrant",
          "revoke", "revoked", "undoRevoke",
          "read", "look", "claim", "claimed", "undoClaim", "submit",
          "markUsed", "used", "undoUsed", "attested", "delete", "reset"}

TypeOK ==
    /\ CaseTypeOK
    /\ auth \in [Auths -> [st : AuthStatus, ver : Nat]]
    /\ filing \in [Auths -> Filers \cup {None}]
    /\ filer \in [Filers -> [pc : Steps, a : Auths \cup {None}, ver : Nat,
                             here : BOOLEAN]]
    /\ harmed \in BOOLEAN
    /\ confirmed \subseteq Auths /\ told \subseteq Auths

IdleFiler == [pc |-> "idle", a |-> None, ver |-> 0, here |-> FALSE]

Init ==
    /\ CaseInit
    /\ auth = [a \in Auths |-> [st |-> "none", ver |-> 0]]
    /\ filing = [a \in Auths |-> None]
    /\ filer = [p \in Filers |-> IdleFiler]
    /\ harmed = FALSE
    /\ confirmed = {} /\ told = {}

-----------------------------------------------------------------------------
(* The statuses of the partial unique index: one authorization of a        *)
(* binding at a time.  The faulty form forgets those that were used.       *)
FaultyEffective == {a \in Auths : auth[a].st \in {"active", "claimed"}}
Effective == {a \in Auths : auth[a].st \in {"active", "claimed", "used"}}

Known == {a \in Auths : auth[a].st \notin {"none", "deleted"}}
Fresh == {a \in Auths : auth[a].st = "none"}

Goto(p, pc) == filer' = [filer EXCEPT ![p].pc = pc]
Finish(p) == filer' = [filer EXCEPT ![p] = IdleFiler]
At(p, pc) == filer[p].pc = pc

(* The authorization of p is still in the status and version it has seen.  *)
Unmoved(p, st) == auth[filer[p].a] = [st |-> st, ver |-> filer[p].ver]

(* p writes a status to its authorization.                                 *)
Put(p, st) == auth' = [auth EXCEPT ![filer[p].a] =
                         [st |-> st, ver |-> @.ver + 1]]

(* p writes the status, if nothing moved, and goes on with the version it  *)
(* has written; otherwise it fails.                                        *)
Move(p, from, to, pc) ==
    IF Unmoved(p, from)
    THEN /\ Put(p, to)
         /\ filer' = [filer EXCEPT ![p] =
                [pc |-> pc, a |-> filer[p].a, ver |-> filer[p].ver + 1,
                 here |-> filer[p].here]]
    ELSE UNCHANGED auth /\ Finish(p)

(* The compensation: the same filter, back to the former status.           *)
TakeBack(p, from, to) ==
    /\ IF Unmoved(p, from) THEN Put(p, to) ELSE UNCHANGED auth
    /\ Finish(p)

(* The audit record is stored, or the command must be taken back.  The     *)
(* compensation of a grant deletes an authorization which may be claimed   *)
(* by then, that of a claim or of an attestation reopens one which another *)
(* handler may be using: harm is noted when the record fails, whether or   *)
(* not another handler is there to suffer it.                              *)
Audited(p, harm, ok, undo) ==
    \/ Goto(p, ok) /\ UNCHANGED harmed
    \/ Goto(p, undo) /\ harmed' = (harmed \/ harm)

-----------------------------------------------------------------------------
(* grantCustomerFilingAuthorization                                        *)

(* Whether the case is terminal is judged on the case that was loaded.     *)
GrantLoad(p) ==
    /\ At(p, "idle")
    /\ kase.status \notin Terminal
    /\ Goto(p, "check")
    /\ UNCHANGED <<caseVars, auth, filing, harmed, replies>>

(* resolveCaseFilingAuthorizationAvailability: a conflicting one.          *)
GrantCheck(p) ==
    /\ At(p, "check")
    /\ IF Effective = {} THEN Goto(p, "create") ELSE Finish(p)
    /\ UNCHANGED <<caseVars, auth, filing, harmed, replies>>

GrantCreate(p) ==
    /\ At(p, "create")
    /\ Fresh # {}
    /\ IF Effective = {}
       THEN /\ auth' = [auth EXCEPT ![Min(Fresh)].st = "active"]
            /\ filer' = [filer EXCEPT ![p].pc = "granted", ![p].a = Min(Fresh)]
       ELSE UNCHANGED auth /\ Finish(p)
    /\ UNCHANGED <<caseVars, filing, harmed, replies>>

(* The new authorization is read back, in whatever state it is by then,    *)
(* and the audit record written.                                           *)
GrantAudit(p) ==
    /\ At(p, "granted")
    /\ \/ Finish(p) /\ UNCHANGED harmed
       \/ /\ filer' = [filer EXCEPT ![p].pc = "undoGrant",
                                    ![p].ver = auth[filer[p].a].ver]
          /\ harmed' = TRUE
    /\ UNCHANGED <<caseVars, auth, filing, replies>>

(* deleteOne, with the version that was read back.                         *)
GrantUndo(p) ==
    /\ At(p, "undoGrant")
    /\ auth' = IF auth[filer[p].a].ver = filer[p].ver
               THEN [auth EXCEPT ![filer[p].a].st = "deleted"] ELSE auth
    /\ Finish(p)
    /\ UNCHANGED <<caseVars, filing, harmed, replies>>

-----------------------------------------------------------------------------
(* revokeCustomerFilingAuthorization                                       *)

RevokeLoad(p, a) ==
    /\ At(p, "idle")
    /\ auth[a].st = "active" /\ auth[a].ver < MaxAuthVersion
    /\ filer' = [filer EXCEPT ![p] = [IdleFiler EXCEPT !.pc = "revoke", !.a = a,
                                                      !.ver = auth[a].ver]]
    /\ UNCHANGED <<caseVars, auth, filing, harmed, replies>>

(* A revocation that is in place is reported at once, whoever made it and  *)
(* whether or not its audit record has been stored.                        *)
RevokeKnown(p, a) ==
    /\ At(p, "idle")
    /\ auth[a].st = "revoked"
    /\ told' = told \cup {a}
    /\ UNCHANGED <<caseVars, auth, filing, filer, harmed, confirmed>>

(* The update is left to the _id alone.                                    *)
FaultyRevokeCommit(p) ==
    /\ At(p, "revoke")
    /\ Put(p, "revoked")
    /\ filer' = [filer EXCEPT ![p].pc = "revoked",
                              ![p].ver = auth[filer[p].a].ver + 1]
    /\ UNCHANGED <<caseVars, filing, harmed, replies>>
(* A handler that comes too late reports the revocation of another, if it  *)
(* finds one: the reply carries the authorization as it is by then, also   *)
(* when the idempotency store replays the success of the other.            *)
RevokeCommit(p) ==
    /\ At(p, "revoke")
    /\ Move(p, "active", "revoked", "revoked")
    /\ told' = IF auth[filer[p].a].st = "revoked"
               THEN told \cup {filer[p].a} ELSE told
    /\ UNCHANGED <<caseVars, filing, harmed, confirmed>>

RevokeAudit(p) ==
    /\ At(p, "revoked")
    /\ \/ /\ Finish(p) /\ confirmed' = confirmed \cup {filer[p].a}
       \/ Goto(p, "undoRevoke") /\ UNCHANGED confirmed
    /\ UNCHANGED <<caseVars, auth, filing, harmed, told>>

(* Back to active, unless another was granted meanwhile: the index refuses.*)
(* Whoever was told of this revocation by another handler was told wrong.  *)
RevokeUndo(p) ==
    /\ At(p, "undoRevoke")
    /\ IF Effective = {} /\ Unmoved(p, "revoked")
       THEN Put(p, "active") /\ told' = told \ {filer[p].a}
       ELSE UNCHANGED <<auth, told>>
    /\ Finish(p)
    /\ UNCHANGED <<caseVars, filing, harmed, confirmed>>

-----------------------------------------------------------------------------
(* attestProviderExternalFiling                                            *)

(* The case is loaded, and the latest authorization picked.                *)
AttestLoad(p) ==
    /\ At(p, "idle")
    /\ kase.status \notin Terminal
    /\ Known # {}
    /\ LET a == Max(Known)
       IN /\ a \in Effective /\ auth[a].ver < MaxAuthVersion
          /\ filer' = [filer EXCEPT ![p].pc = "read", ![p].a = a]
    /\ UNCHANGED <<caseVars, auth, filing, harmed, replies>>

(* perform: the authorization is read again ...                            *)
AttestRead(p) ==
    /\ At(p, "read")
    /\ LET now == auth[filer[p].a]
       IN IF now.st \in {"active", "claimed"}
          THEN filer' = [filer EXCEPT ![p].pc = "look", ![p].ver = now.ver,
                                      ![p].here = now.st = "active"]
          ELSE Finish(p)
    /\ UNCHANGED <<caseVars, auth, filing, harmed, replies>>

(* ... and then its submission looked for.  The claim of another handler   *)
(* is used as if it were its own.                                          *)
AttestLook(p) ==
    /\ At(p, "look")
    /\ IF filing[filer[p].a] # None THEN Finish(p)
       ELSE Goto(p, IF filer[p].here THEN "claim" ELSE "submit")
    /\ UNCHANGED <<caseVars, auth, filing, harmed, replies>>

(* claimAuthorizationForSubmission                                         *)
AttestClaim(p) ==
    /\ At(p, "claim")
    /\ Move(p, "active", "claimed", "claimed")
    /\ UNCHANGED <<caseVars, filing, harmed, replies>>

(* The authorization is marked used before its submission is stored.       *)
FaultyClaimAudit(p) ==
    /\ At(p, "claimed")
    /\ Audited(p, TRUE, "markUsed", "undoClaim")
    /\ UNCHANGED <<caseVars, auth, filing, replies>>
ClaimAudit(p) ==
    /\ At(p, "claimed")
    /\ Audited(p, TRUE, "submit", "undoClaim")
    /\ UNCHANGED <<caseVars, auth, filing, replies>>

ClaimUndo(p) ==
    /\ At(p, "undoClaim")
    /\ TakeBack(p, "claimed", "active")
    /\ UNCHANGED <<caseVars, filing, harmed, replies>>

(* One submission per authorization: a unique index.                       *)
AttestSubmit(p) ==
    /\ At(p, "submit")
    /\ IF filing[filer[p].a] = None
       THEN filing' = [filing EXCEPT ![filer[p].a] = p] /\ Goto(p, "markUsed")
       ELSE UNCHANGED filing /\ Finish(p)
    /\ UNCHANGED <<caseVars, auth, harmed, replies>>

(* markAuthorizationUsed                                                   *)
MarkUsed(p) ==
    /\ At(p, "markUsed")
    /\ Move(p, "claimed", "used", "used")
    /\ UNCHANGED <<caseVars, filing, harmed, replies>>

UsedAudit(p) ==
    /\ At(p, "used")
    /\ Audited(p, FALSE, "attested", "undoUsed")
    /\ UNCHANGED <<caseVars, auth, filing, replies>>

(* The submission stays.  The faulty form uses a status of submissions.    *)
FaultyUsedUndo(p) ==
    /\ At(p, "undoUsed")
    /\ TakeBack(p, "used", "attested")
    /\ UNCHANGED <<caseVars, filing, harmed, replies>>
UsedUndo(p) ==
    /\ At(p, "undoUsed")
    /\ TakeBack(p, "used", "claimed")
    /\ UNCHANGED <<caseVars, filing, harmed, replies>>

(* The two audit records of the attestation itself.                        *)
AttestAudit(p) ==
    /\ At(p, "attested")
    /\ \/ Finish(p) /\ UNCHANGED harmed
       \/ Goto(p, "delete") /\ harmed' = TRUE
    /\ UNCHANGED <<caseVars, auth, filing, replies>>

AttestDelete(p) ==
    /\ At(p, "delete")
    /\ filing' = [filing EXCEPT ![filer[p].a] = None]
    /\ Goto(p, "reset")
    /\ UNCHANGED <<caseVars, auth, harmed, replies>>

(* By status alone; the claim goes with it if this handler made it.        *)
AttestReset(p) ==
    /\ At(p, "reset")
    /\ IF auth[filer[p].a].st = "used"
       THEN Put(p, IF filer[p].here THEN "active" ELSE "claimed")
       ELSE UNCHANGED auth
    /\ Finish(p)
    /\ UNCHANGED <<caseVars, filing, harmed, replies>>

-----------------------------------------------------------------------------
Grant(p) == \/ GrantLoad(p) \/ GrantCheck(p) \/ GrantCreate(p)
            \/ GrantAudit(p) \/ GrantUndo(p)
Revoke(p) == \/ \E a \in Auths : RevokeLoad(p, a) \/ RevokeKnown(p, a)
             \/ RevokeCommit(p) \/ RevokeAudit(p) \/ RevokeUndo(p)
Attest(p) == \/ AttestLoad(p) \/ AttestRead(p) \/ AttestLook(p)
             \/ AttestClaim(p) \/ ClaimAudit(p) \/ ClaimUndo(p)
             \/ AttestSubmit(p) \/ MarkUsed(p) \/ UsedAudit(p) \/ UsedUndo(p)
             \/ AttestAudit(p) \/ AttestDelete(p) \/ AttestReset(p)

Next == \/ CaseNext /\ UNCHANGED filingVars
        \/ \E p \in Filers : Grant(p) \/ Revoke(p) \/ Attest(p)

Spec == Init /\ [][Next]_vars

-----------------------------------------------------------------------------
(* Until an audit record of a grant, a claim or an attestation fails, a    *)
(* filing rests on an authorization that its customer has not taken back,  *)
(* and cannot take back any more.                                          *)
FilingIsAuthorized ==
    ~harmed => \A a \in Auths : filing[a] # None
                                        => auth[a].st \in {"claimed", "used"}

(* Likewise a case is filed once, over all the authorizations its customer *)
(* grants.                                                                 *)
OneFiling ==
    ~harmed => \A a, b \in Auths : filing[a] # None /\ filing[b] # None
                                           => a = b

(* What the customer was told is revoked stays so.  If the handler that    *)
(* made the revocation reported it, nothing undoes it; if another reported *)
(* what it found, only the first one can, whose audit record failed.       *)
RevocationHolds ==
    \A a \in confirmed \cup told : auth[a].st \in {"revoked", "deleted"}

(* An authorization is spent only on a filing that is stored, or about to  *)
(* be given back by the handler that took the filing back.                 *)
UsedIsFiled ==
    \A a \in Auths : auth[a].st = "used"
        => filing[a] # None \/ \E p \in Filers : At(p, "reset") /\ filer[p].a = a
=============================================================================
