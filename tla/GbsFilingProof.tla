-------------------------- MODULE GbsFilingProof ---------------------------
(***************************************************************************)
(* Theorems about GbsFiling, for any number of handlers, authorizations    *)
(* and tasks.  The composed system implements the life of a case on its    *)
(* own, so that what GbsCaseLifeProof establishes holds here too.          *)
(*                                                                         *)
(* FilingInv is inductive: an authorization that is effective is the only  *)
(* one; a revocation belongs to one handler until it is confirmed or taken *)
(* back; a submission belongs to the handler that created it until that    *)
(* handler is done; and, while no audit record of a grant, a claim or an   *)
(* attestation has failed, every handler that has passed the claim relies  *)
(* on an authorization that is still claimed or used.  ToldInv adds what   *)
(* handlers report of the revocations of others.                           *)
(***************************************************************************)
EXTENDS GbsFiling, GbsCaseLifeProof, WellFoundedInduction

USE DEF replies

FilerRec == [pc : Steps, a : Auths \cup {None}, ver : Nat, here : BOOLEAN]

FilerTypeOK ==
    /\ auth \in [Auths -> [st : AuthStatus, ver : Nat]]
    /\ filing \in [Auths -> Filers \cup {None}]
    /\ filer \in [Filers -> FilerRec]
    /\ harmed \in BOOLEAN
    /\ confirmed \subseteq Auths

(* Handlers work on authorizations that exist.                             *)
Early == {"idle", "check", "create"}

OnKnown ==
    \A p \in Filers :
        IF filer[p].pc \in Early
        THEN filer[p].a = None
        ELSE filer[p].a \in Auths /\ auth[filer[p].a].st # "none"

FreshIsFree == \A a \in Auths : auth[a].st = "none" => filing[a] = None

OneEffective == \A a, b \in Effective : a = b

Revoking == {"revoked", "undoRevoke"}
TakenBack == {"revoked", "deleted"}

RevokersAlone ==
    \A p \in Filers : filer[p].pc \in Revoking =>
        /\ filer[p].a \notin confirmed
        /\ auth[filer[p].a].st \in TakenBack
        /\ \A q \in Filers : /\ filer[q].pc \in Revoking
                             /\ filer[q].a = filer[p].a
                             => q = p

Submitted == {"markUsed", "used", "undoUsed", "attested", "delete"}

SubmittersOwn ==
    \A p \in Filers :
        filer[p].pc \in Submitted => filing[filer[p].a] = p

Harming == {"undoGrant", "undoClaim", "delete", "reset"}

HarmIsKnown == \A p \in Filers : filer[p].pc \in Harming => harmed

PastClaim == {"claimed", "submit", "markUsed", "used", "undoUsed", "attested"}
RestsOnClaim(h) == h.pc \in PastClaim \/ (h.pc = "look" /\ ~h.here)

ClaimsHold ==
    ~harmed => \A p \in Filers :
        RestsOnClaim(filer[p]) => auth[filer[p].a].st \in {"claimed", "used"}

ConfirmedHolds == \A a \in confirmed : auth[a].st \in TakenBack

FilingInv ==
    /\ FilerTypeOK /\ OnKnown /\ FreshIsFree /\ OneEffective
    /\ RevokersAlone /\ ConfirmedHolds /\ SubmittersOwn /\ UsedIsFiled
    /\ HarmIsKnown /\ ClaimsHold /\ FilingIsAuthorized

-----------------------------------------------------------------------------
(* The composition implements the life of the case: whatever a grant, an
   attestation or a compensation does to the case is a step of CaseSpec. *)
THEOREM FilingImplementsCaseLife == Spec => CaseSpec
<1>1. Init => CaseInit
  BY DEF Init
<1>2. ASSUME [Next]_vars
      PROVE  [CaseNext]_caseVars
  <2>1. ASSUME NEW p \in Filers, Grant(p) \/ Revoke(p) \/ Attest(p)
        PROVE  UNCHANGED caseVars
    BY <2>1 DEF Grant, GrantLoad, GrantCheck, GrantCreate, GrantAudit, GrantUndo,
         Revoke, RevokeLoad, RevokeKnown, RevokeCommit, RevokeAudit, RevokeUndo, Attest,
         AttestLoad, AttestRead, AttestLook, AttestClaim, ClaimAudit, ClaimUndo,
         AttestSubmit, MarkUsed, UsedAudit, UsedUndo, AttestAudit, AttestDelete,
         AttestReset
  <2> QED
    BY <1>2, <2>1 DEF Next, vars
<1> QED
  BY <1>1, <1>2, PTL DEF Spec, CaseSpec

LEMMA MinAuth ==
    ASSUME NEW S \in SUBSET Nat, S # {}
    PROVE  Min(S) \in S
<1> DEFINE R == {ss \in Nat \X Nat : ss[1] < ss[2]}
<1>1. IsWellFoundedOn(R, Nat)
  BY NatLessThanWellFounded DEF OpToRel
<1>2. PICK x \in S : \A y \in S : <<y, x>> \notin R
  <2> HIDE DEF R
  <2> QED BY <1>1, WFMin
<1>3. ASSUME NEW y \in S PROVE x =< y
  <2>1. <<y, x>> \notin R /\ x \in Nat /\ y \in Nat
    BY <1>2
  <2>2. <<y, x>> \in Nat \X Nat /\ ~(y < x)
    BY <2>1
  <2> QED
    BY <2>1, <2>2
<1> QED
  BY <1>3 DEF Min

-----------------------------------------------------------------------------
(* FilingInv is inductive *)

LEMMA FilingInitInv == Init => FilingInv
<1> SUFFICES ASSUME Init PROVE FilingInv
  OBVIOUS
<1>1. FilerTypeOK
  BY DEF Init, FilerTypeOK, FilerRec, IdleFiler, AuthStatus, Steps
<1>2. \A p \in Filers : filer[p].pc = "idle" /\ filer[p].a = None
  BY DEF Init, IdleFiler
<1>3. \A a \in Auths : auth[a].st = "none" /\ filing[a] = None
  BY DEF Init
<1>4. Effective = {} /\ confirmed = {}
  BY <1>3 DEF Effective, Init
<1> QED
  BY <1>1, <1>2, <1>3, <1>4
     DEF FilingInv, OnKnown, FreshIsFree, OneEffective, RevokersAlone,
         ConfirmedHolds, SubmittersOwn, UsedIsFiled, HarmIsKnown, ClaimsHold,
         FilingIsAuthorized, Revoking, PastClaim, RestsOnClaim, Early,
         Submitted, Harming

(* What the new state of a handler must satisfy, given the authorizations  *)
(* and submissions after its step.                                         *)
GoesOn(p, f) ==
    /\ IF f.pc \in Early THEN f.a = None
       ELSE f.a \in Auths /\ auth'[f.a].st # "none"
    /\ f.pc \in Submitted => filing'[f.a] = p
    /\ f.pc \in Harming => harmed'
    /\ ~harmed' /\ RestsOnClaim(f) => auth'[f.a].st \in {"claimed", "used"}

(* A handler reads, or records what became of its audit record.            *)
LEMMA LocalStep ==
    ASSUME FilingInv, NEW p \in Filers, NEW f \in FilerRec,
           filer' = [filer EXCEPT ![p] = f], UNCHANGED <<auth, filing, confirmed>>,
           harmed' \in BOOLEAN, harmed => harmed',
           GoesOn(p, f),
           f.pc \in Revoking => filer[p].pc \in Revoking /\ f.a = filer[p].a,
           filer[p].pc = "reset" => auth[filer[p].a].st # "used"
    PROVE  FilingInv'
<1>1. /\ filer'[p] = f
      /\ \A q \in Filers : q # p => filer'[q] = filer[q]
  BY DEF FilingInv, FilerTypeOK
<1>2. FilerTypeOK'
  BY DEF FilingInv, FilerTypeOK
<1>3. OnKnown' /\ FreshIsFree' /\ OneEffective' /\ ConfirmedHolds'
  BY <1>1 DEF FilingInv, OnKnown, FreshIsFree, OneEffective, Effective,
              ConfirmedHolds, GoesOn
<1>4. RevokersAlone'
  BY <1>1 DEF FilingInv, RevokersAlone
<1>5. SubmittersOwn' /\ HarmIsKnown' /\ ClaimsHold' /\ FilingIsAuthorized'
  BY <1>1 DEF FilingInv, SubmittersOwn, HarmIsKnown, ClaimsHold,
              FilingIsAuthorized, GoesOn
<1>6. UsedIsFiled'
  BY <1>1 DEF FilingInv, UsedIsFiled, At
<1> QED
  BY <1>2, <1>3, <1>4, <1>5, <1>6 DEF FilingInv

(* A handler writes to one authorization.                                  *)
LEMMA AuthStep ==
    ASSUME FilingInv, NEW p \in Filers, NEW f \in FilerRec,
           filer' = [filer EXCEPT ![p] = f], UNCHANGED <<filing, harmed, confirmed>>,
           NEW a \in Auths, NEW n \in [st : AuthStatus, ver : Nat],
           auth' = [auth EXCEPT ![a] = n],
           n.st # "none",
           n.st \in {"active", "claimed", "used"}
               => a \in Effective \/ Effective = {},
           auth[a].st \in TakenBack => n.st \in TakenBack
               \/ (filer[p].pc \in Revoking /\ filer[p].a = a),
           auth[a].st \in {"claimed", "used"} =>
               n.st \in {"claimed", "used"} \/ harmed,
           n.st = "used" => filing[a] # None,
           GoesOn(p, f),
           f.pc \in Revoking => /\ f.a = a /\ n.st \in TakenBack
                                /\ auth[a].st \notin TakenBack,
           filer[p].pc = "reset" => filer[p].a = a
    PROVE  FilingInv'
<1>1. /\ filer'[p] = f
      /\ \A q \in Filers : q # p => filer'[q] = filer[q]
      /\ auth'[a] = n
      /\ \A b \in Auths : b # a => auth'[b] = auth[b]
  BY DEF FilingInv, FilerTypeOK
<1>2. FilerTypeOK'
  BY DEF FilingInv, FilerTypeOK
<1>3. OnKnown' /\ FreshIsFree'
  BY <1>1 DEF FilingInv, OnKnown, FreshIsFree, GoesOn
<1>4. OneEffective'
  <2>1. \A b \in Effective' : b \in Effective \/ (b = a /\ Effective = {})
    BY <1>1 DEF Effective
  <2> QED
    BY <2>1 DEF FilingInv, OneEffective
<1>5. ConfirmedHolds'
  BY <1>1 DEF FilingInv, FilerTypeOK, ConfirmedHolds, RevokersAlone, TakenBack
<1>6. RevokersAlone'
  <2>1. ASSUME NEW q \in Filers, q # p, filer[q].pc \in Revoking
        PROVE  /\ filer[q].a \notin confirmed
               /\ auth'[filer[q].a].st \in TakenBack
               /\ filer[q].a # a \/ auth[a].st \in TakenBack
    BY <1>1, <2>1 DEF FilingInv, RevokersAlone, OnKnown, Early, Revoking
  <2>2. ASSUME f.pc \in Revoking
        PROVE  f.a \notin confirmed
    BY <2>2 DEF FilingInv, ConfirmedHolds, TakenBack
  <2> QED
    BY <1>1, <2>1, <2>2 DEF FilingInv, RevokersAlone
<1>7. SubmittersOwn' /\ HarmIsKnown'
  BY <1>1 DEF FilingInv, SubmittersOwn, HarmIsKnown, GoesOn
<1>8. ClaimsHold'
  <2>1. ASSUME NEW q \in Filers, q # p, ~harmed, RestsOnClaim(filer[q])
        PROVE  auth'[filer[q].a].st \in {"claimed", "used"}
    BY <1>1, <2>1 DEF FilingInv, ClaimsHold, OnKnown, RestsOnClaim, PastClaim,
                      Early
  <2> QED
    BY <1>1, <2>1 DEF ClaimsHold, GoesOn
<1>9. FilingIsAuthorized'
  BY <1>1 DEF FilingInv, FilingIsAuthorized
<1>10. UsedIsFiled'
  <2>1. ASSUME NEW b \in Auths, b # a, auth[b].st = "used", filing[b] = None
        PROVE  \E q \in Filers : q # p /\ At(q, "reset") /\ filer[q].a = b
    BY <2>1 DEF FilingInv, UsedIsFiled, At
  <2> QED
    BY <1>1, <2>1 DEF FilingInv, UsedIsFiled, At
<1> QED
  BY <1>2, <1>3, <1>4, <1>5, <1>6, <1>7, <1>8, <1>9, <1>10 DEF FilingInv

(* A handler ends without a further write.                                 *)
LEMMA FinishStep ==
    ASSUME FilingInv, NEW p \in Filers, Finish(p),
           UNCHANGED <<auth, filing, harmed, confirmed>>,
           filer[p].pc = "reset" => auth[filer[p].a].st # "used"
    PROVE  FilingInv'
<1>1. /\ IdleFiler \in FilerRec /\ IdleFiler.pc = "idle" /\ IdleFiler.a = None
  BY DEF IdleFiler, FilerRec, Steps
<1>2. GoesOn(p, IdleFiler) /\ IdleFiler.pc \notin Revoking
  BY <1>1 DEF GoesOn, Early, Submitted, Harming, RestsOnClaim, PastClaim, Revoking
<1>3. harmed' \in BOOLEAN /\ filer' = [filer EXCEPT ![p] = IdleFiler]
  BY DEF FilingInv, FilerTypeOK, Finish
<1> QED
  BY <1>1, <1>2, <1>3, LocalStep

(* A handler goes on from a read, or from its audit record.                *)
LEMMA GotoStep ==
    ASSUME FilingInv, NEW p \in Filers, NEW pc \in Steps, Goto(p, pc),
           UNCHANGED <<auth, filing, confirmed>>,
           harmed' \in BOOLEAN, harmed => harmed',
           filer[p].pc # "reset",
           pc \in Early <=> filer[p].pc \in Early,
           pc \in Submitted => filer[p].pc \in Submitted,
           pc \in Harming => harmed',
           pc \in PastClaim => filer[p].pc \in PastClaim
                             \/ (filer[p].pc = "look" /\ ~filer[p].here),
           pc # "look",
           pc \in Revoking => filer[p].pc \in Revoking
    PROVE  FilingInv'
<1> DEFINE f == [filer[p] EXCEPT !.pc = pc]
<1>1. /\ f \in FilerRec /\ f.pc = pc /\ f.a = filer[p].a
      /\ filer' = [filer EXCEPT ![p] = f]
  BY DEF FilingInv, FilerTypeOK, FilerRec, Goto
<1> HIDE DEF f
<1>2. GoesOn(p, f)
  BY <1>1 DEF GoesOn, FilingInv, OnKnown, SubmittersOwn, ClaimsHold, RestsOnClaim
<1> QED
  BY <1>1, <1>2, LocalStep

(* A handler writes a status to its authorization and goes on.             *)
LEMMA PutStep ==
    ASSUME FilingInv, NEW p \in Filers, NEW f \in FilerRec, NEW to \in AuthStatus,
           filer[p].pc \notin Early, Put(p, to),
           filer' = [filer EXCEPT ![p] = f], UNCHANGED <<filing, harmed, confirmed>>,
           to # "none",
           to \in {"active", "claimed", "used"}
               => filer[p].a \in Effective \/ Effective = {},
           auth[filer[p].a].st \in TakenBack => filer[p].pc \in Revoking,
           auth[filer[p].a].st \in {"claimed", "used"} =>
               to \in {"claimed", "used"} \/ harmed,
           to = "used" => filing[filer[p].a] # None,
           f.pc \in Early => f.a = None,
           f.pc \notin Early => f.a = filer[p].a,
           f.pc \in Submitted => filer[p].pc \in Submitted,
           f.pc \notin Harming,
           RestsOnClaim(f) => to \in {"claimed", "used"},
           f.pc \in Revoking => /\ to \in TakenBack
                                /\ auth[filer[p].a].st \notin TakenBack
    PROVE  FilingInv'
<1> DEFINE a == filer[p].a
           n == [st |-> to, ver |-> auth[a].ver + 1]
<1>1. a \in Auths
  BY DEF FilingInv, OnKnown
<1>2. n \in [st : AuthStatus, ver : Nat] /\ n.st = to /\ auth' = [auth EXCEPT ![a] = n]
  BY <1>1 DEF Put, FilingInv, FilerTypeOK
<1>3. auth'[a].st = to
  BY <1>1, <1>2 DEF FilingInv, FilerTypeOK
<1> HIDE DEF n
<1>4. GoesOn(p, f)
  BY <1>1, <1>3 DEF GoesOn, FilingInv, SubmittersOwn, RestsOnClaim, PastClaim,
                    Early, Submitted
<1>5. f.pc \in Revoking => f.pc \notin Early
  BY DEF Revoking, Early
<1> QED
  BY <1>1, <1>2, <1>4, <1>5, AuthStep

LEMMA IdleIsEarly ==
    /\ IdleFiler \in FilerRec /\ IdleFiler.pc \in Early /\ IdleFiler.a = None
    /\ IdleFiler.pc \notin Submitted \cup Harming \cup Revoking
    /\ ~RestsOnClaim(IdleFiler)
  BY DEF IdleFiler, FilerRec, Steps, Early, Submitted, Harming, Revoking,
         RestsOnClaim, PastClaim

LEMMA MoveStep ==
    ASSUME FilingInv, NEW p \in Filers, NEW from, NEW to \in AuthStatus,
           NEW pc \in Steps,
           filer[p].pc \notin Early \cup {"reset"},
           Move(p, from, to, pc), UNCHANGED <<filing, harmed, confirmed>>,
           from \in {"active", "claimed"},
           to # "none", from = "claimed" => to = "used",
           to = "used" => filer[p].pc \in Submitted,
           pc \notin Early \cup Harming \cup {"look"},
           pc \in Submitted => filer[p].pc \in Submitted,
           pc \in PastClaim => to \in {"claimed", "used"},
           pc \in Revoking => to \in TakenBack
    PROVE  FilingInv'
<1>1. CASE ~Unmoved(p, from)
  BY <1>1, FinishStep DEF Move
<1>2. CASE Unmoved(p, from)
  <2> DEFINE f == [pc |-> pc, a |-> filer[p].a,
                   ver |-> filer[p].ver + 1, here |-> filer[p].here]
  <2>0. filer[p] \in FilerRec
    BY DEF FilingInv, FilerTypeOK
  <2>1. f \in FilerRec /\ f.pc = pc /\ f.a = filer[p].a
    BY <2>0 DEF FilerRec
  <2>2. /\ Put(p, to) /\ filer' = [filer EXCEPT ![p] = f]
        /\ auth[filer[p].a].st = from /\ filer[p].a \in Auths
    <3>1. Put(p, to)
      BY <1>2 DEF Move
    <3>2. filer' = [filer EXCEPT ![p] = f]
      BY <1>2 DEF Move
    <3>3. auth[filer[p].a].st = from
      BY <1>2 DEF Unmoved
    <3>4. filer[p].a \in Auths
      BY DEF FilingInv, OnKnown
    <3> QED
      BY <3>1, <3>2, <3>3, <3>4
  <2> HIDE DEF f
  <2>3. filer[p].a \in Effective /\ from \notin TakenBack
    BY <2>2 DEF Effective, TakenBack
  <2>4. to = "used" => filing[filer[p].a] # None
    BY FAssumption DEF FilingInv, SubmittersOwn
  <2>5. RestsOnClaim(f) => to \in {"claimed", "used"}
    BY <2>1 DEF RestsOnClaim
  <2> QED
    BY <2>1, <2>2, <2>3, <2>4, <2>5, PutStep
<1> QED
  BY <1>1, <1>2

LEMMA TakeBackStep ==
    ASSUME FilingInv, NEW p \in Filers, NEW from, NEW to \in AuthStatus,
           filer[p].pc \notin Early \cup {"reset"},
           TakeBack(p, from, to), UNCHANGED <<filing, harmed, confirmed>>,
           to \notin {"none", "used"},
           from \in TakenBack => filer[p].pc \in Revoking /\ Effective = {},
           from \notin TakenBack => from \in {"active", "claimed", "used"},
           from \in {"claimed", "used"} => to = "claimed" \/ harmed
    PROVE  FilingInv'
<1>1. CASE ~Unmoved(p, from)
  BY <1>1, FinishStep DEF TakeBack
<1>2. CASE Unmoved(p, from)
  <2>1. /\ Put(p, to) /\ filer' = [filer EXCEPT ![p] = IdleFiler]
        /\ auth[filer[p].a].st = from /\ filer[p].a \in Auths
    BY <1>2 DEF TakeBack, Finish, Unmoved, FilingInv, OnKnown
  <2>2. filer[p].a \in Effective \/ Effective = {}
    BY <2>1 DEF Effective
  <2> QED
    BY <2>1, <2>2, IdleIsEarly, PutStep
<1> QED
  BY <1>1, <1>2

(* The audit record of a claim or of a use.                                *)
LEMMA AuditedStep ==
    ASSUME FilingInv, NEW p \in Filers, NEW harm \in BOOLEAN,
           NEW ok \in Steps, NEW undo \in Steps,
           Audited(p, harm, ok, undo), UNCHANGED <<auth, filing, confirmed>>,
           filer[p].pc \in PastClaim,
           ok \in PastClaim, ok \in Submitted => filer[p].pc \in Submitted,
           undo \notin Early \cup {"look"} \cup Revoking,
           undo \in Submitted => filer[p].pc \in Submitted,
           undo \in Harming => harm
    PROVE  FilingInv'
<1>1. /\ filer[p].pc \notin Early \cup {"reset"}
      /\ ok \notin Early \cup {"look"} \cup Revoking \cup Harming
      /\ harmed \in BOOLEAN
  BY DEF PastClaim, Early, Revoking, Harming, FilingInv, FilerTypeOK
<1>2. CASE Goto(p, ok) /\ UNCHANGED harmed
  BY <1>1, <1>2, GotoStep
<1>3. CASE Goto(p, undo) /\ harmed' = (harmed \/ harm)
  BY <1>1, <1>3, GotoStep
<1> QED
  BY <1>2, <1>3 DEF Audited

-----------------------------------------------------------------------------
(* The customer's commands *)

LEMMA GrantInv ==
    ASSUME FilingInv, NEW p \in Filers, Grant(p)
    PROVE  FilingInv'
<1>0. harmed \in BOOLEAN /\ filer[p] \in FilerRec
  BY DEF FilingInv, FilerTypeOK
<1>1. CASE GrantLoad(p)
  BY <1>0, <1>1, GotoStep
     DEF GrantLoad, At, Early, Submitted, Harming, PastClaim, Revoking, Steps
<1>2. CASE GrantCheck(p)
  <2>1. CASE Effective = {}
    BY <1>0, <1>2, <2>1, GotoStep
       DEF GrantCheck, At, Early, Submitted, Harming, PastClaim, Revoking, Steps
  <2>2. CASE Effective # {}
    BY <1>2, <2>2, FinishStep DEF GrantCheck, At
  <2> QED
    BY <2>1, <2>2
<1>3. CASE GrantCreate(p)
  <2>1. CASE Effective # {}
    BY <1>3, <2>1, FinishStep DEF GrantCreate, At
  <2>2. CASE Effective = {}
    <3> DEFINE a == Min(Fresh)
               n == [auth[a] EXCEPT !.st = "active"]
               f == [filer[p] EXCEPT !.pc = "granted", !.a = a]
    <3>1. a \in Auths /\ auth[a].st = "none"
      <4>1. Fresh \in SUBSET Nat /\ Fresh # {}
        BY <1>3 DEF Fresh, Auths, GrantCreate
      <4> QED
        BY <4>1, MinAuth DEF Fresh
    <3>2. auth' = [auth EXCEPT ![a] = n] /\ filer' = [filer EXCEPT ![p] = f]
      BY <1>3, <2>2 DEF GrantCreate
    <3> HIDE DEF a
    <3>3. /\ n \in [st : AuthStatus, ver : Nat] /\ n.st = "active"
          /\ f \in FilerRec /\ f.pc = "granted" /\ f.a = a
          /\ auth'[a] = n
      BY <1>0, <3>1, <3>2 DEF FilingInv, FilerTypeOK, FilerRec, AuthStatus, Steps
    <3> HIDE DEF f, n
    <3>4. GoesOn(p, f) /\ f.pc \notin Revoking
      BY <3>1, <3>3 DEF GoesOn, Early, Submitted, Harming, RestsOnClaim, PastClaim,
                        Revoking
    <3>5. filer[p].pc # "reset" /\ UNCHANGED <<filing, harmed, confirmed>>
          /\ auth[a].st \notin TakenBack
      BY <1>3, <3>1 DEF GrantCreate, At, TakenBack
    <3> QED
      BY <2>2, <3>1, <3>2, <3>3, <3>4, <3>5, AuthStep
  <2> QED
    BY <2>1, <2>2
<1>4. CASE GrantAudit(p)
  <2>1. CASE Finish(p) /\ UNCHANGED harmed
    BY <1>4, <2>1, FinishStep DEF GrantAudit, At
  <2>2. CASE filer' = [filer EXCEPT ![p].pc = "undoGrant",
                                    ![p].ver = auth[filer[p].a].ver]
    <3> DEFINE f == [filer[p] EXCEPT !.pc = "undoGrant",
                                     !.ver = auth[filer[p].a].ver]
    <3>1. filer[p].pc = "granted" /\ filer[p].a \in Auths
          /\ auth[filer[p].a].st # "none"
      BY <1>4 DEF GrantAudit, At, FilingInv, OnKnown, Early
    <3>2. f \in FilerRec /\ f.pc = "undoGrant" /\ f.a = filer[p].a
          /\ filer' = [filer EXCEPT ![p] = f]
      BY <1>0, <2>2, <3>1 DEF FilingInv, FilerTypeOK, FilerRec, Steps
    <3> HIDE DEF f
    <3>3. UNCHANGED <<auth, filing, confirmed>>
      BY <1>4 DEF GrantAudit
    <3>4. CASE harmed' = TRUE
      <4>1. GoesOn(p, f) /\ f.pc \notin Revoking
        BY <3>1, <3>2, <3>3, <3>4
           DEF GoesOn, Early, Submitted, Harming, RestsOnClaim, PastClaim, Revoking
      <4> QED
        BY <3>1, <3>2, <3>3, <3>4, <4>1, LocalStep
    <3>5. CASE harmed' # TRUE
      BY <1>4, <2>1, <3>5 DEF GrantAudit
    <3> QED
      BY <3>4, <3>5
  <2> QED
    BY <1>4, <2>1, <2>2 DEF GrantAudit
<1>5. CASE GrantUndo(p)
  <2> DEFINE a == filer[p].a
             n == [auth[a] EXCEPT !.st = "deleted"]
  <2>1. /\ filer[p].pc = "undoGrant" /\ a \in Auths /\ harmed
        /\ UNCHANGED <<filing, harmed, confirmed>>
        /\ filer' = [filer EXCEPT ![p] = IdleFiler]
    BY <1>5 DEF GrantUndo, At, Finish, FilingInv, OnKnown, HarmIsKnown, Early,
                Harming
  <2>2. CASE auth[a].ver # filer[p].ver
    BY <1>5, <2>1, <2>2, FinishStep DEF GrantUndo
  <2>3. CASE auth[a].ver = filer[p].ver
    <3>1. /\ auth' = [auth EXCEPT ![a] = n] /\ n.st = "deleted"
          /\ n \in [st : AuthStatus, ver : Nat]
      BY <1>5, <2>1, <2>3 DEF GrantUndo, FilingInv, FilerTypeOK, AuthStatus
    <3> HIDE DEF n
    <3>2. GoesOn(p, IdleFiler)
      BY IdleIsEarly DEF GoesOn
    <3>3. n.st \in TakenBack
      BY <3>1 DEF TakenBack
    <3> QED
      BY <2>1, <3>1, <3>2, <3>3, IdleIsEarly, AuthStep
  <2> QED
    BY <2>2, <2>3
<1> QED
  BY <1>1, <1>2, <1>3, <1>4, <1>5 DEF Grant

LEMMA RevokeInv ==
    ASSUME FilingInv, NEW p \in Filers, Revoke(p)
    PROVE  FilingInv'
<1>0. harmed \in BOOLEAN /\ filer[p] \in FilerRec
  BY DEF FilingInv, FilerTypeOK
<1>1. ASSUME NEW a \in Auths, RevokeLoad(p, a)
      PROVE  FilingInv'
  <2> DEFINE f == [IdleFiler EXCEPT !.pc = "revoke", !.a = a, !.ver = auth[a].ver]
  <2>1. f \in FilerRec /\ f.pc = "revoke" /\ f.a = a
        /\ filer' = [filer EXCEPT ![p] = f]
    BY <1>1 DEF RevokeLoad, FilingInv, FilerTypeOK, FilerRec, Steps, IdleFiler
  <2> HIDE DEF f
  <2>2. /\ UNCHANGED <<auth, filing, confirmed, harmed>> /\ filer[p].pc = "idle"
        /\ auth[a].st = "active"
    BY <1>1 DEF RevokeLoad, At
  <2>3. GoesOn(p, f) /\ f.pc \notin Revoking
    BY <2>1, <2>2
       DEF GoesOn, Early, Submitted, Harming, RestsOnClaim, PastClaim, Revoking
  <2> QED
    BY <1>0, <2>1, <2>2, <2>3, LocalStep
<1>5. ASSUME NEW a \in Auths, RevokeKnown(p, a)
      PROVE  FilingInv'
  BY <1>5
     DEF RevokeKnown, FilingInv, FilerTypeOK, OnKnown, FreshIsFree, OneEffective,
         Effective, RevokersAlone, ConfirmedHolds, SubmittersOwn, UsedIsFiled,
         HarmIsKnown, ClaimsHold, FilingIsAuthorized, At
<1>2. CASE RevokeCommit(p)
  BY <1>2, MoveStep
     DEF RevokeCommit, At, Early, Submitted, Harming, PastClaim, Revoking, Steps,
         AuthStatus, TakenBack
<1>3. CASE RevokeAudit(p)
  <2>0. /\ filer[p].pc = "revoked" /\ UNCHANGED <<auth, filing, harmed>>
    BY <1>3 DEF RevokeAudit, At
  <2>1. CASE Goto(p, "undoRevoke") /\ UNCHANGED confirmed
    BY <1>0, <2>0, <2>1, GotoStep
       DEF Early, Submitted, Harming, PastClaim, Revoking, Steps
  <2>2. CASE Finish(p) /\ confirmed' = confirmed \cup {filer[p].a}
    <3>1. /\ filer'[p] = IdleFiler
          /\ \A q \in Filers : q # p => filer'[q] = filer[q]
          /\ filer' \in [Filers -> FilerRec]
      BY <2>2, IdleIsEarly DEF Finish, FilingInv, FilerTypeOK
    <3>2. /\ filer[p].a \in Auths /\ auth[filer[p].a].st \in TakenBack
          /\ filer[p].pc \in Revoking
      BY <2>0 DEF FilingInv, OnKnown, RevokersAlone, Early, Revoking
    <3>3. FilerTypeOK'
      BY <2>0, <2>2, <3>1, <3>2 DEF FilingInv, FilerTypeOK
    <3>4. OnKnown' /\ FreshIsFree' /\ OneEffective'
      BY <2>0, <3>1, IdleIsEarly
         DEF FilingInv, OnKnown, FreshIsFree, OneEffective, Effective
    <3>5. ConfirmedHolds'
      BY <2>0, <2>2, <3>2 DEF FilingInv, ConfirmedHolds, TakenBack
    <3>6. RevokersAlone'
      BY <2>0, <2>2, <3>1, <3>2, IdleIsEarly DEF FilingInv, RevokersAlone
    <3>7. SubmittersOwn' /\ HarmIsKnown' /\ ClaimsHold' /\ FilingIsAuthorized'
      BY <2>0, <3>1, IdleIsEarly
         DEF FilingInv, SubmittersOwn, HarmIsKnown, ClaimsHold, FilingIsAuthorized
    <3>8. UsedIsFiled'
      BY <2>0, <3>1 DEF FilingInv, UsedIsFiled, At
    <3> QED
      BY <3>3, <3>4, <3>5, <3>6, <3>7, <3>8 DEF FilingInv
  <2> QED
    BY <1>3, <2>1, <2>2 DEF RevokeAudit
<1>4. CASE RevokeUndo(p)
  <2>1. CASE Effective = {}
    <3>1. TakeBack(p, "revoked", "active") /\ UNCHANGED <<filing, harmed, confirmed>>
      BY <1>4, <2>1 DEF RevokeUndo, TakeBack
    <3> QED
      BY <1>4, <2>1, <3>1, TakeBackStep
         DEF RevokeUndo, At, Early, Revoking, AuthStatus, TakenBack
  <2>2. CASE Effective # {}
    BY <1>4, <2>2, FinishStep DEF RevokeUndo, At
  <2> QED
    BY <2>1, <2>2
<1> QED
  BY <1>1, <1>2, <1>3, <1>4, <1>5 DEF Revoke

-----------------------------------------------------------------------------
(* The provider's attestation *)

(* The submission is stored, and is this handler's.                        *)
LEMMA SubmitInv ==
    ASSUME FilingInv, NEW p \in Filers, AttestSubmit(p)
    PROVE  FilingInv'
<1> DEFINE a == filer[p].a
<1>1. /\ filer[p].pc = "submit" /\ a \in Auths /\ auth[a].st # "none"
      /\ UNCHANGED <<auth, harmed, confirmed>>
  BY DEF AttestSubmit, At, FilingInv, OnKnown, Early
<1>2. CASE filing[a] # None
  BY <1>1, <1>2, FinishStep DEF AttestSubmit
<1>3. CASE filing[a] = None
  <2>1. /\ filing' = [filing EXCEPT ![a] = p]
        /\ filer' = [filer EXCEPT ![p].pc = "markUsed"]
    BY <1>3 DEF AttestSubmit, Goto
  <2>2. /\ filer'[p].pc = "markUsed" /\ filer'[p].a = a
        /\ \A q \in Filers : q # p => filer'[q] = filer[q]
        /\ filing'[a] = p
        /\ \A b \in Auths : b # a => filing'[b] = filing[b]
    BY <1>1, <2>1 DEF FilingInv, FilerTypeOK, FilerRec
  <2>3. FilerTypeOK'
    BY <1>1, <2>1 DEF FilingInv, FilerTypeOK, FilerRec, Steps
  <2>4. OnKnown' /\ FreshIsFree' /\ OneEffective' /\ ConfirmedHolds'
    BY <1>1, <2>2 DEF FilingInv, OnKnown, FreshIsFree, OneEffective, Effective,
                      ConfirmedHolds, Early
  <2>5. RevokersAlone'
    BY <1>1, <2>2 DEF FilingInv, RevokersAlone, Revoking
  <2>6. SubmittersOwn'
    <3>1. ASSUME NEW q \in Filers, q # p, filer[q].pc \in Submitted
          PROVE  filer[q].a # a /\ filer[q].a \in Auths
      BY <1>3, <3>1, FAssumption
         DEF FilingInv, SubmittersOwn, OnKnown, Submitted, Early
    <3> QED
      BY <2>2, <3>1 DEF FilingInv, SubmittersOwn
  <2>7. HarmIsKnown'
    BY <1>1, <2>2 DEF FilingInv, HarmIsKnown, Harming
  <2>8. ~harmed => auth[a].st \in {"claimed", "used"}
    BY <1>1 DEF FilingInv, ClaimsHold, RestsOnClaim, PastClaim
  <2>9. ClaimsHold' /\ FilingIsAuthorized'
    BY <1>1, <2>2, <2>8
       DEF FilingInv, ClaimsHold, FilingIsAuthorized, RestsOnClaim
  <2>10. UsedIsFiled'
    BY <1>1, <2>2, FAssumption DEF FilingInv, UsedIsFiled, At
  <2> QED
    BY <2>3, <2>4, <2>5, <2>6, <2>7, <2>9, <2>10 DEF FilingInv
<1> QED
  BY <1>2, <1>3

(* The compensation takes the submission back, which is still its own.     *)
LEMMA DeleteInv ==
    ASSUME FilingInv, NEW p \in Filers, AttestDelete(p)
    PROVE  FilingInv'
<1> DEFINE a == filer[p].a
<1>1. /\ filer[p].pc = "delete" /\ a \in Auths /\ auth[a].st # "none" /\ harmed
      /\ filing[a] = p /\ UNCHANGED <<auth, harmed, confirmed>>
  BY DEF AttestDelete, At, FilingInv, OnKnown, HarmIsKnown, SubmittersOwn, Early,
         Harming, Submitted
<1>2. /\ filing' = [filing EXCEPT ![a] = None]
      /\ filer' = [filer EXCEPT ![p].pc = "reset"]
  BY DEF AttestDelete, Goto
<1>3. /\ filer'[p].pc = "reset" /\ filer'[p].a = a
      /\ \A q \in Filers : q # p => filer'[q] = filer[q]
      /\ filing'[a] = None
      /\ \A b \in Auths : b # a => filing'[b] = filing[b]
  BY <1>1, <1>2 DEF FilingInv, FilerTypeOK, FilerRec
<1>4. FilerTypeOK'
  BY <1>1, <1>2 DEF FilingInv, FilerTypeOK, FilerRec, Steps
<1>5. OnKnown' /\ FreshIsFree' /\ OneEffective' /\ ConfirmedHolds'
  BY <1>1, <1>3 DEF FilingInv, OnKnown, FreshIsFree, OneEffective, Effective,
                    ConfirmedHolds, Early
<1>6. RevokersAlone'
  BY <1>1, <1>3 DEF FilingInv, RevokersAlone, Revoking
<1>7. SubmittersOwn'
  <2>1. ASSUME NEW q \in Filers, q # p, filer[q].pc \in Submitted
        PROVE  filer[q].a # a /\ filer[q].a \in Auths
    BY <1>1, <2>1 DEF FilingInv, SubmittersOwn, OnKnown, Submitted, Early
  <2> QED
    BY <1>3, <2>1 DEF FilingInv, SubmittersOwn, Submitted
<1>8. HarmIsKnown' /\ ClaimsHold' /\ FilingIsAuthorized'
  BY <1>1 DEF HarmIsKnown, ClaimsHold, FilingIsAuthorized
<1>9. UsedIsFiled'
  BY <1>1, <1>3 DEF FilingInv, UsedIsFiled, At
<1> QED
  BY <1>4, <1>5, <1>6, <1>7, <1>8, <1>9 DEF FilingInv

LEMMA AttestInv ==
    ASSUME FilingInv, NEW p \in Filers, Attest(p)
    PROVE  FilingInv'
<1>0. harmed \in BOOLEAN /\ filer[p] \in FilerRec
  BY DEF FilingInv, FilerTypeOK
<1>1. CASE AttestLoad(p)
  <2> DEFINE a == Max(Known)
             f == [filer[p] EXCEPT !.pc = "read", !.a = a]
  <2>1. /\ a \in Effective /\ filer' = [filer EXCEPT ![p] = f]
        /\ filer[p].pc = "idle" /\ UNCHANGED <<auth, filing, harmed, confirmed>>
    BY <1>1 DEF AttestLoad, At
  <2> HIDE DEF a
  <2>2. a \in Auths /\ auth[a].st # "none"
    BY <2>1 DEF Effective
  <2>3. f \in FilerRec /\ f.pc = "read" /\ f.a = a
    BY <1>0, <2>2 DEF FilerRec, Steps
  <2> HIDE DEF f
  <2>4. GoesOn(p, f) /\ f.pc \notin Revoking
    BY <2>1, <2>2, <2>3
       DEF GoesOn, Early, Submitted, Harming, RestsOnClaim, PastClaim, Revoking
  <2> QED
    BY <1>0, <2>1, <2>3, <2>4, LocalStep
<1>2. CASE AttestRead(p)
  <2> DEFINE now == auth[filer[p].a]
             f == [filer[p] EXCEPT !.pc = "look", !.ver = now.ver,
                                   !.here = now.st = "active"]
  <2>1. /\ filer[p].pc = "read" /\ filer[p].a \in Auths /\ now.st # "none"
        /\ now \in [st : AuthStatus, ver : Nat]
        /\ UNCHANGED <<auth, filing, harmed, confirmed>>
    BY <1>2 DEF AttestRead, At, FilingInv, OnKnown, Early, FilerTypeOK
  <2>2. CASE now.st \in {"active", "claimed"}
    <3>1. filer' = [filer EXCEPT ![p] = f]
      BY <1>2, <2>2 DEF AttestRead
    <3>2. /\ f \in FilerRec /\ f.pc = "look" /\ f.a = filer[p].a
          /\ f.here = (now.st = "active")
      BY <1>0, <2>1 DEF FilerRec, Steps
    <3> HIDE DEF f
    <3>3. GoesOn(p, f) /\ f.pc \notin Revoking
      BY <2>1, <2>2, <3>2
         DEF GoesOn, Early, Submitted, Harming, RestsOnClaim, PastClaim, Revoking
    <3> QED
      BY <1>0, <2>1, <3>1, <3>2, <3>3, LocalStep
  <2>3. CASE now.st \notin {"active", "claimed"}
    BY <1>2, <2>1, <2>3, FinishStep DEF AttestRead
  <2> QED
    BY <2>2, <2>3
<1>3. CASE AttestLook(p)
  <2>1. CASE filing[filer[p].a] # None
    BY <1>3, <2>1, FinishStep DEF AttestLook, At
  <2>2. CASE filing[filer[p].a] = None
    BY <1>0, <1>3, <2>2, GotoStep
       DEF AttestLook, At, Early, Submitted, Harming, PastClaim, Revoking, Steps
  <2> QED
    BY <2>1, <2>2
<1>4. CASE AttestClaim(p)
  BY <1>4, MoveStep
     DEF AttestClaim, At, Early, Submitted, Harming, PastClaim, Revoking, Steps,
         AuthStatus
<1>5. CASE ClaimAudit(p)
  BY <1>5, AuditedStep
     DEF ClaimAudit, At, Early, Submitted, Harming, PastClaim, Revoking, Steps
<1>6. CASE ClaimUndo(p)
  <2>1. harmed
    BY <1>6 DEF ClaimUndo, At, FilingInv, HarmIsKnown, Harming
  <2> QED
    BY <1>6, <2>1, TakeBackStep DEF ClaimUndo, At, Early, AuthStatus, TakenBack
<1>7. CASE AttestSubmit(p)
  BY <1>7, SubmitInv
<1>8. CASE MarkUsed(p)
  BY <1>8, MoveStep
     DEF MarkUsed, At, Early, Submitted, Harming, PastClaim, Revoking, Steps,
         AuthStatus
<1>9. CASE UsedAudit(p)
  BY <1>9, AuditedStep
     DEF UsedAudit, At, Early, Submitted, Harming, PastClaim, Revoking, Steps
<1>10. CASE UsedUndo(p)
  BY <1>10, TakeBackStep DEF UsedUndo, At, Early, AuthStatus, TakenBack
<1>11. CASE AttestAudit(p)
  <2>1. CASE Finish(p) /\ UNCHANGED harmed
    BY <1>11, <2>1, FinishStep DEF AttestAudit, At
  <2>2. CASE Goto(p, "delete") /\ harmed' = TRUE
    BY <1>0, <1>11, <2>2, GotoStep
       DEF AttestAudit, At, Early, Submitted, Harming, PastClaim, Revoking, Steps
  <2> QED
    BY <1>11, <2>1, <2>2 DEF AttestAudit
<1>12. CASE AttestDelete(p)
  BY <1>12, DeleteInv
<1>13. CASE AttestReset(p)
  <2>1. /\ filer[p].pc = "reset" /\ filer[p].pc \notin Early /\ harmed
        /\ UNCHANGED <<filing, harmed, confirmed>>
    BY <1>13 DEF AttestReset, At, FilingInv, HarmIsKnown, Harming, Early
  <2>2. CASE auth[filer[p].a].st # "used"
    BY <1>13, <2>1, <2>2, FinishStep DEF AttestReset
  <2>3. CASE auth[filer[p].a].st = "used"
    <3>1. PICK to \in {"active", "claimed"} : Put(p, to)
      BY <1>13, <2>3 DEF AttestReset
    <3>2. filer' = [filer EXCEPT ![p] = IdleFiler] /\ to \in AuthStatus
      BY <1>13 DEF AttestReset, Finish, AuthStatus
    <3>3. filer[p].a \in Effective /\ auth[filer[p].a].st \notin TakenBack
      BY <2>1, <2>3 DEF Effective, TakenBack, FilingInv, OnKnown
    <3> QED
      BY <2>1, <2>3, <3>1, <3>2, <3>3, IdleIsEarly, PutStep
  <2> QED
    BY <2>2, <2>3
<1> QED
  BY <1>1, <1>2, <1>3, <1>4, <1>5, <1>6, <1>7, <1>8, <1>9, <1>10, <1>11, <1>12,
     <1>13 DEF Attest

LEMMA FilingStepInv ==
    ASSUME FilingInv, [Next]_vars
    PROVE  FilingInv'
<1>1. CASE UNCHANGED filingVars
  BY <1>1
     DEF filingVars, FilingInv, FilerTypeOK, OnKnown, FreshIsFree, OneEffective,
         Effective, RevokersAlone, ConfirmedHolds, SubmittersOwn, UsedIsFiled,
         HarmIsKnown, ClaimsHold, FilingIsAuthorized, At
<1>2. ASSUME NEW p \in Filers, Grant(p) \/ Revoke(p) \/ Attest(p)
      PROVE  FilingInv'
  BY <1>2, GrantInv, RevokeInv, AttestInv
<1> QED
  BY <1>1, <1>2 DEF Next, vars

-----------------------------------------------------------------------------
(* What one handler reports of the revocation of another                   *)

ToldInv == told \subseteq Auths /\ \A a \in told : auth[a].st \in TakenBack

(* A write by the handlers other than those of RevokeUndo does not touch   *)
(* an authorization that is taken back, or leaves it so.                   *)
LEMMA PutKeepsTaken ==
    ASSUME FilingInv, NEW p \in Filers, NEW to, Put(p, to),
           auth[filer[p].a].st \notin TakenBack, UNCHANGED told, ToldInv
    PROVE  ToldInv'
  BY DEF Put, FilingInv, FilerTypeOK, ToldInv

LEMMA MoveKeepsTaken ==
    ASSUME FilingInv, NEW p \in Filers, NEW from, NEW to, NEW pc,
           Move(p, from, to, pc), from \notin TakenBack, UNCHANGED told, ToldInv
    PROVE  ToldInv'
<1>1. CASE Unmoved(p, from)
  BY <1>1, PutKeepsTaken DEF Move, Unmoved
<1>2. CASE ~Unmoved(p, from)
  BY <1>2 DEF Move, ToldInv
<1> QED
  BY <1>1, <1>2

LEMMA TakeBackKeepsTaken ==
    ASSUME FilingInv, NEW p \in Filers, NEW from, NEW to,
           TakeBack(p, from, to), from \notin TakenBack, UNCHANGED told, ToldInv
    PROVE  ToldInv'
<1>1. CASE Unmoved(p, from)
  BY <1>1, PutKeepsTaken DEF TakeBack, Unmoved
<1>2. CASE ~Unmoved(p, from)
  BY <1>2 DEF TakeBack, ToldInv
<1> QED
  BY <1>1, <1>2

LEMMA ToldStepInv ==
    ASSUME FilingInv, ToldInv, [Next]_vars
    PROVE  ToldInv'
<1>1. CASE UNCHANGED filingVars
  BY <1>1 DEF filingVars, ToldInv
<1>2. ASSUME NEW p \in Filers, Grant(p) PROVE ToldInv'
  <2>1. CASE UNCHANGED <<auth, told>>
    BY <2>1 DEF ToldInv
  <2>2. CASE GrantCreate(p) /\ Effective = {}
    <3> DEFINE a == Min(Fresh)
    <3>1. a \in Auths /\ auth[a].st = "none"
      <4>1. Fresh \in SUBSET Nat /\ Fresh # {}
        BY <2>2 DEF Fresh, Auths, GrantCreate
      <4> QED
        BY <4>1, MinAuth DEF Fresh
    <3>2. auth' = [auth EXCEPT ![a].st = "active"] /\ UNCHANGED told
      BY <2>2 DEF GrantCreate
    <3> HIDE DEF a
    <3> QED
      BY <3>1, <3>2 DEF ToldInv, FilingInv, FilerTypeOK, TakenBack
  <2>3. CASE GrantUndo(p)
    BY <2>3 DEF GrantUndo, ToldInv, FilingInv, FilerTypeOK, TakenBack
  <2> QED
    BY <1>2, <2>1, <2>2, <2>3
       DEF Grant, GrantLoad, GrantCheck, GrantCreate, GrantAudit
<1>3. ASSUME NEW p \in Filers, Revoke(p) PROVE ToldInv'
  <2>1. CASE UNCHANGED <<auth, told>>
    BY <2>1 DEF ToldInv
  <2>2. ASSUME NEW a \in Auths, RevokeKnown(p, a) PROVE ToldInv'
    BY <2>2 DEF RevokeKnown, ToldInv, TakenBack
  <2>3. CASE RevokeCommit(p)
    <3>1. CASE auth[filer[p].a].st = "revoked"
      <4>1. filer[p].a \in Auths
        BY <2>3 DEF RevokeCommit, At, FilingInv, OnKnown, Early
      <4>2. UNCHANGED auth
        BY <2>3, <3>1 DEF RevokeCommit, Move, Unmoved
      <4> QED
        BY <2>3, <3>1, <4>1, <4>2 DEF RevokeCommit, ToldInv, TakenBack
    <3>2. CASE auth[filer[p].a].st # "revoked"
      BY <2>3, <3>2, MoveKeepsTaken DEF RevokeCommit, TakenBack
    <3> QED
      BY <3>1, <3>2
  <2>4. CASE RevokeUndo(p) /\ ~UNCHANGED <<auth, told>>
    BY <2>4 DEF RevokeUndo, Put, ToldInv, FilingInv, FilerTypeOK
  <2> QED
    BY <1>3, <2>1, <2>2, <2>3, <2>4 DEF Revoke, RevokeLoad, RevokeAudit
<1>4. ASSUME NEW p \in Filers, Attest(p) PROVE ToldInv'
  <2>0. UNCHANGED told
    BY <1>4 DEF Attest, AttestLoad, AttestRead, AttestLook, AttestClaim,
         ClaimAudit, ClaimUndo, AttestSubmit, MarkUsed, UsedAudit, UsedUndo,
         AttestAudit, AttestDelete, AttestReset
  <2>1. CASE UNCHANGED auth
    BY <2>0, <2>1 DEF ToldInv
  <2>2. CASE AttestClaim(p)
    BY <2>0, <2>2, MoveKeepsTaken DEF AttestClaim, TakenBack
  <2>3. CASE ClaimUndo(p)
    BY <2>0, <2>3, TakeBackKeepsTaken DEF ClaimUndo, TakenBack
  <2>4. CASE MarkUsed(p)
    BY <2>0, <2>4, MoveKeepsTaken DEF MarkUsed, TakenBack
  <2>5. CASE UsedUndo(p)
    BY <2>0, <2>5, TakeBackKeepsTaken DEF UsedUndo, TakenBack
  <2>6. CASE AttestReset(p) /\ auth[filer[p].a].st = "used"
    BY <2>0, <2>6, PutKeepsTaken DEF AttestReset, TakenBack
  <2> QED
    BY <1>4, <2>1, <2>2, <2>3, <2>4, <2>5, <2>6
       DEF Attest, AttestLoad, AttestRead, AttestLook, ClaimAudit, AttestSubmit,
           UsedAudit, AttestAudit, AttestDelete, AttestReset
<1> QED
  BY <1>1, <1>2, <1>3, <1>4 DEF Next, vars

LEMMA ToldHolds == Spec => [](FilingInv /\ ToldInv)
<1>1. Init => ToldInv
  BY DEF Init, ToldInv
<1> QED
  BY <1>1, FilingInitInv, FilingStepInv, ToldStepInv, PTL DEF Spec

-----------------------------------------------------------------------------
(* Every document and every handler keeps its type.                        *)
THEOREM FilingTypeCorrect == Spec => []TypeOK
<1>1. FilingInv /\ ToldInv /\ CaseTypeOK => TypeOK
  BY DEF FilingInv, FilerTypeOK, FilerRec, ToldInv, TypeOK
<1> QED
  BY <1>1, ToldHolds, FilingImplementsCaseLife, CaseTypeCorrect, PTL

(* A case that waits for its filing, or is completed, has its required     *)
(* tasks done, in the composition as by itself: with the same exception.   *)
THEOREM FiledCasesAreDone == Spec => []ReadyMeansDone
  BY FilingImplementsCaseLife, ReadyCasesAreDone, PTL

(* A filing rests on an authorization that was not taken back, and a case  *)
(* is filed once, until an audit record of a grant, a claim or an          *)
(* attestation fails.                                                      *)
THEOREM FilingsAreAuthorized == Spec => [](FilingIsAuthorized /\ OneFiling)
<1>1. FilingInv => FilingIsAuthorized /\ OneFiling
  BY DEF FilingInv, FilingIsAuthorized, OneFiling, OneEffective, Effective
<1> QED
  BY <1>1, FilingInitInv, FilingStepInv, PTL DEF Spec

(* A revocation reported by the handler that made it is never undone, and  *)
(* one reported by another only by the handler that made it.               *)
THEOREM RevocationsHold == Spec => []RevocationHolds
<1>1. FilingInv /\ ToldInv => RevocationHolds
  BY DEF FilingInv, ConfirmedHolds, ToldInv, RevocationHolds, TakenBack
<1> QED
  BY <1>1, ToldHolds, PTL

(* No authorization is spent without a stored filing, whichever audit      *)
(* records fail.                                                           *)
THEOREM UsedAuthorizationsAreFiled == Spec => []UsedIsFiled
<1>1. FilingInv => UsedIsFiled
  BY DEF FilingInv
<1> QED
  BY <1>1, FilingInitInv, FilingStepInv, PTL DEF Spec
=============================================================================
