--------------------------- MODULE ClaimTransfer ---------------------------
(***************************************************************************)
(* A human redeems a claim code: POST /claim takes every pre-claim secret  *)
(* away and only then creates the transfer request whose URL the human is  *)
(* redirected to; the human accepts the transfer in the Neon console.      *)
(***************************************************************************)
EXTENDS RegistrationStore

MaxRotations == 3    \* `attempt < 3` in rotateAndQuiesceProjectRoles

SubmitSteps == {"submitWait", "freeze", "setPending", "revokeKey", "markKey",
                "resetRoles", "disable", "compare", "reenable", "markDerived",
                "revokeAccess", "enable", "createTransfer", "startTransfer"}

(* The project answers the organization key; otherwise the call is a 404. *)
InHolding == owner = "holding"

-----------------------------------------------------------------------------
(* findPendingClaimByCode, before the wait for the lock. *)
SubmitFind(w) ==
  /\ pc[w] = "idle"
  /\ \E a \in AttemptIds :
       /\ attState[a] = "pending"
       /\ GotoWith(w, "submitWait", [NoLocals EXCEPT !.att = a])
  /\ UNCHANGED <<registrationVars, secretVars, tokenVars, attemptVars,
                 projectVars, databaseVars>>

(* Wrong variant: the code is the one that was found before the wait. *)
StillRedeemableAsFound(a) == a \in AttemptIds

(* Under the lock: the code must still be the latest attempt's, and pending. *)
StillRedeemable(a) == a = Latest /\ attState[a] = "pending"

(* An expired code is recorded as such before the registration is looked at. *)
SubmitExpired(w) ==
  LET a == mine[w].att IN
  /\ pc[w] = "submitWait"
  /\ lock = NoOne
  /\ StillRedeemable(a)
  /\ Expired(a)
  /\ attState' = [attState EXCEPT ![a] = "expired"]
  /\ Finish(w)
  /\ UNCHANGED <<registrationVars, secretVars, tokenVars, attempts, attOffered,
                 attExpires, projectVars, databaseVars>>

(* Wrong variant: a second submit prepares the transfer again. *)
NeedsTransferAlways(a) == a \in AttemptIds

(* beginClaimTransfer does nothing for an attempt that has its transfer
   request: the human is redirected to it again. *)
NeedsTransfer(a) == ~attOffered[a]

(* Wrong variant: the transfer request comes before the teardown. *)
SubmitBeginOfferFirst(w) ==
  LET a == mine[w].att IN
  /\ pc[w] = "submitWait"
  /\ StillRedeemable(a)
  /\ ~Expired(a)
  /\ Usable
  /\ NeedsTransfer(a)
  /\ Acquire(w, "createTransfer", [NoLocals EXCEPT !.att = a])
  /\ UNCHANGED <<registrationVars, secretVars, tokenVars, attemptVars,
                 projectVars, databaseVars>>

SubmitBegin(w) ==
  LET a == mine[w].att IN
  /\ pc[w] = "submitWait"
  /\ StillRedeemable(a)
  /\ ~Expired(a)
  /\ Usable
  /\ NeedsTransfer(a)
  /\ Acquire(w, "freeze", [NoLocals EXCEPT !.att = a])
  /\ UNCHANGED <<registrationVars, secretVars, tokenVars, attemptVars,
                 projectVars, databaseVars>>

FreezeIssuance(w) ==
  /\ pc[w] = "freeze"
  /\ Holds(w)
  /\ frozen' = TRUE
  /\ Goto(w, "setPending")
  /\ UNCHANGED <<claimState, revoked, secretVars, tokenVars, attemptVars,
                 projectVars, databaseVars>>

(* Wrong variant: the key is taken for revoked without asking its row. *)
SetPendingKeepsKey(w) ==
  /\ pc[w] = "setPending"
  /\ Holds(w)
  /\ claimState' = "pending"
  /\ Goto(w, "resetRoles")
  /\ UNCHANGED <<frozen, revoked, secretVars, tokenVars, attemptVars,
                 projectVars, databaseVars>>

(* setClaimState, then prepareClaimTransfer reads the stored key. *)
SetPending(w) ==
  /\ pc[w] = "setPending"
  /\ Holds(w)
  /\ claimState' = "pending"
  /\ Goto(w, IF keyMarked THEN "resetRoles" ELSE "revokeKey")
  /\ UNCHANGED <<frozen, revoked, secretVars, tokenVars, attemptVars,
                 projectVars, databaseVars>>

-----------------------------------------------------------------------------
(* prepareClaimTransfer *)

(* A key that is already gone (404) is as good as revoked. *)
RevokeKey(w) ==
  /\ pc[w] = "revokeKey"
  /\ keyLive' = FALSE
  /\ Goto(w, "markKey")
  /\ UNCHANGED <<registrationVars, secretVars, tokenVars, attemptVars,
                 owner, databaseVars>>

MarkKey(w) ==
  /\ pc[w] = "markKey"
  /\ Holds(w)
  /\ keyMarked' = TRUE
  /\ Goto(w, "resetRoles")
  /\ UNCHANGED <<registrationVars, derivedLive, tokenVars, attemptVars,
                 projectVars, databaseVars>>

(* resetProjectRolePasswords: every password changes, and the answers are the
   snapshot this worker compares with later. An open session stays open. *)
ResetRoles(w) ==
  /\ pc[w] = "resetRoles"
  /\ InHolding
  /\ knownPw' = FALSE
  /\ fresh' = {w}
  /\ pc' = [pc EXCEPT ![w] = "disable"]
  /\ UNCHANGED <<lock, mine, now, registrationVars, secretVars, tokenVars,
                 attemptVars, projectVars, computeOn, session>>

(* setProjectEndpointsDisabled(true) ends every session. *)
DisableCompute(w) ==
  /\ pc[w] = "disable"
  /\ InHolding
  /\ computeOn' = FALSE
  /\ session' = FALSE
  /\ Goto(w, "compare")
  /\ UNCHANGED <<registrationVars, secretVars, tokenVars, attemptVars,
                 projectVars, knownPw>>

(* Wrong variant: the roles are not compared after the compute is off. *)
SameRoleStateSkipped(w) == pc[w] = "compare"

(* sameRoleState: the roles are still the ones the reset returned. *)
SameRoleState(w) == w \in fresh

RolesUnchanged(w) ==
  /\ pc[w] = "compare"
  /\ InHolding
  /\ SameRoleState(w)
  /\ Goto(w, "markDerived")
  /\ UNCHANGED <<registrationVars, secretVars, tokenVars, attemptVars,
                 projectVars, databaseVars>>

(* Wrong variant: one rotation more than the loop allows. *)
RolesChangedOnceMore(w) ==
  /\ pc[w] = "compare"
  /\ InHolding
  /\ ~SameRoleState(w)
  /\ mine[w].tries + 1 <= MaxRotations
  /\ GotoWith(w, "reenable", [mine[w] EXCEPT !.tries = @ + 1])
  /\ UNCHANGED <<registrationVars, secretVars, tokenVars, attemptVars,
                 projectVars, databaseVars>>

(* A session raced the rotation. The last failure leaves the compute off. *)
RolesChanged(w) ==
  /\ pc[w] = "compare"
  /\ InHolding
  /\ ~SameRoleState(w)
  /\ mine[w].tries + 1 < MaxRotations
  /\ GotoWith(w, "reenable", [mine[w] EXCEPT !.tries = @ + 1])
  /\ UNCHANGED <<registrationVars, secretVars, tokenVars, attemptVars,
                 projectVars, databaseVars>>

Reenable(w) ==
  /\ pc[w] = "reenable"
  /\ InHolding
  /\ computeOn' = TRUE
  /\ Goto(w, "resetRoles")
  /\ UNCHANGED <<registrationVars, secretVars, tokenVars, attemptVars,
                 projectVars, knownPw, session>>

MarkDerived(w) ==
  /\ pc[w] = "markDerived"
  /\ Holds(w)
  /\ derivedLive' = FALSE
  /\ Goto(w, "revokeAccess")
  /\ UNCHANGED <<registrationVars, keyMarked, tokenVars, attemptVars,
                 projectVars, databaseVars>>

RevokeAccess(w) ==
  /\ pc[w] = "revokeAccess"
  /\ Holds(w)
  /\ accessLive' = {}
  /\ Goto(w, "enable")
  /\ UNCHANGED <<registrationVars, secretVars, assertionLive, attemptVars,
                 projectVars, databaseVars>>

EnableCompute(w) ==
  /\ pc[w] = "enable"
  /\ InHolding
  /\ computeOn' = TRUE
  /\ Goto(w, "createTransfer")
  /\ UNCHANGED <<registrationVars, secretVars, tokenVars, attemptVars,
                 projectVars, knownPw, session>>

-----------------------------------------------------------------------------
(* createProjectTransferRequest. Until it is recorded nobody knows its id, so
   a transfer request whose handler stops here can never be accepted. *)
CreateTransfer(w) ==
  /\ pc[w] = "createTransfer"
  /\ InHolding
  /\ GotoWith(w, "startTransfer", [mine[w] EXCEPT !.offer = now + AttemptTTL])
  /\ UNCHANGED <<registrationVars, secretVars, tokenVars, attemptVars,
                 projectVars, databaseVars>>

(* startClaimTransfer, and the redirect that shows the URL. *)
StartTransfer(w) ==
  LET a == mine[w].att IN
  /\ pc[w] = "startTransfer"
  /\ Holds(w)
  /\ attState[a] = "pending"
  /\ attOffered' = [attOffered EXCEPT ![a] = TRUE]
  /\ attExpires' = [attExpires EXCEPT ![a] = mine[w].offer]
  /\ Finish(w)
  /\ UNCHANGED <<registrationVars, secretVars, tokenVars, attempts, attState,
                 projectVars, databaseVars>>

(* The human accepts at Neon (external), which looks at the transfer request
   and the project only. *)
AcceptTransfer ==
  /\ owner = "holding"
  /\ \E a \in AttemptIds : attOffered[a] /\ ~Expired(a)
  /\ owner' = "human"
  /\ UNCHANGED <<registrationVars, secretVars, tokenVars, attemptVars, keyLive,
                 databaseVars, handlerVars, now>>

-----------------------------------------------------------------------------
SubmitProgress(w) ==
  \/ SubmitExpired(w) \/ SubmitBegin(w) \/ FreezeIssuance(w) \/ SetPending(w)
  \/ RevokeKey(w) \/ MarkKey(w) \/ ResetRoles(w) \/ DisableCompute(w)
  \/ RolesUnchanged(w) \/ RolesChanged(w) \/ Reenable(w) \/ MarkDerived(w)
  \/ RevokeAccess(w) \/ EnableCompute(w) \/ CreateTransfer(w) \/ StartTransfer(w)

SubmitNext ==
  \/ AcceptTransfer
  \/ \E w \in Workers : SubmitFind(w) \/ SubmitProgress(w)
=============================================================================
