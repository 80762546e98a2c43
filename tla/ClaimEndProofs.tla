--------------------------- MODULE ClaimEndProofs ---------------------------
(***************************************************************************)
(* Theorems about how a registration of ClaimCeremony ends: nothing is     *)
(* left to revoke behind a terminal state, a claimed project is neither    *)
(* deleted nor recorded as purged, an accepted attempt is a project that   *)
(* moved, and the whole ceremony implements ClaimPromise.                  *)
(***************************************************************************)
EXTENDS ClaimCeremonyProofs

-----------------------------------------------------------------------------
(* What a handler that ends the registration found or did before. All of it
   stays true whatever the others do, so nobody needs the lock for it. *)

EndAt(step) ==
  /\ step \in {"delKey", "delTokens", "delMark", "delRegistration"} => owner = "deleted"
  /\ step \in {"delMark", "delRegistration"} => ~assertionLive
  /\ step = "delRegistration" => keyMarked
  /\ step \in {"purgeKey", "purgeCommit"} => owner # "holding"
  /\ step \in PollSteps => Offered
  /\ step \in PollSteps \ {"pollOwner"} => owner # "holding"

(* What the rows say of a project: it left the holding organization before any
   of them says that the claim, or the registration, is over. *)
EndRows ==
  /\ \A a \in AttemptIds :
       attState[a] \in {"accepted", "reconciled"} => owner # "holding" /\ Offered
  /\ claimState \in {"accepted", "reconciled"} => owner # "holding"
  /\ revoked # "no" => owner # "holding"
  /\ ~frozen /\ owner = "holding" => keyLive
  /\ TerminalIsComplete

EndInv == EndRows /\ \A w \in Workers : EndAt(pc[w])

(* What no step takes back. *)
OnlyEnds ==
  /\ owner # "holding" => owner' # "holding"
  /\ owner = "deleted" => owner' = "deleted"
  /\ ~assertionLive => ~assertionLive'
  /\ keyMarked => keyMarked'
  /\ Offered => Offered'

(* The part of the state the ends are about. *)
endVars == <<frozen, claimState, revoked, keyMarked, assertionLive, attState,
             attOffered, owner, keyLive>>

(* Steps that ask nothing. *)
EarlySteps == Steps \ ({"delKey", "delTokens", "delMark", "delRegistration",
                        "purgeKey", "purgeCommit"} \cup PollSteps)

(* The steps that ask nothing, by name. *)
LEMMA EarlyNamed ==
  {"idle", "exchangeRead", "exchangeRecord", "opCall", "opRecord", "delProject",
   "issueWait", "issueOwner", "issueClose", "issueInsert", "submitWait", "freeze",
   "setPending", "revokeKey", "markKey", "resetRoles", "disable", "compare",
   "reenable", "markDerived", "revokeAccess", "enable", "createTransfer",
   "startTransfer", "purgeOwner", "purgeDelete"} \subseteq EarlySteps
BY DEF EarlySteps, Steps, AgentSteps, IssueSteps, SubmitSteps, PollSteps, PurgeSteps

(* A worker may be at any of them. *)
LEMMA EarlyEnds ==
  ASSUME NEW step \in EarlySteps
  PROVE  EndAt(step) /\ EndAt(step)'
BY DEF EarlySteps, EndAt

(* A move that takes nothing back, to a step the worker may be at. *)
LEMMA EndMove ==
  ASSUME TypeOK, EndInv, NEW w \in Workers, NEW step, MovesTo(w, step),
         OnlyEnds, EndRows', EndAt(step)'
  PROVE  EndInv'
BY DEF EndInv, EndAt, OnlyEnds, MovesTo, TypeOK, HandlersTyped

(* A move that leaves the ends alone. *)
LEMMA EndAside ==
  ASSUME TypeOK, EndInv, NEW w \in Workers, NEW step, MovesTo(w, step),
         UNCHANGED endVars, EndAt(step)
  PROVE  EndInv'
<1> USE DEF endVars
<1>1. OnlyEnds /\ EndRows' /\ EndAt(step)'
  BY DEF EndInv, OnlyEnds, EndRows, EndAt, TerminalIsComplete, Offered
<1> QED  BY <1>1, EndMove

(* The agent deletes its project first, then what opened it. *)
LEMMA AgentEnds ==
  ASSUME TypeOK, TeardownInv, EndInv, NEW w \in Workers,
         ExchangeVerify(w) \/ OpBegin(w) \/ DeleteBegin(w) \/ AgentProgress(w)
  PROVE  EndInv'
<1> USE DEF registrationVars, secretVars, tokenVars, attemptVars, projectVars
<1>1. CASE \/ ExchangeVerify(w) \/ OpBegin(w) \/ DeleteBegin(w) \/ ExchangeRead(w)
           \/ ExchangeRecord(w) \/ OpCall(w) \/ HandOutRecorded(w) \/ HandOutUnrecorded(w)
  <2>1. UNCHANGED endVars
    BY <1>1 DEF endVars, ExchangeVerify, OpBegin, DeleteBegin, ExchangeRead, ExchangeRecord,
       OpCall, HandOutRecorded, HandOutUnrecorded
  <2>2. PICK step \in EarlySteps : MovesTo(w, step)
    BY <1>1, HelpersMove, EarlyNamed DEF ExchangeVerify, OpBegin, DeleteBegin, ExchangeRead,
       ExchangeRecord, OpCall, HandOutRecorded, HandOutUnrecorded
  <2> QED  BY <2>1, <2>2, EarlyEnds, EndAside
<1>2. CASE DeleteProject(w)
  <2>1. MovesTo(w, "delKey") /\ OnlyEnds /\ EndAt("delKey")'
    BY <1>2, HelpersMove DEF DeleteProject, OnlyEnds, EndAt, PollSteps, Offered
  <2>2. EndRows'
    BY <1>2 DEF DeleteProject, EndInv, EndRows, TerminalIsComplete
  <2> QED  BY <2>1, <2>2, EndMove
<1>3. CASE DeleteKey(w)
  <2>1. owner = "deleted"
    BY <1>3 DEF DeleteKey, EndInv, EndAt
  <2>2. MovesTo(w, "delTokens") /\ OnlyEnds /\ EndAt("delTokens")'
    BY <1>3, <2>1, HelpersMove DEF DeleteKey, OnlyEnds, EndAt, PollSteps, Offered
  <2>3. EndRows'
    BY <1>3, <2>1 DEF DeleteKey, EndInv, EndRows, TerminalIsComplete, Offered
  <2> QED  BY <2>2, <2>3, EndMove
<1>4. CASE DeleteTokens(w)
  <2>1. owner = "deleted"
    BY <1>4 DEF DeleteTokens, EndInv, EndAt
  <2>2. MovesTo(w, "delMark") /\ OnlyEnds /\ EndAt("delMark")'
    BY <1>4, <2>1, HelpersMove DEF DeleteTokens, OnlyEnds, EndAt, PollSteps, Offered
  <2>3. EndRows'
    BY <1>4, <2>1 DEF DeleteTokens, EndInv, EndRows, TerminalIsComplete, Offered
  <2> QED  BY <2>2, <2>3, EndMove
<1>5. CASE DeleteMark(w)
  <2>1. owner = "deleted" /\ ~assertionLive
    BY <1>5 DEF DeleteMark, EndInv, EndAt
  <2>2. MovesTo(w, "delRegistration") /\ OnlyEnds /\ EndAt("delRegistration")'
    BY <1>5, <2>1, HelpersMove DEF DeleteMark, OnlyEnds, EndAt, PollSteps, Offered
  <2>3. EndRows'
    BY <1>5, <2>1 DEF DeleteMark, EndInv, EndRows, TerminalIsComplete, Offered
  <2> QED  BY <2>2, <2>3, EndMove
<1>6. CASE DeleteRegistration(w)
  <2>1. owner = "deleted" /\ ~assertionLive /\ keyMarked /\ ~keyLive
    BY <1>6 DEF DeleteRegistration, EndInv, EndAt, TeardownInv, KeyInv
  <2>2. MovesTo(w, "idle") /\ OnlyEnds
    BY <1>6, HelpersMove DEF DeleteRegistration, OnlyEnds, Offered
  <2>3. EndRows'
    BY <1>6, <2>1 DEF DeleteRegistration, EndInv, EndRows, TerminalIsComplete, Offered
  <2> QED  BY <2>2, <2>3, EarlyNamed, EarlyEnds, EndMove
<1> QED  BY <1>1, <1>2, <1>3, <1>4, <1>5, <1>6 DEF AgentProgress

(* Of what the agent does besides, only the revocation of its assertion counts,
   and that is never undone. *)
LEMMA AgentMovesEnd ==
  ASSUME EndInv, RevokeToken \/ Connect \/ AlterRoles
  PROVE  EndInv'
<1> USE DEF registrationVars, secretVars, attemptVars, projectVars, handlerVars
<1>1. /\ UNCHANGED <<frozen, claimState, revoked, keyMarked, attState, attOffered, owner,
                     keyLive, pc>>
      /\ ~assertionLive => ~assertionLive'
  BY DEF RevokeToken, Connect, AlterRoles, tokenVars
<1> QED  BY <1>1 DEF EndInv, EndRows, EndAt, TerminalIsComplete, Offered

(* A code is minted, or closed, without any attempt being accepted. *)
LEMMA IssueEnds ==
  ASSUME TypeOK, EndInv, NEW w \in Workers, IssueVerify(w) \/ IssueProgress(w)
  PROVE  EndInv'
<1> USE DEF registrationVars, secretVars, tokenVars, attemptVars, projectVars
<1>1. CASE IssueVerify(w) \/ IssueDecide(w) \/ IssueOwner(w)
  <2>1. UNCHANGED endVars
    BY <1>1 DEF endVars, IssueVerify, IssueDecide, IssueOwner
  <2>2. PICK step \in EarlySteps : MovesTo(w, step)
    BY <1>1, HelpersMove, EarlyNamed DEF IssueVerify, IssueDecide, IssueOwner, AfterDecision
  <2> QED  BY <2>1, <2>2, EarlyEnds, EndAside
<1>2. CASE IssueClose(w) \/ IssueInsert(w)
  <2>1. PICK step \in EarlySteps : MovesTo(w, step)
    BY <1>2, HelpersMove, EarlyNamed DEF IssueClose, IssueInsert
  <2>2. \A a \in AttemptIds : attState'[a] \in {"accepted", "reconciled"} => attState'[a] = attState[a]
    BY <1>2 DEF IssueClose, IssueInsert, TypeOK, AttemptsTyped
  <2>3. UNCHANGED <<frozen, claimState, revoked, keyMarked, assertionLive, attOffered, owner, keyLive>>
    BY <1>2 DEF IssueClose, IssueInsert
  <2>4. OnlyEnds /\ EndRows'
    BY <2>2, <2>3 DEF OnlyEnds, EndInv, EndRows, TerminalIsComplete, Offered
  <2> QED  BY <2>1, <2>4, EarlyEnds, EndMove
<1> QED  BY <1>1, <1>2 DEF IssueProgress

(* A submission revokes the key of a frozen registration and offers a project,
   it ends nothing. *)
LEMMA SubmitEnds ==
  ASSUME TypeOK, TeardownInv, EndInv, NEW w \in Workers, SubmitFind(w) \/ SubmitProgress(w)
  PROVE  EndInv'
<1> USE DEF registrationVars, secretVars, tokenVars, attemptVars, projectVars
<1>1. CASE \/ SubmitFind(w) \/ SubmitBegin(w) \/ ResetRoles(w) \/ DisableCompute(w)
           \/ RolesUnchanged(w) \/ RolesChanged(w) \/ Reenable(w) \/ MarkDerived(w)
           \/ RevokeAccess(w) \/ EnableCompute(w) \/ CreateTransfer(w)
  <2>1. UNCHANGED endVars
    BY <1>1 DEF endVars, SubmitFind, SubmitBegin, ResetRoles, DisableCompute, RolesUnchanged,
       RolesChanged, Reenable, MarkDerived, RevokeAccess, EnableCompute, CreateTransfer
  <2>2. PICK step \in EarlySteps : MovesTo(w, step)
    <3>1. CASE ResetRoles(w)
      BY <3>1, EarlyNamed DEF ResetRoles, MovesTo
    <3>2. CASE SubmitFind(w) \/ SubmitBegin(w) \/ DisableCompute(w) \/ RolesUnchanged(w)
      BY <3>2, HelpersMove, EarlyNamed DEF SubmitFind, SubmitBegin, DisableCompute, RolesUnchanged
    <3>3. CASE RolesChanged(w) \/ Reenable(w) \/ MarkDerived(w)
      BY <3>3, HelpersMove, EarlyNamed DEF RolesChanged, Reenable, MarkDerived
    <3>4. CASE RevokeAccess(w) \/ EnableCompute(w) \/ CreateTransfer(w)
      BY <3>4, HelpersMove, EarlyNamed DEF RevokeAccess, EnableCompute, CreateTransfer
    <3> QED  BY <1>1, <3>1, <3>2, <3>3, <3>4
  <2> QED  BY <2>1, <2>2, EarlyEnds, EndAside
<1>2. CASE SubmitExpired(w) \/ StartTransfer(w)
  <2>1. MovesTo(w, "idle")
    BY <1>2, HelpersMove DEF SubmitExpired, StartTransfer
  <2>2. \A a \in AttemptIds : /\ attState'[a] \in {"accepted", "reconciled"} => attState'[a] = attState[a]
                              /\ attOffered[a] => attOffered'[a]
    BY <1>2 DEF SubmitExpired, StartTransfer, TypeOK, AttemptsTyped
  <2>3. UNCHANGED <<frozen, claimState, revoked, keyMarked, assertionLive, owner, keyLive>>
    BY <1>2 DEF SubmitExpired, StartTransfer
  <2>4. OnlyEnds /\ EndRows'
    BY <2>2, <2>3 DEF OnlyEnds, EndInv, EndRows, TerminalIsComplete, Offered
  <2> QED  BY <2>1, <2>4, EarlyNamed, EarlyEnds, EndMove
<1>3. CASE FreezeIssuance(w) \/ SetPending(w)
  <2>1. PICK step \in EarlySteps : MovesTo(w, step)
    BY <1>3, HelpersMove, EarlyNamed DEF FreezeIssuance, SetPending
  <2>2. OnlyEnds /\ EndRows'
    BY <1>3 DEF FreezeIssuance, SetPending, OnlyEnds, EndInv, EndRows, TerminalIsComplete, Offered
  <2> QED  BY <2>1, <2>2, EarlyEnds, EndMove
<1>4. CASE RevokeKey(w) \/ MarkKey(w)
  <2>1. PICK step \in EarlySteps : MovesTo(w, step)
    BY <1>4, HelpersMove, EarlyNamed DEF RevokeKey, MarkKey
  <2>2. frozen
    BY <1>4 DEF RevokeKey, MarkKey, TeardownInv, FreezeInv, FrozenSteps, SubmitSteps
  <2>3. /\ UNCHANGED <<frozen, claimState, revoked, assertionLive, attState, attOffered, owner>>
        /\ keyMarked => keyMarked'
        /\ keyLive' => keyLive
    BY <1>4 DEF RevokeKey, MarkKey
  <2>4. OnlyEnds /\ EndRows'
    BY <2>2, <2>3 DEF OnlyEnds, EndInv, EndRows, TerminalIsComplete, Offered
  <2> QED  BY <2>1, <2>4, EarlyEnds, EndMove
<1> QED  BY <1>1, <1>2, <1>3, <1>4 DEF SubmitProgress

(* The human takes the project. *)
LEMMA AcceptEnds ==
  ASSUME EndInv, AcceptTransfer
  PROVE  EndInv'
<1> USE DEF registrationVars, secretVars, tokenVars, attemptVars, handlerVars
<1>1. /\ UNCHANGED <<frozen, claimState, revoked, keyMarked, assertionLive, attState,
                     attOffered, keyLive, pc>>
      /\ owner = "holding" /\ owner' = "human"
  BY DEF AcceptTransfer
<1> QED  BY <1>1 DEF EndInv, EndRows, EndAt, TerminalIsComplete, Offered

(* A poll accepts, or reconciles, what Neon no longer lists as held; the key was
   dead and marked before the offer. *)
LEMMA PollEnds ==
  ASSUME TypeOK, TeardownInv, EndInv, NEW w \in Workers,
         PollExpired(w) \/ PollPending(w) \/ PollAccepted(w) \/ PollProgress(w)
  PROVE  EndInv'
<1> USE DEF registrationVars, secretVars, tokenVars, attemptVars, projectVars
<1>1. CASE PollExpired(w)
  <2>1. MovesTo(w, "idle")
    BY <1>1, HelpersMove DEF PollExpired
  <2>2. \A a \in AttemptIds : attState'[a] \in {"accepted", "reconciled"} => attState'[a] = attState[a]
    BY <1>1 DEF PollExpired, TypeOK, AttemptsTyped
  <2>3. OnlyEnds /\ EndRows'
    BY <1>1, <2>2 DEF PollExpired, OnlyEnds, EndInv, EndRows, TerminalIsComplete, Offered
  <2> QED  BY <2>1, <2>3, EarlyNamed, EarlyEnds, EndMove
<1>2. CASE PollPending(w) \/ PollAccepted(w) \/ PollOwner(w)
  <2>1. HasAttempt => Latest \in AttemptIds
    BY StoreAssumption DEF HasAttempt, Latest, AttemptIds, TypeOK, AttemptsTyped
  <2>2. PICK step : MovesTo(w, step) /\ EndAt(step)
    <3>1. CASE PollPending(w)
      <4>1. MovesTo(w, "pollOwner") /\ Offered
        BY <2>1, <3>1, HelpersMove DEF PollPending, Offered
      <4> QED  BY <4>1 DEF EndAt
    <3>2. CASE PollAccepted(w)
      <4>1. MovesTo(w, "pollReconcile") /\ Offered /\ owner # "holding"
        BY <2>1, <3>2, HelpersMove DEF PollAccepted, EndInv, EndRows
      <4> QED  BY <4>1 DEF EndAt
    <3>3. CASE PollOwner(w)
      <4>1. MovesTo(w, "pollMarkAttempt") /\ Offered /\ owner # "holding"
        BY <3>3, HelpersMove DEF PollOwner, LooksMoved, EndInv, EndAt, PollSteps
      <4> QED  BY <4>1 DEF EndAt
    <3> QED  BY <1>2, <3>1, <3>2, <3>3
  <2>3. UNCHANGED endVars
    BY <1>2 DEF PollPending, PollAccepted, PollOwner, endVars
  <2> QED  BY <2>2, <2>3, EndAside
<1>3. CASE PollMarkAttempt(w) \/ PollMarkRegistration(w) \/ PollReconcile(w)
  <2>1. Offered /\ owner # "holding" /\ keyMarked /\ ~keyLive
    BY <1>3 DEF PollMarkAttempt, PollMarkRegistration, PollReconcile, EndInv, EndAt, PollSteps,
       TeardownInv, OfferInv, KeyInv
  <2>2. PICK step \in PollSteps \cup {"idle"} : MovesTo(w, step)
    BY <1>3, HelpersMove DEF PollMarkAttempt, PollMarkRegistration, PollReconcile, PollSteps
  <2>3. /\ UNCHANGED <<frozen, revoked, keyMarked, attOffered, owner, keyLive>>
        /\ ~assertionLive => ~assertionLive'
        /\ claimState' = "reconciled" => claimState = "reconciled" \/ ~assertionLive'
    BY <1>3 DEF PollMarkAttempt, PollMarkRegistration, PollReconcile
  <2>4. OnlyEnds /\ EndRows' /\ EndAt(step)'
    BY <2>1, <2>3 DEF OnlyEnds, EndInv, EndRows, EndAt, TerminalIsComplete, Offered, PollSteps
  <2> QED  BY <2>2, <2>4, EndMove
<1> QED  BY <1>1, <1>2, <1>3 DEF PollProgress

(* The janitor revokes the key of a project that is gone or claimed, and records
   the end in one transaction with the tokens. *)
LEMMA PurgeEnds ==
  ASSUME TypeOK, TeardownInv, EndInv, NEW w \in Workers, PurgeBegin(w) \/ PurgeProgress(w)
  PROVE  EndInv'
<1> USE DEF registrationVars, secretVars, tokenVars, attemptVars, projectVars
<1>1. CASE PurgeBegin(w)
  <2>1. MovesTo(w, "purgeOwner") /\ UNCHANGED endVars
    BY <1>1, HelpersMove DEF PurgeBegin, endVars
  <2> QED  BY <2>1, EarlyNamed, EarlyEnds, EndAside
<1>2. CASE PurgeOwner(w)
  <2>1. UNCHANGED endVars
    BY <1>2 DEF PurgeOwner, endVars
  <2>2. PICK step \in {"purgeDelete", "purgeKey"} : MovesTo(w, step) /\ (step = "purgeKey" => owner # "holding")
    BY <1>2, HelpersMove DEF PurgeOwner, PurgeDecision
  <2>3. EndAt(step)
    BY <2>2 DEF EndAt, PollSteps
  <2> QED  BY <2>1, <2>2, <2>3, EndAside
<1>3. CASE PurgeDelete(w)
  <2>1. MovesTo(w, "purgeKey")
    BY <1>3, HelpersMove DEF PurgeDelete
  <2>2. OnlyEnds /\ EndAt("purgeKey")'
    BY <1>3 DEF PurgeDelete, OnlyEnds, EndAt, PollSteps, Offered
  <2>3. EndRows'
    BY <1>3 DEF PurgeDelete, EndInv, EndRows, TerminalIsComplete, Offered
  <2> QED  BY <2>1, <2>2, <2>3, EndMove
<1>4. CASE PurgeKey(w)
  <2>1. owner # "holding"
    BY <1>4 DEF PurgeKey, EndInv, EndAt
  <2>2. MovesTo(w, "purgeCommit") /\ OnlyEnds /\ EndAt("purgeCommit")'
    BY <1>4, <2>1, HelpersMove DEF PurgeKey, OnlyEnds, EndAt, PollSteps, Offered
  <2>3. EndRows'
    BY <1>4, <2>1 DEF PurgeKey, EndInv, EndRows, TerminalIsComplete, Offered
  <2> QED  BY <2>2, <2>3, EndMove
<1>5. CASE PurgeCommit(w)
  <2>1. owner # "holding" /\ ~keyLive
    BY <1>5 DEF PurgeCommit, EndInv, EndAt, TeardownInv, KeyInv, KeyDeadSteps
  <2>2. MovesTo(w, "idle") /\ OnlyEnds
    BY <1>5, HelpersMove DEF PurgeCommit, OnlyEnds, Offered
  <2>3. EndRows'
    BY <1>5, <2>1 DEF PurgeCommit, EndInv, EndRows, TerminalIsComplete, Offered
  <2> QED  BY <2>2, <2>3, EarlyNamed, EarlyEnds, EndMove
<1> QED  BY <1>1, <1>2, <1>3, <1>4, <1>5 DEF PurgeProgress

(* A handler that fails, a backend that drops and the clock end nothing. *)
LEMMA EnvironmentEnds ==
  ASSUME TypeOK, EndInv, (\E w \in Workers : Abort(w) \/ DropBackend(w)) \/ Tick
  PROVE  EndInv'
<1> USE DEF registrationVars, secretVars, tokenVars, attemptVars, projectVars, handlerVars
<1>1. ASSUME NEW w \in Workers, Abort(w)  PROVE EndInv'
  <2>1. MovesTo(w, "idle") /\ UNCHANGED endVars
    BY <1>1, HelpersMove DEF Abort, endVars
  <2> QED  BY <2>1, EarlyNamed, EarlyEnds, EndAside
<1>2. CASE (\E w \in Workers : DropBackend(w)) \/ Tick
  <2>1. UNCHANGED <<endVars, pc>>
    BY <1>2 DEF DropBackend, Tick, endVars
  <2> QED  BY <2>1 DEF EndInv, EndRows, EndAt, TerminalIsComplete, Offered, endVars
<1> QED  BY <1>1, <1>2

(* At first nothing has ended. *)
LEMMA InitEnds == Init => EndInv
BY DEF Init, StoreInit, EndInv, EndRows, EndAt, TerminalIsComplete, PollSteps

(* Every step keeps what the ends rest on. *)
LEMMA NextEnds == TypeOK /\ TeardownInv /\ EndInv /\ [Next]_vars => EndInv'
<1> SUFFICES ASSUME TypeOK, TeardownInv, EndInv, [Next]_vars PROVE EndInv'
  OBVIOUS
<1>1. CASE AgentNext
  BY <1>1, AgentEnds, AgentMovesEnd DEF AgentNext
<1>2. CASE IssueNext
  BY <1>2, IssueEnds DEF IssueNext
<1>3. CASE SubmitNext
  BY <1>3, SubmitEnds, AcceptEnds DEF SubmitNext
<1>4. CASE PollNext
  BY <1>4, PollEnds DEF PollNext
<1>5. CASE PurgeNext
  BY <1>5, PurgeEnds DEF PurgeNext
<1>6. CASE (\E w \in Workers : Abort(w) \/ DropBackend(w)) \/ Tick
  BY <1>6, EnvironmentEnds
<1>7. CASE UNCHANGED vars
  BY <1>7 DEF vars, EndInv, EndRows, EndAt, TerminalIsComplete, Offered
<1> QED  BY <1>1, <1>2, <1>3, <1>4, <1>5, <1>6, <1>7 DEF Next

(* No row says that a claim or a registration is over before the project has
   left the holding organization. *)
THEOREM EndsStepByStep == Spec => []EndInv
<1>1. Init => EndInv
  BY InitEnds
<1>2. TypeOK /\ TeardownInv /\ EndInv /\ [Next]_vars => EndInv'
  BY NextEnds
<1> QED  BY <1>1, <1>2, TypeCorrect, TeardownStepByStep, PTL DEF Spec

(* Nothing is left to revoke behind a registration in a terminal state, whoever
   ended it: neither its assertion nor its project key. *)
THEOREM EndsComplete == Spec => []TerminalIsComplete
<1>1. EndInv => TerminalIsComplete
  BY DEF EndInv, EndRows
<1> QED  BY <1>1, EndsStepByStep, PTL

-----------------------------------------------------------------------------
(* The clock. The last transfer request of a registration expires before the
   retention period is over, provided that the retention period is that long:
   a redeeming handler takes the lock before the registration expires, runs for
   at most HandlerTime, and creates a request that lives for AttemptTTL. *)

(* No transfer request can be accepted at this instant or later. *)
LastOffer == ProjectTTL + HandlerTime + AttemptTTL

(* What the theorems about the clock suppose of the settings. *)
RetentionOutlastsOffers == Retention >= LastOffer

(* The steps of a handler that has not taken the lock. *)
OutsideSteps == {"idle", "issueWait", "submitWait", "exchangeRead", "exchangeRecord"}

(* What a worker knows of the clock, and a janitor run of the owner. *)
TimeOf(w) ==
  /\ InLock(w) => now <= mine[w].since + HandlerTime
  /\ pc[w] \in RedeemSteps => mine[w].since < ProjectTTL
  /\ pc[w] = "startTransfer" => mine[w].offer < LastOffer
  /\ pc[w] \in PurgeSteps => now > Retention
  /\ pc[w] = "purgeDelete" => owner # "human" /\ mine[w].sees # "claimed"
  /\ pc[w] \in {"purgeKey", "purgeCommit"} /\ mine[w].sees # "claimed" => owner = "deleted"

TimeInv ==
  /\ \A w \in Workers : TimeOf(w)
  /\ \A a \in AttemptIds : attOffered[a] => attExpires[a] < LastOffer
  /\ revoked # "no" => owner = "deleted"

(* Worker w moves to a step, at one instant and with nobody else's locals. *)
WorkerStep(w, step) ==
  /\ MovesTo(w, step)
  /\ \A v \in Workers \ {w} : mine'[v] = mine[v]
  /\ now' = now

(* Each of the four ways a step ends is such a move. *)
LEMMA HelpersStep ==
  ASSUME TypeOK, NEW w \in Workers, NEW step, NEW locals
  PROVE  /\ Goto(w, step) => WorkerStep(w, step) /\ mine'[w] = mine[w]
         /\ GotoWith(w, step, locals) => WorkerStep(w, step) /\ mine'[w] = locals
         /\ Acquire(w, step, locals) =>
              WorkerStep(w, step) /\ mine'[w] = [locals EXCEPT !.since = now]
         /\ Finish(w) => WorkerStep(w, "idle") /\ mine'[w] = NoLocals
BY HelpersMove DEF Goto, GotoWith, Acquire, Finish, WorkerStep, TypeOK, HandlersTyped

(* A move that offers nothing, accepts nothing and revokes the registration of a
   deleted project only, by a worker that knows of the clock what its next step asks. *)
LEMMA TimeAside ==
  ASSUME TypeOK, TimeInv, NEW w \in Workers, NEW step, WorkerStep(w, step),
         TimeOf(w)', owner' \in {owner, "deleted"}, revoked' = revoked \/ owner' = "deleted",
         attOffered' = attOffered,
         \A a \in AttemptIds : attOffered[a] => attExpires'[a] = attExpires[a]
  PROVE  TimeInv'
<1>1. ASSUME NEW v \in Workers, v # w  PROVE TimeOf(v)'
  <2>1. pc'[v] = pc[v] /\ mine'[v] = mine[v] /\ now' = now
    BY <1>1 DEF WorkerStep, MovesTo, TypeOK, HandlersTyped
  <2>2. TimeOf(v)
    BY DEF TimeInv
  <2> QED  BY <2>1, <2>2 DEF TimeOf, InLock
<1> QED  BY <1>1 DEF TimeInv

(* Steps before which nothing but the time since the lock was taken counts. *)
UntimedSteps == Steps \ (RedeemSteps \cup PurgeSteps)

(* The untimed steps by name. *)
LEMMA UntimedNamed ==
  {"idle", "exchangeRead", "exchangeRecord", "opCall", "opRecord", "delProject",
   "delKey", "delTokens", "delMark", "delRegistration", "issueWait", "issueOwner",
   "issueClose", "issueInsert", "submitWait", "pollOwner", "pollMarkAttempt",
   "pollMarkRegistration", "pollReconcile"} \subseteq UntimedSteps
BY DEF UntimedSteps, RedeemSteps, Steps, AgentSteps, IssueSteps, SubmitSteps, PollSteps,
   PurgeSteps

(* What a worker knows there: it has just taken the lock, or keeps what it knew,
   or is outside. *)
LEMMA UntimedTime ==
  ASSUME TypeOK, TimeInv, NEW w \in Workers, NEW step \in UntimedSteps, NEW locals \in Locals
  PROVE  /\ Goto(w, step) /\ (InLock(w) \/ step \in OutsideSteps) => TimeOf(w)'
         /\ GotoWith(w, step, locals) /\ step \in OutsideSteps => TimeOf(w)'
         /\ Acquire(w, step, locals) => TimeOf(w)'
         /\ Finish(w) => TimeOf(w)'
<1> USE DEF OutsideSteps
<1>1. /\ step \notin RedeemSteps \cup PurgeSteps
      /\ "idle" \notin RedeemSteps \cup PurgeSteps
      /\ "startTransfer" \in RedeemSteps
      /\ {"purgeDelete", "purgeKey", "purgeCommit"} \subseteq PurgeSteps
  BY DEF UntimedSteps, RedeemSteps, SubmitSteps, PurgeSteps
<1>2. ASSUME pc'[w] \notin RedeemSteps \cup PurgeSteps,
             InLock(w)' => now' <= mine'[w].since + HandlerTime
      PROVE  TimeOf(w)'
  BY <1>1, <1>2 DEF TimeOf
<1>3. pc \in [Workers -> Steps] /\ mine \in [Workers -> Locals] /\ now \in Nat
  BY DEF TypeOK, HandlersTyped
<1>4. TimeOf(w)
  BY DEF TimeInv
<1>5. Goto(w, step) /\ (InLock(w) \/ step \in OutsideSteps) => TimeOf(w)'
  BY <1>1, <1>2, <1>3, <1>4 DEF Goto, TimeOf, InLock
<1>6. GotoWith(w, step, locals) /\ step \in OutsideSteps => TimeOf(w)'
  BY <1>1, <1>2, <1>3 DEF GotoWith, InLock
<1>7. Acquire(w, step, locals) => TimeOf(w)'
  <2> SUFFICES ASSUME Acquire(w, step, locals)  PROVE TimeOf(w)'
    OBVIOUS
  <2>1. mine'[w].since = now /\ now' = now /\ pc'[w] = step
    BY <1>3 DEF Acquire, Locals
  <2> QED  BY <1>1, <1>2, <1>3, <2>1, StoreAssumption
<1>8. Finish(w) => TimeOf(w)'
  BY <1>1, <1>2, <1>3 DEF Finish, InLock
<1> QED  BY <1>5, <1>6, <1>7, <1>8

(* The agent's requests: a project that is recorded as revoked was deleted. *)
LEMMA AgentTime ==
  ASSUME TypeOK, EndInv, TimeInv, NEW w \in Workers,
         ExchangeVerify(w) \/ OpBegin(w) \/ DeleteBegin(w) \/ AgentProgress(w)
  PROVE  TimeInv'
<1> USE DEF attemptVars, registrationVars, projectVars
<1>1. CASE \/ ExchangeVerify(w) \/ OpBegin(w) \/ DeleteBegin(w) \/ ExchangeRead(w)
           \/ ExchangeRecord(w) \/ OpCall(w) \/ HandOutRecorded(w) \/ HandOutUnrecorded(w)
           \/ DeleteProject(w) \/ DeleteKey(w) \/ DeleteTokens(w) \/ DeleteMark(w)
  <2>1. /\ owner' \in {owner, "deleted"} /\ UNCHANGED <<attOffered, attExpires, revoked>>
    BY <1>1 DEF ExchangeVerify, OpBegin, DeleteBegin, ExchangeRead, ExchangeRecord, OpCall,
       HandOutRecorded, HandOutUnrecorded, DeleteProject, DeleteKey, DeleteTokens, DeleteMark
  <2>2. \A s \in {"full", "empty"} : [NoLocals EXCEPT !.sees = s] \in Locals
    BY SeesTyped DEF Readings
  <2>3. TimeOf(w)' /\ \E step : WorkerStep(w, step)
    <3>1. CASE ExchangeVerify(w)
      BY <3>1, UntimedTime, UntimedNamed, HelpersStep, NoLocalsTyped DEF ExchangeVerify, OutsideSteps
    <3>2. CASE ExchangeRead(w)
      BY <2>2, <3>2, UntimedTime, UntimedNamed, HelpersStep DEF ExchangeRead, OutsideSteps
    <3>3. CASE ExchangeRecord(w) \/ HandOutRecorded(w) \/ HandOutUnrecorded(w)
      BY <3>3, UntimedTime, UntimedNamed, HelpersStep, NoLocalsTyped
      DEF ExchangeRecord, HandOutRecorded, HandOutUnrecorded
    <3>4. CASE OpBegin(w) \/ DeleteBegin(w)
      BY <3>4, UntimedTime, UntimedNamed, HelpersStep, NoLocalsTyped DEF OpBegin, DeleteBegin
    <3>5. CASE OpCall(w) \/ DeleteProject(w)
      <4>1. InLock(w)
        BY <3>5 DEF OpCall, DeleteProject, InLock
      <4> QED  BY <3>5, <4>1, UntimedTime, UntimedNamed, HelpersStep, NoLocalsTyped
               DEF OpCall, DeleteProject
    <3>6. CASE DeleteKey(w) \/ DeleteTokens(w) \/ DeleteMark(w)
      <4>1. InLock(w)
        BY <3>6 DEF DeleteKey, DeleteTokens, DeleteMark, InLock
      <4> QED  BY <3>6, <4>1, UntimedTime, UntimedNamed, HelpersStep, NoLocalsTyped
               DEF DeleteKey, DeleteTokens, DeleteMark
    <3> QED  BY <1>1, <3>1, <3>2, <3>3, <3>4, <3>5, <3>6
  <2> QED  BY <2>1, <2>3, TimeAside
<1>2. CASE DeleteRegistration(w)
  <2>1. owner = "deleted" /\ owner' = owner /\ UNCHANGED <<attOffered, attExpires>>
    BY <1>2 DEF DeleteRegistration, EndInv, EndAt
  <2>2. TimeOf(w)' /\ WorkerStep(w, "idle")
    BY <1>2, UntimedTime, UntimedNamed, HelpersStep, NoLocalsTyped DEF DeleteRegistration
  <2> QED  BY <2>1, <2>2, TimeAside
<1> QED  BY <1>1, <1>2 DEF AgentProgress

(* Minting writes the expiry of an attempt nobody was offered. *)
LEMMA IssueTime ==
  ASSUME TypeOK, OrderInv, TimeInv, NEW w \in Workers, IssueVerify(w) \/ IssueProgress(w)
  PROVE  TimeInv'
<1> USE DEF attemptVars, registrationVars, projectVars
<1>1. UNCHANGED <<owner, revoked, attOffered>>
  BY DEF IssueProgress, IssueVerify, IssueDecide, IssueOwner, IssueClose, IssueInsert
<1>2. \A a \in AttemptIds : attOffered[a] => attExpires'[a] = attExpires[a]
  <2>1. CASE IssueInsert(w)
    <3>1. \A a \in AttemptIds : attOffered[a] => a # attempts + 1
      BY DEF OrderInv, AttemptIds, TypeOK, AttemptsTyped
    <3> QED  BY <2>1, <3>1 DEF IssueInsert, TypeOK, AttemptsTyped
  <2>2. CASE IssueVerify(w) \/ IssueDecide(w) \/ IssueOwner(w) \/ IssueClose(w)
    BY <2>2 DEF IssueVerify, IssueDecide, IssueOwner, IssueClose
  <2> QED  BY <2>1, <2>2 DEF IssueProgress
<1>3. TimeOf(w)' /\ \E step : WorkerStep(w, step)
  <2>1. CASE IssueVerify(w)
    <3>1. \A s \in {"assertion", "access"} : [NoLocals EXCEPT !.sees = s] \in Locals
      BY SeesTyped DEF Readings
    <3> QED  BY <2>1, <3>1, UntimedTime, UntimedNamed, HelpersStep DEF IssueVerify, OutsideSteps
  <2>2. CASE IssueDecide(w)
    <3>1. [NoLocals EXCEPT !.sees = IssuanceDecision] \in Locals
      <4>1. IssuanceDecision \in Decisions
        BY DEF IssuanceDecision, Decisions, TypeOK, RowsTyped, ClaimStates
      <4> QED  BY <4>1, SeesTyped DEF Readings
    <3>2. AfterDecision(IssuanceDecision) \in {"issueInsert", "issueClose"}
      BY DEF AfterDecision
    <3>3. (IF frozen THEN "issueOwner" ELSE AfterDecision(IssuanceDecision)) \in UntimedSteps
      BY <3>2, UntimedNamed
    <3> QED  BY <2>2, <3>1, <3>3, UntimedTime, HelpersStep DEF IssueDecide
  <2>3. CASE IssueOwner(w)
    <3>1. AfterDecision(mine[w].sees) \in {"issueInsert", "issueClose"} /\ InLock(w)
      BY <2>3 DEF IssueOwner, AfterDecision, InLock
    <3> QED  BY <2>3, <3>1, UntimedTime, UntimedNamed, HelpersStep, NoLocalsTyped DEF IssueOwner
  <2>4. CASE IssueClose(w) \/ IssueInsert(w)
    <3>1. InLock(w)
      BY <2>4 DEF IssueClose, IssueInsert, InLock
    <3> QED  BY <2>4, <3>1, UntimedTime, UntimedNamed, HelpersStep, NoLocalsTyped
             DEF IssueClose, IssueInsert
  <2> QED  BY <2>1, <2>2, <2>3, <2>4 DEF IssueProgress
<1> QED  BY <1>1, <1>2, <1>3, TimeAside

(* A redeeming handler goes on under the lock it took in time. *)
LEMMA RedeemTime ==
  ASSUME TypeOK, TimeInv, NEW w \in Workers, pc[w] \in RedeemSteps,
         NEW step \in RedeemSteps \ {"startTransfer"}, WorkerStep(w, step),
         mine'[w].since = mine[w].since
  PROVE  TimeOf(w)'
<1>1. TimeOf(w) /\ InLock(w)
  BY DEF TimeInv, InLock, RedeemSteps, SubmitSteps
<1>2. pc'[w] = step /\ now' = now
  BY DEF WorkerStep, MovesTo, TypeOK, HandlersTyped
<1> QED  BY <1>1, <1>2 DEF TimeOf, RedeemSteps, SubmitSteps, PurgeSteps

(* The redeeming steps by name. *)
LEMMA RedeemNamed ==
  {"freeze", "setPending", "revokeKey", "markKey", "resetRoles", "disable", "compare",
   "reenable", "markDerived", "revokeAccess", "enable", "createTransfer", "startTransfer"}
    = RedeemSteps
BY DEF RedeemSteps, SubmitSteps

(* A transfer request is created, and recorded, by a handler that took the lock
   before the registration expired. *)
LEMMA SubmitTime ==
  ASSUME TypeOK, TimeInv, NEW w \in Workers, SubmitFind(w) \/ SubmitProgress(w)
  PROVE  TimeInv'
<1> USE DEF attemptVars, registrationVars, projectVars
<1>0. mine[w] \in Locals /\ mine[w].att \in 0..MaxAttempts /\ now \in Nat
  BY DEF TypeOK, HandlersTyped, Locals
<1>1. CASE SubmitFind(w)
  <2>1. \A a \in AttemptIds : [NoLocals EXCEPT !.att = a] \in Locals
    BY AttTyped, StoreAssumption DEF AttemptIds
  <2>2. TimeOf(w)' /\ WorkerStep(w, "submitWait")
    BY <1>1, <2>1, UntimedTime, UntimedNamed, HelpersStep DEF SubmitFind, OutsideSteps
  <2> QED  BY <1>1, <2>2, TimeAside DEF SubmitFind
<1>2. CASE SubmitExpired(w)
  <2>1. TimeOf(w)' /\ WorkerStep(w, "idle")
    BY <1>2, UntimedTime, UntimedNamed, HelpersStep, NoLocalsTyped DEF SubmitExpired
  <2> QED  BY <1>2, <2>1, TimeAside DEF SubmitExpired
<1>3. CASE SubmitBegin(w)
  <2>1. /\ WorkerStep(w, "freeze") /\ mine'[w].since = now /\ now < ProjectTTL
        /\ UNCHANGED <<attOffered, attExpires, revoked, owner>>
    <3>1. [[NoLocals EXCEPT !.att = mine[w].att] EXCEPT !.since = now].since = now
      BY DEF NoLocals
    <3> QED  BY <1>3, <3>1, HelpersStep DEF SubmitBegin, Usable
  <2>2. pc'[w] = "freeze" /\ now' = now
    BY <2>1 DEF WorkerStep, MovesTo, TypeOK, HandlersTyped
  <2>3. TimeOf(w)'
    BY <1>0, <2>1, <2>2, StoreAssumption DEF TimeOf, PurgeSteps
  <2> QED  BY <2>1, <2>3, TimeAside
<1>4. CASE \/ FreezeIssuance(w) \/ SetPending(w) \/ RevokeKey(w) \/ MarkKey(w)
           \/ ResetRoles(w) \/ DisableCompute(w) \/ RolesUnchanged(w) \/ RolesChanged(w)
           \/ Reenable(w) \/ MarkDerived(w) \/ RevokeAccess(w) \/ EnableCompute(w)
  <2>1. pc[w] \in RedeemSteps /\ UNCHANGED <<attOffered, attExpires, revoked, owner>>
    BY <1>4, RedeemNamed DEF FreezeIssuance, SetPending, RevokeKey, MarkKey, ResetRoles,
       DisableCompute, RolesUnchanged, RolesChanged, Reenable, MarkDerived, RevokeAccess,
       EnableCompute
  <2>2. PICK step \in RedeemSteps \ {"startTransfer"} :
          WorkerStep(w, step) /\ mine'[w].since = mine[w].since
    <3>1. CASE FreezeIssuance(w) \/ SetPending(w) \/ RevokeKey(w) \/ MarkKey(w)
      BY <3>1, HelpersStep, RedeemNamed DEF FreezeIssuance, SetPending, RevokeKey, MarkKey
    <3>2. CASE ResetRoles(w)
      BY <3>2, RedeemNamed DEF ResetRoles, WorkerStep, MovesTo
    <3>3. CASE RolesChanged(w)
      <4>1. [mine[w] EXCEPT !.tries = mine[w].tries + 1].since = mine[w].since
        BY <1>0 DEF Locals
      <4> QED  BY <3>3, <4>1, HelpersStep, RedeemNamed DEF RolesChanged
    <3>4. CASE DisableCompute(w) \/ RolesUnchanged(w) \/ Reenable(w)
      BY <3>4, HelpersStep, RedeemNamed DEF DisableCompute, RolesUnchanged, Reenable
    <3>5. CASE MarkDerived(w) \/ RevokeAccess(w) \/ EnableCompute(w)
      BY <3>5, HelpersStep, RedeemNamed DEF MarkDerived, RevokeAccess, EnableCompute
    <3> QED  BY <1>4, <3>1, <3>2, <3>3, <3>4, <3>5
  <2> QED  BY <2>1, <2>2, RedeemTime, TimeAside
<1>5. CASE CreateTransfer(w)
  <2>1. /\ WorkerStep(w, "startTransfer") /\ UNCHANGED <<attOffered, attExpires, revoked, owner>>
        /\ mine'[w].since = mine[w].since /\ mine'[w].offer = now + AttemptTTL
    <3>1. /\ [mine[w] EXCEPT !.offer = now + AttemptTTL].since = mine[w].since
          /\ [mine[w] EXCEPT !.offer = now + AttemptTTL].offer = now + AttemptTTL
      BY <1>0 DEF Locals
    <3> QED  BY <1>5, <3>1, HelpersStep DEF CreateTransfer
  <2>2. pc'[w] = "startTransfer" /\ now' = now
    BY <2>1 DEF WorkerStep, MovesTo, TypeOK, HandlersTyped
  <2>3. now <= mine[w].since + HandlerTime /\ mine[w].since < ProjectTTL /\ mine[w].since \in Nat
    BY <1>0, <1>5, RedeemNamed DEF CreateTransfer, TimeInv, TimeOf, InLock, Locals
  <2>4. TimeOf(w)'
    BY <1>0, <2>1, <2>2, <2>3, StoreAssumption DEF TimeOf, LastOffer, PurgeSteps
  <2> QED  BY <2>1, <2>4, TimeAside
<1>6. CASE StartTransfer(w)
  <2>1. WorkerStep(w, "idle") /\ TimeOf(w)' /\ UNCHANGED <<revoked, owner>>
    BY <1>6, UntimedTime, UntimedNamed, HelpersStep, NoLocalsTyped DEF StartTransfer
  <2>2. mine[w].offer < LastOffer
    BY <1>6 DEF StartTransfer, TimeInv, TimeOf
  <2>3. \A a \in AttemptIds : attOffered'[a] => attExpires'[a] < LastOffer
    BY <1>6, <2>2 DEF StartTransfer, TimeInv, TypeOK, AttemptsTyped
  <2>4. \A v \in Workers \ {w} : TimeOf(v)'
    BY <2>1 DEF TimeInv, TimeOf, InLock, WorkerStep, MovesTo, TypeOK, HandlersTyped
  <2> QED  BY <2>1, <2>3, <2>4 DEF TimeInv
<1> QED  BY <1>1, <1>2, <1>3, <1>4, <1>5, <1>6 DEF SubmitProgress

(* The human accepts in time, when no janitor run is at work yet. *)
LEMMA AcceptTime ==
  ASSUME RetentionOutlastsOffers, TypeOK, TimeInv, AcceptTransfer
  PROVE  TimeInv'
<1> USE DEF attemptVars, registrationVars, handlerVars
<1>1. PICK a \in AttemptIds : attOffered[a] /\ ~Expired(a)
  BY DEF AcceptTransfer
<1>2. attExpires[a] < LastOffer /\ attExpires[a] > now
  BY <1>1 DEF TimeInv, Expired, TypeOK, AttemptsTyped, HandlersTyped
<1>3. ~(now > Retention)
  BY <1>2, StoreAssumption
  DEF RetentionOutlastsOffers, LastOffer, TypeOK, AttemptsTyped, HandlersTyped
<1>4. owner = "holding" /\ UNCHANGED <<attOffered, attExpires, revoked, pc, mine, now>>
  BY DEF AcceptTransfer
<1>5. \A w \in Workers : pc[w] # "purgeDelete"
  BY <1>3 DEF TimeInv, TimeOf, PurgeSteps
<1> QED  BY <1>4, <1>5 DEF TimeInv, TimeOf, InLock

(* A poll has no part in it. *)
LEMMA PollTime ==
  ASSUME TypeOK, TimeInv, NEW w \in Workers,
         PollExpired(w) \/ PollPending(w) \/ PollAccepted(w) \/ PollProgress(w)
  PROVE  TimeInv'
<1> USE DEF attemptVars, registrationVars, projectVars
<1>1. UNCHANGED <<owner, revoked, attOffered, attExpires>>
  BY DEF PollProgress, PollExpired, PollPending, PollAccepted, PollOwner, PollMarkAttempt,
     PollMarkRegistration, PollReconcile
<1>2. TimeOf(w)' /\ \E step : WorkerStep(w, step)
  <2>1. CASE PollExpired(w) \/ PollReconcile(w)
    BY <2>1, UntimedTime, UntimedNamed, HelpersStep, NoLocalsTyped DEF PollExpired, PollReconcile
  <2>2. CASE PollPending(w) \/ PollAccepted(w)
    <3>1. [NoLocals EXCEPT !.att = Latest] \in Locals
      BY AttTyped DEF Latest, TypeOK, AttemptsTyped
    <3> QED  BY <2>2, <3>1, UntimedTime, UntimedNamed, HelpersStep DEF PollPending, PollAccepted
  <2>3. CASE PollOwner(w) \/ PollMarkAttempt(w) \/ PollMarkRegistration(w)
    <3>1. InLock(w)
      BY <2>3 DEF PollOwner, PollMarkAttempt, PollMarkRegistration, InLock
    <3> QED  BY <2>3, <3>1, UntimedTime, UntimedNamed, HelpersStep, NoLocalsTyped
             DEF PollOwner, PollMarkAttempt, PollMarkRegistration
  <2> QED  BY <2>1, <2>2, <2>3 DEF PollProgress
<1> QED  BY <1>1, <1>2, TimeAside

(* The janitor begins after the retention period, asks for the owner, and what
   it does next fits the answer. *)
LEMMA PurgeTime ==
  ASSUME TypeOK, TimeInv, NEW w \in Workers, PurgeBegin(w) \/ PurgeProgress(w)
  PROVE  TimeInv'
<1> USE DEF attemptVars, registrationVars, projectVars
<1>0. /\ mine[w] \in Locals /\ mine[w].since \in Nat /\ now \in Nat
      /\ owner \in {"holding", "human", "deleted"} /\ TimeOf(w)
  BY DEF TypeOK, HandlersTyped, ProjectTyped, Locals, TimeInv
<1>1. CASE PurgeBegin(w)
  <2>0. PICK saw \in {"begun", "none"} : Acquire(w, "purgeOwner", [NoLocals EXCEPT !.sees = saw])
    BY <1>1 DEF PurgeBegin
  <2>1. /\ WorkerStep(w, "purgeOwner") /\ mine'[w].since = now /\ now > Retention
        /\ UNCHANGED <<attOffered, attExpires, revoked, owner>>
    <3>1. [[NoLocals EXCEPT !.sees = saw] EXCEPT !.since = now].since = now
      BY DEF NoLocals
    <3>2. /\ WorkerStep(w, "purgeOwner")
          /\ mine'[w] = [[NoLocals EXCEPT !.sees = saw] EXCEPT !.since = now]
      BY <2>0, HelpersStep
    <3>3. mine'[w].since = now
      BY <3>1, <3>2
    <3> QED  BY <1>1, <3>2, <3>3 DEF PurgeBegin, RetentionOver
  <2>2. pc'[w] = "purgeOwner" /\ now' = now
    BY <2>1 DEF WorkerStep, MovesTo, TypeOK, HandlersTyped
  <2>3. TimeOf(w)'
    BY <1>0, <2>1, <2>2, StoreAssumption DEF TimeOf, RedeemSteps, SubmitSteps
  <2> QED  BY <2>1, <2>3, TimeAside
<1>2. CASE PurgeOwner(w)
  <2> DEFINE step == IF PurgeDecision(w) = "delete" THEN "purgeDelete" ELSE "purgeKey"
  <2>1. /\ WorkerStep(w, step) /\ UNCHANGED <<attOffered, attExpires, revoked, owner>>
        /\ mine'[w].since = mine[w].since /\ mine'[w].sees = PurgeDecision(w)
    <3>1. /\ [mine[w] EXCEPT !.sees = PurgeDecision(w)].since = mine[w].since
          /\ [mine[w] EXCEPT !.sees = PurgeDecision(w)].sees = PurgeDecision(w)
      BY <1>0 DEF Locals
    <3> QED  BY <1>2, <3>1, HelpersStep DEF PurgeOwner
  <2>2. pc'[w] = step /\ now' = now
    BY <2>1 DEF WorkerStep, MovesTo, TypeOK, HandlersTyped
  <2>3. now > Retention /\ now <= mine[w].since + HandlerTime
    BY <1>0, <1>2 DEF PurgeOwner, TimeOf, InLock, PurgeSteps
  <2>4. /\ PurgeDecision(w) = "delete" => owner = "holding"
        /\ PurgeDecision(w) \notin {"delete", "claimed"} => owner = "deleted"
    BY <1>0 DEF PurgeDecision
  <2>5. TimeOf(w)'
    BY <2>1, <2>2, <2>3, <2>4 DEF TimeOf, RedeemSteps, SubmitSteps
  <2> QED  BY <2>1, <2>5, TimeAside
<1>3. CASE PurgeDelete(w) \/ PurgeKey(w)
  <2>1. PICK step \in {"purgeKey", "purgeCommit"} :
          /\ WorkerStep(w, step) /\ mine'[w] = mine[w]
          /\ owner' \in {owner, "deleted"} /\ UNCHANGED <<attOffered, attExpires, revoked>>
          /\ mine[w].sees # "claimed" => owner' = "deleted"
    <3>1. CASE PurgeDelete(w)
      BY <1>0, <3>1, HelpersStep DEF PurgeDelete, TimeOf
    <3>2. CASE PurgeKey(w)
      BY <1>0, <3>2, HelpersStep DEF PurgeKey, TimeOf
    <3> QED  BY <1>3, <3>1, <3>2
  <2>2. pc'[w] = step /\ now' = now
    BY <2>1 DEF WorkerStep, MovesTo, TypeOK, HandlersTyped
  <2>3. now > Retention /\ now <= mine[w].since + HandlerTime
    BY <1>0, <1>3 DEF PurgeDelete, PurgeKey, TimeOf, InLock, PurgeSteps
  <2>4. TimeOf(w)'
    BY <2>1, <2>2, <2>3 DEF TimeOf, RedeemSteps, SubmitSteps
  <2> QED  BY <2>1, <2>4, TimeAside
<1>4. CASE PurgeCommit(w)
  <2>1. TimeOf(w)' /\ WorkerStep(w, "idle")
    BY <1>4, UntimedTime, UntimedNamed, HelpersStep, NoLocalsTyped DEF PurgeCommit
  <2>2. UNCHANGED <<attOffered, attExpires, owner>> /\ (revoked' = revoked \/ owner = "deleted")
    BY <1>0, <1>4 DEF PurgeCommit, TimeOf
  <2> QED  BY <2>1, <2>2, TimeAside
<1> QED  BY <1>1, <1>2, <1>3, <1>4 DEF PurgeProgress

(* What leaves the handlers, the attempts and the project alone. *)
LEMMA BesidesTime ==
  ASSUME TimeInv, UNCHANGED <<attOffered, attExpires, revoked, owner, pc, mine, now>>
  PROVE  TimeInv'
BY DEF TimeInv, TimeOf, InLock

(* The agent's own moves do, and so does a backend that drops. A handler that
   fails is outside; the clock moves while every handler has time left. *)
LEMMA EnvironmentTime ==
  ASSUME TypeOK, TimeInv,
         \/ RevokeToken \/ Connect \/ AlterRoles \/ Tick
         \/ \E w \in Workers : Abort(w) \/ DropBackend(w)
  PROVE  TimeInv'
<1> USE DEF attemptVars, registrationVars, projectVars, handlerVars
<1>1. CASE RevokeToken \/ Connect \/ AlterRoles \/ \E w \in Workers : DropBackend(w)
  BY <1>1, BesidesTime DEF RevokeToken, Connect, AlterRoles, DropBackend
<1>2. ASSUME NEW w \in Workers, Abort(w)  PROVE TimeInv'
  <2>1. TimeOf(w)' /\ WorkerStep(w, "idle")
    BY <1>2, UntimedTime, UntimedNamed, HelpersStep, NoLocalsTyped DEF Abort
  <2> QED  BY <1>2, <2>1, TimeAside DEF Abort
<1>3. CASE Tick
  <2>1. /\ UNCHANGED <<attOffered, attExpires, revoked, owner, pc, mine>> /\ now' = now + 1
        /\ now \in Nat /\ Retention \in Nat
    BY <1>3, StoreAssumption DEF Tick, TypeOK, HandlersTyped
  <2>2. ASSUME NEW w \in Workers  PROVE TimeOf(w)'
    <3>1. TimeOf(w) /\ mine[w].since \in Nat
      BY DEF TimeInv, TypeOK, HandlersTyped, Locals
    <3>2. InLock(w) => now < mine[w].since + HandlerTime
      BY <1>3 DEF Tick
    <3> QED  BY <2>1, <3>1, <3>2, StoreAssumption DEF TimeOf, InLock
  <2> QED  BY <2>1, <2>2 DEF TimeInv
<1> QED  BY <1>1, <1>2, <1>3

(* At first no time has passed. *)
LEMMA InitTime == Init => TimeInv
BY DEF Init, StoreInit, TimeInv, TimeOf, InLock, RedeemSteps, SubmitSteps, PurgeSteps

(* Every step keeps what is known of the clock. *)
LEMMA NextTime ==
  ASSUME RetentionOutlastsOffers
  PROVE  TypeOK /\ OrderInv /\ EndInv /\ TimeInv /\ [Next]_vars => TimeInv'
<1> SUFFICES ASSUME TypeOK, OrderInv, EndInv, TimeInv, [Next]_vars PROVE TimeInv'
  OBVIOUS
<1>1. CASE AgentNext
  BY <1>1, AgentTime, EnvironmentTime DEF AgentNext
<1>2. CASE IssueNext
  BY <1>2, IssueTime DEF IssueNext
<1>3. CASE SubmitNext
  BY <1>3, SubmitTime, AcceptTime DEF SubmitNext
<1>4. CASE PollNext
  BY <1>4, PollTime DEF PollNext
<1>5. CASE PurgeNext
  BY <1>5, PurgeTime DEF PurgeNext
<1>6. CASE (\E w \in Workers : Abort(w) \/ DropBackend(w)) \/ Tick
  BY <1>6, EnvironmentTime
<1>7. CASE UNCHANGED vars
  BY <1>7, BesidesTime DEF vars
<1> QED  BY <1>1, <1>2, <1>3, <1>4, <1>5, <1>6, <1>7 DEF Next

(* When the retention period outlasts every transfer request, no project is
   accepted while a janitor run is about to delete it, and only a deleted one is
   recorded as revoked. *)
THEOREM OffersExpireInTime ==
  ASSUME RetentionOutlastsOffers  PROVE Spec => []TimeInv
<1>1. Init => TimeInv
  BY InitTime
<1>2. TypeOK /\ OrderInv /\ EndInv /\ TimeInv /\ [Next]_vars => TimeInv'
  BY NextTime
<1> QED  BY <1>1, <1>2, TypeCorrect, AttemptsInOrder, EndsStepByStep, PTL DEF Spec

(* A project that a human accepted is never deleted by the janitor, nor recorded
   as purged or revoked, for any number of workers and codes and with backends
   that drop, when the retention period outlasts every transfer request. *)
THEOREM ClaimedStays ==
  ASSUME RetentionOutlastsOffers  PROVE Spec => []ClaimedIsNeverPurged
<1>1. TimeInv => ClaimedIsNeverPurged
  BY DEF TimeInv, TimeOf, ClaimedIsNeverPurged
<1> QED  BY <1>1, OffersExpireInTime, PTL

-----------------------------------------------------------------------------
(* A reconciled claim stays reconciled. *)

(* What the theorems about reconciliation suppose of the settings: the janitor
   begins when the agent's tokens have expired. *)
RetentionOutlastsProject == Retention >= ProjectTTL

(* The steps, under the lock, between a check of the claim and what follows. *)
ClaimSteps == MintSteps \cup {"freeze", "setPending", "pollOwner", "pollMarkAttempt",
                              "pollMarkRegistration"}

(* What a handler that still has the lock may rely on. *)
SettledOf(w) ==
  /\ pc[w] \in PurgeSteps => now > Retention
  /\ lock = w /\ pc[w] \in ClaimSteps => claimState # "reconciled"
  /\ lock = w /\ pc[w] \in PollSteps => mine[w].att = Latest /\ HasAttempt

(* A claim is reconciled by a poll, which says so in the latest attempt too, or
   by the janitor, after which nobody has a token to poll with. *)
SettledInv ==
  /\ \A w \in Workers : SettledOf(w)
  /\ claimState = "reconciled" =>
       now > Retention \/ (HasAttempt /\ attState[Latest] = "reconciled")

(* Steps at which nothing is asked. *)
LooseSteps == Steps \ (ClaimSteps \cup PollSteps \cup PurgeSteps)

(* These steps by name. *)
LEMMA LooseNamed ==
  {"idle", "exchangeRead", "exchangeRecord", "opCall", "opRecord", "delProject",
   "delKey", "delTokens", "delMark", "delRegistration", "issueWait", "submitWait",
   "revokeKey", "markKey", "resetRoles", "disable", "compare", "reenable",
   "markDerived", "revokeAccess", "enable", "createTransfer", "startTransfer"}
    \subseteq LooseSteps
BY DEF LooseSteps, ClaimSteps, MintSteps, Steps, AgentSteps, IssueSteps, SubmitSteps, PollSteps,
   PurgeSteps

(* A move that reconciles nothing, and touches no reconciled attempt. *)
LEMMA SettledAside ==
  ASSUME TypeOK, SettledInv, NEW w \in Workers, NEW step, WorkerStep(w, step), SettledOf(w)',
         claimState' = "reconciled" => claimState = "reconciled",
         attempts' = attempts,
         HasAttempt /\ attState[Latest] = "reconciled" => attState'[Latest] = "reconciled"
  PROVE  SettledInv'
<1>1. ASSUME NEW v \in Workers, v # w  PROVE SettledOf(v)'
  <2>1. pc'[v] = pc[v] /\ mine'[v] = mine[v] /\ now' = now /\ (lock' = v => lock = v)
    BY <1>1, StoreAssumption DEF WorkerStep, MovesTo, TypeOK, HandlersTyped
  <2>2. SettledOf(v)
    BY DEF SettledInv
  <2> QED  BY <2>1, <2>2 DEF SettledOf, Latest, HasAttempt
<1>2. claimState' = "reconciled" =>
        now' > Retention \/ (HasAttempt' /\ attState'[Latest'] = "reconciled")
  BY DEF SettledInv, WorkerStep, Latest, HasAttempt
<1> QED  BY <1>1, <1>2 DEF SettledInv

(* At a loose step nothing is asked. *)
LEMMA LooseSettled ==
  ASSUME TypeOK, SettledInv, NEW w \in Workers, NEW step \in LooseSteps, WorkerStep(w, step),
         claimState' = "reconciled" => claimState = "reconciled",
         attempts' = attempts,
         HasAttempt /\ attState[Latest] = "reconciled" => attState'[Latest] = "reconciled"
  PROVE  SettledInv'
<1>1. SettledOf(w)'
  BY DEF SettledOf, LooseSteps, WorkerStep, MovesTo, TypeOK, HandlersTyped
<1> QED  BY <1>1, SettledAside

(* The agent's requests leave the claim alone. *)
LEMMA AgentSettled ==
  ASSUME TypeOK, SettledInv, NEW w \in Workers,
         ExchangeVerify(w) \/ OpBegin(w) \/ DeleteBegin(w) \/ AgentProgress(w)
  PROVE  SettledInv'
<1> USE DEF registrationVars, attemptVars
<1>1. UNCHANGED <<claimState, attempts, attState>>
  BY DEF ExchangeVerify, OpBegin, DeleteBegin, AgentProgress, ExchangeRead, ExchangeRecord, OpCall,
     HandOutRecorded, HandOutUnrecorded, DeleteProject, DeleteKey, DeleteTokens, DeleteMark,
     DeleteRegistration
<1>2. PICK step \in LooseSteps : WorkerStep(w, step)
  <2>1. CASE ExchangeVerify(w) \/ OpBegin(w) \/ DeleteBegin(w) \/ ExchangeRead(w)
    BY <2>1, HelpersStep, LooseNamed DEF ExchangeVerify, OpBegin, DeleteBegin, ExchangeRead
  <2>2. CASE ExchangeRecord(w) \/ OpCall(w) \/ HandOutRecorded(w) \/ HandOutUnrecorded(w)
    BY <2>2, HelpersStep, LooseNamed DEF ExchangeRecord, OpCall, HandOutRecorded, HandOutUnrecorded
  <2>3. CASE DeleteProject(w) \/ DeleteKey(w) \/ DeleteTokens(w)
    BY <2>3, HelpersStep, LooseNamed DEF DeleteProject, DeleteKey, DeleteTokens
  <2>4. CASE DeleteMark(w) \/ DeleteRegistration(w)
    BY <2>4, HelpersStep, LooseNamed DEF DeleteMark, DeleteRegistration
  <2> QED  BY <2>1, <2>2, <2>3, <2>4 DEF AgentProgress
<1> QED  BY <1>1, <1>2, LooseSettled

(* A code is minted only for a claim that is not reconciled, and none is
   reconciled while a handler with the lock mints it. *)
LEMMA IssueSettled ==
  ASSUME TypeOK, SettledInv, NEW w \in Workers, IssueVerify(w) \/ IssueProgress(w)
  PROVE  SettledInv'
<1> USE DEF registrationVars, attemptVars
<1>1. SettledOf(w) /\ pc \in [Workers -> Steps]
  BY DEF SettledInv, TypeOK, HandlersTyped
<1>2. CASE IssueVerify(w)
  <2>1. WorkerStep(w, "issueWait")
    BY <1>2, HelpersStep DEF IssueVerify
  <2> QED  BY <1>2, <2>1, LooseNamed, LooseSettled DEF IssueVerify
<1>3. CASE IssueDecide(w) \/ IssueOwner(w) \/ IssueClose(w)
  <2>1. PICK step \in MintSteps : WorkerStep(w, step)
    <3>1. CASE IssueDecide(w)
      BY <3>1, HelpersStep DEF IssueDecide, AfterDecision, MintSteps
    <3>2. CASE IssueOwner(w) \/ IssueClose(w)
      BY <3>2, HelpersStep DEF IssueOwner, IssueClose, AfterDecision, MintSteps
    <3> QED  BY <1>3, <3>1, <3>2
  <2>2. UNCHANGED <<claimState, attempts>> /\ (lock' = w => claimState # "reconciled")
    <3>1. CASE IssueDecide(w)
      BY <3>1 DEF IssueDecide, Usable
    <3>2. CASE IssueOwner(w) \/ IssueClose(w)
      BY <1>1, <3>2 DEF IssueOwner, IssueClose, Goto, SettledOf, ClaimSteps, MintSteps
    <3> QED  BY <1>3, <3>1, <3>2
  <2>3. HasAttempt /\ attState[Latest] = "reconciled" /\ claimState = "reconciled" =>
          attState'[Latest] = "reconciled"
    BY <1>1, <1>3 DEF IssueDecide, IssueOwner, IssueClose, SettledOf, ClaimSteps, MintSteps, Holds
  <2>4. SettledOf(w)'
    BY <1>1, <2>1, <2>2
    DEF SettledOf, WorkerStep, MovesTo, MintSteps, PollSteps, PurgeSteps
  <2>5. ASSUME NEW v \in Workers, v # w  PROVE SettledOf(v)'
    <3>1. pc'[v] = pc[v] /\ mine'[v] = mine[v] /\ now' = now /\ (lock' = v => lock = v)
      BY <2>1, <2>5, StoreAssumption DEF WorkerStep, MovesTo, TypeOK, HandlersTyped
    <3>2. SettledOf(v)
      BY DEF SettledInv
    <3> QED  BY <2>2, <3>1, <3>2 DEF SettledOf, Latest, HasAttempt
  <2>6. now' = now
    BY <2>1 DEF WorkerStep
  <2> QED  BY <2>2, <2>3, <2>4, <2>5, <2>6 DEF SettledInv, Latest, HasAttempt
<1>4. CASE IssueInsert(w)
  <2>1. lock = w /\ claimState # "reconciled" /\ lock' = NoOne /\ claimState' = claimState
        /\ WorkerStep(w, "idle")
    BY <1>1, <1>4, HelpersStep DEF IssueInsert, Holds, Finish, SettledOf, ClaimSteps, MintSteps
  <2>2. ASSUME NEW v \in Workers  PROVE SettledOf(v)'
    <3>1. lock' # v /\ now' = now /\ (pc'[v] = pc[v] \/ pc'[v] = "idle")
      BY <1>1, <2>1, StoreAssumption DEF WorkerStep, MovesTo
    <3>2. SettledOf(v)
      BY DEF SettledInv
    <3> QED  BY <3>1, <3>2 DEF SettledOf, PurgeSteps
  <2> QED  BY <2>1, <2>2 DEF SettledInv
<1> QED  BY <1>2, <1>3, <1>4 DEF IssueProgress

(* A claim that is redeemed, under the lock, is not reconciled. *)
LEMMA SubmitSettled ==
  ASSUME TypeOK, SettledInv, NEW w \in Workers, SubmitFind(w) \/ SubmitProgress(w)
  PROVE  SettledInv'
<1> USE DEF registrationVars, attemptVars
<1>1. SettledOf(w) /\ pc \in [Workers -> Steps]
  BY DEF SettledInv, TypeOK, HandlersTyped
<1>2. CASE SubmitExpired(w)
  <2>1. WorkerStep(w, "idle") /\ UNCHANGED <<claimState, attempts>>
    BY <1>2, HelpersStep DEF SubmitExpired
  <2>2. HasAttempt /\ attState[Latest] = "reconciled" => attState'[Latest] = "reconciled"
    BY <1>2 DEF SubmitExpired, StillRedeemable, TypeOK, AttemptsTyped
  <2> QED  BY <2>1, <2>2, LooseNamed, LooseSettled
<1>3. CASE SubmitBegin(w)
  <2>1. WorkerStep(w, "freeze") /\ UNCHANGED <<claimState, attempts, attState>>
        /\ claimState # "reconciled"
    BY <1>3, HelpersStep DEF SubmitBegin, Usable
  <2>2. SettledOf(w)'
    BY <1>1, <2>1 DEF SettledOf, WorkerStep, MovesTo, PollSteps, PurgeSteps
  <2> QED  BY <2>1, <2>2, SettledAside
<1>4. CASE FreezeIssuance(w)
  <2>1. WorkerStep(w, "setPending") /\ UNCHANGED <<claimState, attempts, attState>>
        /\ claimState # "reconciled"
    BY <1>1, <1>4, HelpersStep DEF FreezeIssuance, Holds, SettledOf, ClaimSteps
  <2>2. SettledOf(w)'
    BY <1>1, <2>1 DEF SettledOf, WorkerStep, MovesTo, PollSteps, PurgeSteps
  <2> QED  BY <2>1, <2>2, SettledAside
<1>5. CASE \/ SubmitFind(w) \/ SetPending(w) \/ RevokeKey(w) \/ MarkKey(w) \/ ResetRoles(w)
           \/ DisableCompute(w) \/ RolesUnchanged(w) \/ RolesChanged(w) \/ Reenable(w)
           \/ MarkDerived(w) \/ RevokeAccess(w) \/ EnableCompute(w) \/ CreateTransfer(w)
           \/ StartTransfer(w)
  <2>1. claimState' \in {claimState, "pending"} /\ UNCHANGED <<attempts, attState>>
    BY <1>5 DEF SubmitFind, SetPending, RevokeKey, MarkKey, ResetRoles, DisableCompute,
       RolesUnchanged, RolesChanged, Reenable, MarkDerived, RevokeAccess, EnableCompute,
       CreateTransfer, StartTransfer
  <2>2. PICK step \in LooseSteps : WorkerStep(w, step)
    <3>1. CASE SubmitFind(w)
      BY <3>1, HelpersStep, LooseNamed DEF SubmitFind
    <3>2. CASE SetPending(w) \/ RevokeKey(w) \/ MarkKey(w)
      BY <3>2, HelpersStep, LooseNamed DEF SetPending, RevokeKey, MarkKey
    <3>3. CASE ResetRoles(w)
      BY <3>3, LooseNamed DEF ResetRoles, WorkerStep, MovesTo
    <3>4. CASE DisableCompute(w) \/ RolesUnchanged(w) \/ RolesChanged(w) \/ Reenable(w)
      BY <3>4, HelpersStep, LooseNamed DEF DisableCompute, RolesUnchanged, RolesChanged, Reenable
    <3>5. CASE MarkDerived(w) \/ RevokeAccess(w) \/ EnableCompute(w)
      BY <3>5, HelpersStep, LooseNamed DEF MarkDerived, RevokeAccess, EnableCompute
    <3>6. CASE CreateTransfer(w) \/ StartTransfer(w)
      BY <3>6, HelpersStep, LooseNamed DEF CreateTransfer, StartTransfer
    <3> QED  BY <1>5, <3>1, <3>2, <3>3, <3>4, <3>5, <3>6
  <2> QED  BY <2>1, <2>2, LooseSettled
<1> QED  BY <1>2, <1>3, <1>4, <1>5 DEF SubmitProgress

(* A poll that may still go on, with an attempt to work on, finds the claim not
   reconciled; one that reconciles says so in the latest attempt. *)
LEMMA PollSettled ==
  ASSUME RetentionOutlastsProject, TypeOK, SettledInv, NEW w \in Workers,
         PollExpired(w) \/ PollPending(w) \/ PollAccepted(w) \/ PollProgress(w)
  PROVE  SettledInv'
<1> USE DEF registrationVars, attemptVars
<1>1. SettledOf(w) /\ pc \in [Workers -> Steps] /\ mine \in [Workers -> Locals] /\ now \in Nat
  BY DEF SettledInv, TypeOK, HandlersTyped
<1>2. HasAttempt => Latest \in AttemptIds
  BY StoreAssumption DEF HasAttempt, Latest, AttemptIds, TypeOK, AttemptsTyped
<1>3. CASE PollExpired(w)
  <2>1. WorkerStep(w, "idle") /\ UNCHANGED <<claimState, attempts>>
    BY <1>3, HelpersStep DEF PollExpired
  <2>2. HasAttempt /\ attState[Latest] = "reconciled" => attState'[Latest] = "reconciled"
    BY <1>3 DEF PollExpired
  <2> QED  BY <2>1, <2>2, LooseNamed, LooseSettled
<1>4. CASE PollPending(w) \/ PollAccepted(w)
  <2>1. PICK step \in {"pollOwner", "pollReconcile"} :
          /\ WorkerStep(w, step)
          /\ mine'[w] = [[NoLocals EXCEPT !.att = Latest] EXCEPT !.since = now]
          /\ step = "pollOwner" => attState[Latest] = "pending"
    <3>1. CASE PollPending(w)
      <4>1. Acquire(w, "pollOwner", [NoLocals EXCEPT !.att = Latest]) /\ attState[Latest] = "pending"
        BY <3>1 DEF PollPending
      <4> QED  BY <4>1, HelpersStep
    <3>2. CASE PollAccepted(w)
      <4>1. Acquire(w, "pollReconcile", [NoLocals EXCEPT !.att = Latest])
        BY <3>2 DEF PollAccepted
      <4> QED  BY <4>1, HelpersStep
    <3> QED  BY <1>4, <3>1, <3>2
  <2>2. UNCHANGED <<claimState, attempts, attState>> /\ HasAttempt /\ now < ProjectTTL
    BY <1>4 DEF PollPending, PollAccepted, MayPoll
  <2>3. step = "pollOwner" => claimState # "reconciled"
    <3>1. ~(now > Retention)
      BY <1>1, <2>2, StoreAssumption DEF RetentionOutlastsProject
    <3> QED  BY <2>1, <3>1 DEF SettledInv
  <2>4. mine'[w].att = Latest
    BY <2>1 DEF NoLocals
  <2>5. SettledOf(w)'
    BY <1>1, <2>1, <2>2, <2>3, <2>4
    DEF SettledOf, WorkerStep, MovesTo, ClaimSteps, MintSteps, PurgeSteps, Latest, HasAttempt
  <2> QED  BY <2>1, <2>2, <2>5, SettledAside
<1>5. CASE PollOwner(w) \/ PollMarkAttempt(w) \/ PollMarkRegistration(w)
  <2>1. PICK step \in {"pollMarkAttempt", "pollMarkRegistration", "pollReconcile"} :
          WorkerStep(w, step) /\ mine'[w] = mine[w] /\ lock' = lock
    BY <1>5, HelpersStep, HelpersMove DEF PollOwner, PollMarkAttempt, PollMarkRegistration
  <2>2. attempts' = attempts /\ claimState' \in {claimState, "accepted"}
    BY <1>5 DEF PollOwner, PollMarkAttempt, PollMarkRegistration
  <2>3. lock = w => claimState # "reconciled" /\ mine[w].att = Latest /\ HasAttempt
    BY <1>1, <1>5 DEF PollOwner, PollMarkAttempt, PollMarkRegistration, SettledOf, ClaimSteps,
       PollSteps
  <2>4. SettledOf(w)'
    BY <1>1, <2>1, <2>2, <2>3
    DEF SettledOf, WorkerStep, MovesTo, PurgeSteps, Latest, HasAttempt
  <2>5. CASE PollOwner(w) \/ PollMarkRegistration(w)
    BY <2>1, <2>2, <2>4, <2>5, SettledAside DEF PollOwner, PollMarkRegistration
  <2>6. CASE PollMarkAttempt(w)
    <3>1. lock = w /\ claimState' = claimState
      BY <2>6 DEF PollMarkAttempt, Holds
    <3>2. ASSUME NEW v \in Workers, v # w  PROVE SettledOf(v)'
      <4>1. pc'[v] = pc[v] /\ now' = now /\ lock' # v
        BY <1>1, <2>1, <3>1, <3>2 DEF WorkerStep, MovesTo
      <4>2. SettledOf(v)
        BY DEF SettledInv
      <4> QED  BY <4>1, <4>2 DEF SettledOf
    <3> QED  BY <2>3, <2>4, <3>1, <3>2 DEF SettledInv
  <2> QED  BY <1>5, <2>5, <2>6
<1>6. CASE PollReconcile(w)
  <2>1. lock = w /\ lock' = NoOne /\ WorkerStep(w, "idle") /\ attempts' = attempts
    BY <1>6, HelpersStep DEF PollReconcile, Holds, Finish
  <2>2. mine[w].att = Latest /\ HasAttempt
    BY <1>1, <1>6, <2>1 DEF PollReconcile, SettledOf, PollSteps
  <2>3. attState'[Latest] = "reconciled"
    BY <1>2, <1>6, <2>2 DEF PollReconcile, TypeOK, AttemptsTyped
  <2>4. ASSUME NEW v \in Workers  PROVE SettledOf(v)'
    <3>1. lock' # v /\ now' = now /\ (pc'[v] = pc[v] \/ pc'[v] = "idle")
      BY <1>1, <2>1, StoreAssumption DEF WorkerStep, MovesTo
    <3>2. SettledOf(v)
      BY DEF SettledInv
    <3> QED  BY <3>1, <3>2 DEF SettledOf, PurgeSteps
  <2> QED  BY <2>1, <2>2, <2>3, <2>4 DEF SettledInv, Latest, HasAttempt
<1> QED  BY <1>3, <1>4, <1>5, <1>6 DEF PollProgress

(* A janitor run works, and reconciles, after the retention period. *)
LEMMA PurgeSettled ==
  ASSUME TypeOK, SettledInv, NEW w \in Workers, PurgeBegin(w) \/ PurgeProgress(w)
  PROVE  SettledInv'
<1> USE DEF registrationVars, attemptVars
<1>1. SettledOf(w) /\ pc \in [Workers -> Steps]
  BY DEF SettledInv, TypeOK, HandlersTyped
<1>2. now > Retention /\ UNCHANGED <<attempts, attState>>
  BY <1>1 DEF PurgeProgress, PurgeBegin, PurgeOwner, PurgeDelete, PurgeKey, PurgeCommit,
     RetentionOver, SettledOf, PurgeSteps
<1>3. PICK step \in PurgeSteps \cup {"idle"} :
        WorkerStep(w, step) /\ (step = "idle" \/ claimState' = claimState)
  <2>1. CASE PurgeBegin(w)
    BY <2>1, HelpersStep DEF PurgeBegin, PurgeSteps
  <2>2. CASE PurgeOwner(w) \/ PurgeDelete(w) \/ PurgeKey(w)
    BY <2>2, HelpersStep DEF PurgeOwner, PurgeDelete, PurgeKey, PurgeSteps
  <2>3. CASE PurgeCommit(w)
    BY <2>3, HelpersStep DEF PurgeCommit
  <2> QED  BY <2>1, <2>2, <2>3 DEF PurgeProgress
<1>4. SettledOf(w)'
  BY <1>1, <1>2, <1>3
  DEF SettledOf, WorkerStep, MovesTo, ClaimSteps, MintSteps, PollSteps, PurgeSteps
<1>5. CASE claimState' = claimState
  BY <1>2, <1>3, <1>4, <1>5, SettledAside
<1>6. CASE claimState' # claimState
  <2>1. lock = w /\ lock' = NoOne
    BY <1>6 DEF PurgeProgress, PurgeBegin, PurgeOwner, PurgeDelete, PurgeKey, PurgeCommit, Holds,
       Finish
  <2>2. ASSUME NEW v \in Workers  PROVE SettledOf(v)'
    <3>1. lock' # v /\ now' = now /\ (pc'[v] = pc[v] \/ v = w)
      BY <1>1, <1>3, <2>1, StoreAssumption DEF WorkerStep, MovesTo
    <3>2. SettledOf(v)
      BY DEF SettledInv
    <3> QED  BY <1>4, <3>1, <3>2 DEF SettledOf
  <2>3. now' = now
    BY <1>3 DEF WorkerStep
  <2> QED  BY <1>2, <2>2, <2>3 DEF SettledInv
<1> QED  BY <1>5, <1>6

(* The rest of the system touches no claim; a handler whose backend drops has
   nothing to rely on any more. *)
LEMMA EnvironmentSettled ==
  ASSUME TypeOK, SettledInv,
         \/ RevokeToken \/ Connect \/ AlterRoles \/ AcceptTransfer \/ Tick
         \/ \E w \in Workers : Abort(w) \/ DropBackend(w)
  PROVE  SettledInv'
<1> USE DEF registrationVars, attemptVars, handlerVars
<1>1. CASE \E w \in Workers : Abort(w)
  <2>1. PICK w \in Workers : WorkerStep(w, "idle") /\ UNCHANGED <<claimState, attempts, attState>>
    BY <1>1, HelpersStep DEF Abort
  <2> QED  BY <2>1, LooseNamed, LooseSettled
<1>2. CASE \/ RevokeToken \/ Connect \/ AlterRoles \/ AcceptTransfer \/ Tick
           \/ \E w \in Workers : DropBackend(w)
  <2>1. /\ UNCHANGED <<claimState, attempts, attState, pc, mine>>
        /\ lock' \in {lock, NoOne} /\ now' \in {now, now + 1}
    BY <1>2 DEF RevokeToken, Connect, AlterRoles, AcceptTransfer, Tick, DropBackend
  <2>2. now > Retention => now' > Retention
    BY <2>1, StoreAssumption DEF TypeOK, HandlersTyped
  <2> QED  BY <2>1, <2>2, StoreAssumption DEF SettledInv, SettledOf, Latest, HasAttempt
<1> QED  BY <1>1, <1>2

(* At first no claim is reconciled. *)
LEMMA InitSettled == Init => SettledInv
BY DEF Init, StoreInit, SettledInv, SettledOf, ClaimSteps, MintSteps, PollSteps, PurgeSteps

(* Every step keeps a reconciled claim recognisable. *)
LEMMA NextSettled ==
  ASSUME RetentionOutlastsProject
  PROVE  TypeOK /\ SettledInv /\ [Next]_vars => SettledInv'
<1> SUFFICES ASSUME TypeOK, SettledInv, [Next]_vars PROVE SettledInv'
  OBVIOUS
<1>1. CASE AgentNext
  BY <1>1, AgentSettled, EnvironmentSettled DEF AgentNext
<1>2. CASE IssueNext
  BY <1>2, IssueSettled DEF IssueNext
<1>3. CASE SubmitNext
  BY <1>3, SubmitSettled, EnvironmentSettled DEF SubmitNext
<1>4. CASE PollNext
  BY <1>4, PollSettled DEF PollNext
<1>5. CASE PurgeNext
  BY <1>5, PurgeSettled DEF PurgeNext
<1>6. CASE (\E w \in Workers : Abort(w) \/ DropBackend(w)) \/ Tick
  BY <1>6, EnvironmentSettled
<1>7. CASE UNCHANGED vars
  BY <1>7 DEF vars, SettledInv, SettledOf, Latest, HasAttempt
<1> QED  BY <1>1, <1>2, <1>3, <1>4, <1>5, <1>6, <1>7 DEF Next

(* When the janitor begins after the registration has expired, a handler that
   still has the lock never works on a claim that is reconciled already. *)
THEOREM ReconciledStays ==
  ASSUME RetentionOutlastsProject  PROVE Spec => []SettledInv
<1>1. Init => SettledInv
  BY InitSettled
<1>2. TypeOK /\ SettledInv /\ [Next]_vars => SettledInv'
  BY NextSettled
<1> QED  BY <1>1, <1>2, TypeCorrect, PTL DEF Spec

-----------------------------------------------------------------------------
(* The refinement of ClaimPromise. *)

(* A step of the promise, or none. *)
PromiseStep == [Promise!PromiseNext]_(Promise!promiseVars)

(* A step that changes none of it. *)
LEMMA NoPromise ==
  ASSUME UNCHANGED <<owner, frozen, claimState, attOffered, keyLive, knownPw, session>>
  PROVE  PromiseStep
BY DEF PromiseStep, Promise!promiseVars, Phase, Secrets, Offered

(* Once a project is offered, no secret opens it; nor does any open a deleted
   one. *)
LEMMA NoSecretsBehindOffer ==
  ASSUME TypeOK, TeardownInv, Offered \/ owner # "holding"
  PROVE  Secrets = FALSE
BY DEF TeardownInv, OfferInv, KeyInv, Secrets, TypeOK, ProjectTyped

(* Secrets die while a claim is under way, one of them at a time. *)
LEMMA RevokingStep ==
  ASSUME TypeOK, TeardownInv, frozen \/ owner # "holding",
         UNCHANGED <<owner, frozen, claimState, attOffered>>,
         keyLive' => keyLive, knownPw' => knownPw, session' => session
  PROVE  PromiseStep
<1>1. Phase' = Phase /\ (Secrets' => Secrets) /\ Secrets \in BOOLEAN /\ Secrets' \in BOOLEAN
  BY DEF Phase, Secrets, Offered
<1>2. CASE Secrets
  <2>1. owner = "holding" /\ ~Offered /\ frozen
    BY <1>2, NoSecretsBehindOffer
  <2>2. Phase = "claiming"
    BY <2>1 DEF Phase
  <2> QED  BY <1>1, <1>2, <2>2
           DEF PromiseStep, Promise!promiseVars, Promise!PromiseNext, Promise!RevokeSecrets
<1>3. CASE ~Secrets
  BY <1>1, <1>3 DEF PromiseStep, Promise!promiseVars
<1> QED  BY <1>2, <1>3

(* A password is handed out, or made by a session, while another secret opens
   the project anyway. *)
LEMMA AnotherSecret ==
  ASSUME UNCHANGED <<owner, frozen, claimState, attOffered>>, Secrets <=> Secrets'
  PROVE  PromiseStep
<1>1. Secrets = Secrets'
  BY DEF Secrets
<1> QED  BY <1>1 DEF PromiseStep, Promise!promiseVars, Phase, Offered

(* The project is deleted before any human has it. *)
LEMMA VanishStep ==
  ASSUME TypeOK, owner = "holding", owner' = "deleted"
  PROVE  PromiseStep
<1>1. Phase \in {"open", "claiming", "offered"} /\ Phase' = "gone" /\ Secrets' = FALSE
  BY DEF Phase, Secrets, TypeOK, RowsTyped
<1> QED  BY <1>1 DEF PromiseStep, Promise!PromiseNext, Promise!Vanish

(* A claim that is reconciled was moved; so is one that is written off as such
   after the project was deleted. *)
LEMMA SettleStep ==
  ASSUME TypeOK, owner # "holding",
         claimState' \in {"reconciled", claimState},
         UNCHANGED <<owner, frozen, attOffered, keyLive, knownPw, session>>
  PROVE  PromiseStep
<1>1. Secrets' = Secrets /\ owner \in {"human", "deleted"}
  BY DEF Secrets, TypeOK, ProjectTyped
<1>2. CASE owner = "deleted"
  BY <1>1, <1>2 DEF PromiseStep, Promise!promiseVars, Phase
<1>3. CASE owner = "human" /\ claimState' = "reconciled" /\ claimState # "reconciled"
  <2>1. Phase = "moved" /\ Phase' = "settled"
    BY <1>3 DEF Phase
  <2> QED  BY <1>1, <2>1 DEF PromiseStep, Promise!PromiseNext, Promise!SettleClaim
<1>4. CASE owner = "human" /\ claimState' = claimState
  BY <1>1, <1>4 DEF PromiseStep, Promise!promiseVars, Phase
<1> QED  BY <1>1, <1>2, <1>3, <1>4

(* A claim that is pending or accepted, under the lock, was not reconciled. *)
LEMMA ClaimStateStep ==
  ASSUME claimState # "reconciled", claimState' # "reconciled",
         UNCHANGED <<owner, frozen, attOffered, keyLive, knownPw, session>>
  PROVE  PromiseStep
BY DEF PromiseStep, Promise!promiseVars, Phase, Secrets, Offered

(* The agent's requests: it gets more of what it has, until it deletes its
   project. *)
LEMMA AgentPromise ==
  ASSUME TypeOK, TeardownInv, EndInv, AgentNext
  PROVE  PromiseStep
<1> USE DEF registrationVars, attemptVars, projectVars, databaseVars, handlerVars
<1>1. ASSUME NEW w \in Workers, HandOutRecorded(w) \/ HandOutUnrecorded(w)  PROVE PromiseStep
  <2>1. /\ ~frozen
        /\ UNCHANGED <<owner, frozen, claimState, attOffered, keyLive, session>> /\ knownPw'
    BY <1>1 DEF HandOutRecorded, HandOutUnrecorded, Holds, TeardownInv, FreezeInv
  <2>2. owner = "deleted" \/ keyLive
    BY <2>1 DEF EndInv, EndRows, TeardownInv, OfferInv, TypeOK, ProjectTyped
  <2> QED  BY <2>1, <2>2, AnotherSecret DEF Secrets
<1>2. CASE Connect \/ AlterRoles
  <2>1. UNCHANGED <<owner, frozen, claimState, attOffered, keyLive>>
    BY <1>2 DEF Connect, AlterRoles
  <2>2. (knownPw \/ session) /\ (knownPw' \/ session')
    BY <1>2 DEF Connect, AlterRoles
  <2> QED  BY <2>1, <2>2, AnotherSecret DEF Secrets
<1>3. ASSUME NEW w \in Workers, DeleteProject(w)  PROVE PromiseStep
  BY <1>3, VanishStep DEF DeleteProject
<1>4. ASSUME NEW w \in Workers, DeleteKey(w)  PROVE PromiseStep
  <2>1. owner = "deleted"
    BY <1>4 DEF DeleteKey, EndInv, EndAt
  <2> QED  BY <1>4, <2>1, RevokingStep DEF DeleteKey
<1>5. CASE \/ RevokeToken
           \/ \E w \in Workers :
                \/ ExchangeVerify(w) \/ ExchangeRead(w) \/ ExchangeRecord(w) \/ OpBegin(w)
                \/ OpCall(w) \/ DeleteBegin(w) \/ DeleteTokens(w) \/ DeleteMark(w)
                \/ DeleteRegistration(w)
  BY <1>5, NoPromise DEF RevokeToken, ExchangeVerify, ExchangeRead, ExchangeRecord, OpBegin, OpCall,
     DeleteBegin, DeleteTokens, DeleteMark, DeleteRegistration
<1> QED  BY <1>1, <1>2, <1>3, <1>4, <1>5 DEF AgentNext, AgentProgress

(* Claim codes are no part of the promise. *)
LEMMA IssuePromise ==
  ASSUME IssueNext
  PROVE  PromiseStep
BY NoPromise DEF IssueNext, IssueProgress, IssueVerify, IssueDecide, IssueOwner, IssueClose,
   IssueInsert, registrationVars, attemptVars, projectVars, databaseVars

(* A submission begins the claim, takes the secrets away, and only then offers
   the project. *)
LEMMA SubmitPromise ==
  ASSUME TypeOK, TeardownInv, EndInv, SettledInv, NEW w \in Workers, SubmitFind(w) \/ SubmitProgress(w)
  PROVE  PromiseStep
<1> USE DEF registrationVars, attemptVars, projectVars, databaseVars
<1>1. CASE FreezeIssuance(w)
  <2>1. frozen' = TRUE /\ UNCHANGED <<owner, claimState, attOffered, keyLive, knownPw, session>>
    BY <1>1 DEF FreezeIssuance
  <2>2. CASE frozen
    BY <2>1, <2>2, NoPromise DEF TypeOK, RowsTyped
  <2>3. CASE ~frozen
    <3>1. ~Offered /\ owner # "human"
      BY <2>3 DEF TeardownInv, OfferInv
    <3>2. Secrets' = Secrets
      BY <2>1 DEF Secrets
    <3>3. CASE owner = "holding"
      <4>1. Phase = "open" /\ Phase' = "claiming"
        BY <2>1, <2>3, <3>1, <3>3 DEF Phase, Offered
      <4> QED  BY <3>2, <4>1 DEF PromiseStep, Promise!PromiseNext, Promise!BeginClaim
    <3>4. CASE owner = "deleted"
      BY <2>1, <3>2, <3>4 DEF PromiseStep, Promise!promiseVars, Phase
    <3> QED  BY <3>1, <3>3, <3>4 DEF TypeOK, ProjectTyped
  <2> QED  BY <2>2, <2>3
<1>2. CASE SetPending(w)
  <2>1. claimState # "reconciled"
    BY <1>2 DEF SetPending, Holds, SettledInv, SettledOf, ClaimSteps
  <2> QED  BY <1>2, <2>1, ClaimStateStep DEF SetPending
<1>3. CASE RevokeKey(w) \/ ResetRoles(w) \/ DisableCompute(w)
  <2>1. frozen
    BY <1>3 DEF RevokeKey, ResetRoles, DisableCompute, TeardownInv, FreezeInv, FrozenSteps,
       SubmitSteps
  <2>2. /\ UNCHANGED <<owner, frozen, claimState, attOffered>>
        /\ (keyLive' => keyLive) /\ (knownPw' => knownPw) /\ (session' => session)
    BY <1>3 DEF RevokeKey, ResetRoles, DisableCompute
  <2> QED  BY <2>1, <2>2, RevokingStep
<1>4. CASE StartTransfer(w)
  <2>1. UNCHANGED <<owner, frozen, claimState, keyLive, knownPw, session>> /\ frozen
    BY <1>4 DEF StartTransfer, TeardownInv, FreezeInv, FrozenSteps, SubmitSteps
  <2>2. ~Secrets /\ Secrets' = Secrets
    BY <1>4, <2>1 DEF StartTransfer, TeardownInv, KeyInv, AccessInv, KeyDeadSteps, FrozenSteps,
       SubmitSteps, QuietSteps, Secrets
  <2>3. Offered => Offered'
    BY <1>4 DEF StartTransfer, Offered, TypeOK, AttemptsTyped
  <2>4. CASE owner = "holding" /\ ~Offered /\ Offered'
    <3>1. Phase = "claiming" /\ Phase' = "offered"
      BY <2>1, <2>4 DEF Phase
    <3> QED  BY <2>2, <3>1 DEF PromiseStep, Promise!PromiseNext, Promise!OfferProject
  <2>5. CASE owner # "holding" \/ (Offered <=> Offered')
    <3>1. Phase' = Phase
      BY <2>1, <2>5 DEF Phase, TypeOK, ProjectTyped
    <3> QED  BY <2>2, <3>1 DEF PromiseStep, Promise!promiseVars
  <2> QED  BY <2>3, <2>4, <2>5
<1>5. CASE \/ SubmitFind(w) \/ SubmitExpired(w) \/ SubmitBegin(w) \/ MarkKey(w)
           \/ RolesUnchanged(w) \/ RolesChanged(w) \/ Reenable(w) \/ MarkDerived(w)
           \/ RevokeAccess(w) \/ EnableCompute(w) \/ CreateTransfer(w)
  BY <1>5, NoPromise DEF SubmitFind, SubmitExpired, SubmitBegin, MarkKey, RolesUnchanged,
     RolesChanged, Reenable, MarkDerived, RevokeAccess, EnableCompute, CreateTransfer
<1> QED  BY <1>1, <1>2, <1>3, <1>4, <1>5 DEF SubmitProgress

(* The human takes what was offered. *)
LEMMA AcceptPromise ==
  ASSUME TypeOK, EndInv, AcceptTransfer
  PROVE  PromiseStep
<1>1. /\ owner = "holding" /\ owner' = "human" /\ Offered
      /\ UNCHANGED <<claimState, keyLive, knownPw, session>>
  BY DEF AcceptTransfer, Offered, registrationVars, databaseVars
<1>2. claimState # "reconciled"
  BY <1>1 DEF EndInv, EndRows
<1>3. Phase = "offered" /\ Phase' = "moved" /\ Secrets' = Secrets
  BY <1>1, <1>2 DEF Phase, Secrets
<1> QED  BY <1>3 DEF PromiseStep, Promise!PromiseNext, Promise!AcceptProject

(* A poll settles a claim, once. *)
LEMMA PollPromise ==
  ASSUME TypeOK, EndInv, SettledInv, NEW w \in Workers,
         PollExpired(w) \/ PollPending(w) \/ PollAccepted(w) \/ PollProgress(w)
  PROVE  PromiseStep
<1> USE DEF registrationVars, attemptVars, projectVars, databaseVars
<1>1. CASE PollMarkRegistration(w)
  <2>1. claimState # "reconciled"
    BY <1>1 DEF PollMarkRegistration, Holds, SettledInv, SettledOf, ClaimSteps
  <2> QED  BY <1>1, <2>1, ClaimStateStep DEF PollMarkRegistration
<1>2. CASE PollReconcile(w)
  <2>1. owner # "holding"
    BY <1>2 DEF PollReconcile, EndInv, EndAt, PollSteps
  <2> QED  BY <1>2, <2>1, SettleStep DEF PollReconcile
<1>3. CASE PollExpired(w) \/ PollPending(w) \/ PollAccepted(w) \/ PollOwner(w) \/ PollMarkAttempt(w)
  BY <1>3, NoPromise DEF PollExpired, PollPending, PollAccepted, PollOwner, PollMarkAttempt
<1> QED  BY <1>1, <1>2, <1>3 DEF PollProgress

(* So does the janitor; or it deletes what nobody claimed. *)
LEMMA PurgePromise ==
  ASSUME TypeOK, TeardownInv, EndInv, NEW w \in Workers, PurgeBegin(w) \/ PurgeProgress(w)
  PROVE  PromiseStep
<1> USE DEF registrationVars, attemptVars, projectVars, databaseVars
<1>1. CASE PurgeDelete(w)
  <2>1. CASE owner = "holding"
    BY <1>1, <2>1, VanishStep DEF PurgeDelete
  <2>2. CASE owner # "holding"
    BY <1>1, <2>2, NoPromise DEF PurgeDelete
  <2> QED  BY <2>1, <2>2
<1>2. CASE PurgeKey(w)
  <2>1. owner # "holding"
    BY <1>2 DEF PurgeKey, EndInv, EndAt
  <2> QED  BY <1>2, <2>1, RevokingStep DEF PurgeKey
<1>3. CASE PurgeCommit(w)
  <2>1. owner # "holding"
    BY <1>3 DEF PurgeCommit, EndInv, EndAt
  <2>2. claimState' \in {"reconciled", claimState}
    BY <1>3 DEF PurgeCommit
  <2> QED  BY <1>3, <2>1, <2>2, SettleStep DEF PurgeCommit
<1>4. CASE PurgeBegin(w) \/ PurgeOwner(w)
  BY <1>4, NoPromise DEF PurgeBegin, PurgeOwner
<1> QED  BY <1>1, <1>2, <1>3, <1>4 DEF PurgeProgress

(* Every step of the ceremony is one the promise allows, or none. *)
LEMMA NextPromise ==
  TypeOK /\ TeardownInv /\ EndInv /\ SettledInv /\ [Next]_vars => PromiseStep
<1> SUFFICES ASSUME TypeOK, TeardownInv, EndInv, SettledInv, [Next]_vars PROVE PromiseStep
  OBVIOUS
<1>1. CASE AgentNext
  BY <1>1, AgentPromise
<1>2. CASE IssueNext
  BY <1>2, IssuePromise
<1>3. CASE SubmitNext
  BY <1>3, SubmitPromise, AcceptPromise DEF SubmitNext
<1>4. CASE PollNext
  BY <1>4, PollPromise DEF PollNext
<1>5. CASE PurgeNext
  BY <1>5, PurgePromise DEF PurgeNext
<1>6. CASE (\E w \in Workers : Abort(w) \/ DropBackend(w)) \/ Tick
  BY <1>6, NoPromise DEF Abort, DropBackend, Tick, registrationVars, attemptVars, projectVars,
     databaseVars
<1>7. CASE UNCHANGED vars
  BY <1>7, NoPromise DEF vars
<1> QED  BY <1>1, <1>2, <1>3, <1>4, <1>5, <1>6, <1>7 DEF Next

(* The ceremony implements the promise made to the two people of a claim, for
   any number of requests and codes, whatever fails and with backends that drop,
   when the janitor begins after the registration has expired. *)
THEOREM PromiseKept ==
  ASSUME RetentionOutlastsProject  PROVE Spec => KeepsPromise
<1>1. Init => Promise!PromiseInit
  BY DEF Init, StoreInit, Promise!PromiseInit, Phase, Secrets, Offered
<1>2. TypeOK /\ TeardownInv /\ EndInv /\ SettledInv /\ [Next]_vars
        => [Promise!PromiseNext]_(Promise!promiseVars)
  BY NextPromise DEF PromiseStep
<1> QED
  BY <1>1, <1>2, TypeCorrect, TeardownStepByStep, EndsStepByStep, ReconciledStays, PTL
  DEF Spec, KeepsPromise, Promise!PromiseSpec

-----------------------------------------------------------------------------
(* One handler at a time, as long as no SQL backend drops. *)

(* What these theorems suppose. *)
NoDrops == BackendDrops = FALSE

(* Who has taken the lock still holds it. *)
AloneInv == \A w \in Workers : InLock(w) => lock = w

(* A handler gets there by taking the lock, and is outside when it ends. *)
LEMMA HelpersAlone ==
  ASSUME TypeOK, AloneInv, NEW w \in Workers, NEW step, NEW locals
  PROVE  /\ Goto(w, step) /\ (InLock(w) \/ step \in OutsideSteps) => AloneInv'
         /\ GotoWith(w, step, locals) /\ (InLock(w) \/ step \in OutsideSteps) => AloneInv'
         /\ Acquire(w, step, locals) => AloneInv'
         /\ Finish(w) => AloneInv'
<1>1. pc \in [Workers -> Steps]
  BY DEF TypeOK, HandlersTyped
<1>2. Goto(w, step) /\ (InLock(w) \/ step \in OutsideSteps) => AloneInv'
  BY <1>1 DEF Goto, AloneInv, InLock, OutsideSteps
<1>3. GotoWith(w, step, locals) /\ (InLock(w) \/ step \in OutsideSteps) => AloneInv'
  BY <1>1 DEF GotoWith, AloneInv, InLock, OutsideSteps
<1>4. Acquire(w, step, locals) => AloneInv'
  BY <1>1, StoreAssumption DEF Acquire, AloneInv, InLock
<1>5. Finish(w) => AloneInv'
  BY <1>1 DEF Finish, AloneInv, InLock
<1> QED  BY <1>2, <1>3, <1>4, <1>5

(* The agent's requests. *)
LEMMA AgentAlone ==
  ASSUME TypeOK, AloneInv, NEW w \in Workers,
         ExchangeVerify(w) \/ OpBegin(w) \/ DeleteBegin(w) \/ AgentProgress(w)
  PROVE  AloneInv'
<1> USE HelpersAlone DEF OutsideSteps
<1>1. CASE ExchangeVerify(w) \/ ExchangeRead(w) \/ OpBegin(w) \/ DeleteBegin(w)
  BY <1>1 DEF ExchangeVerify, ExchangeRead, OpBegin, DeleteBegin
<1>2. CASE \/ ExchangeRecord(w) \/ HandOutRecorded(w) \/ HandOutUnrecorded(w)
           \/ DeleteRegistration(w)
  BY <1>2 DEF ExchangeRecord, HandOutRecorded, HandOutUnrecorded, DeleteRegistration
<1>3. CASE OpCall(w) \/ DeleteProject(w) \/ DeleteKey(w) \/ DeleteTokens(w) \/ DeleteMark(w)
  <2>1. InLock(w)
    BY <1>3 DEF OpCall, DeleteProject, DeleteKey, DeleteTokens, DeleteMark, InLock
  <2> QED  BY <1>3, <2>1 DEF OpCall, DeleteProject, DeleteKey, DeleteTokens, DeleteMark
<1> QED  BY <1>1, <1>2, <1>3 DEF AgentProgress

(* Minting a code. *)
LEMMA IssueAlone ==
  ASSUME TypeOK, AloneInv, NEW w \in Workers, IssueVerify(w) \/ IssueProgress(w)
  PROVE  AloneInv'
<1> USE HelpersAlone DEF OutsideSteps
<1>1. CASE IssueVerify(w) \/ IssueDecide(w) \/ IssueInsert(w)
  BY <1>1 DEF IssueVerify, IssueDecide, IssueInsert
<1>2. CASE IssueOwner(w) \/ IssueClose(w)
  <2>1. InLock(w)
    BY <1>2 DEF IssueOwner, IssueClose, InLock
  <2> QED  BY <1>2, <2>1 DEF IssueOwner, IssueClose
<1> QED  BY <1>1, <1>2 DEF IssueProgress

(* Redeeming one. *)
LEMMA SubmitAlone ==
  ASSUME TypeOK, AloneInv, NEW w \in Workers, SubmitFind(w) \/ SubmitProgress(w)
  PROVE  AloneInv'
<1> USE HelpersAlone DEF OutsideSteps
<1>1. CASE SubmitFind(w) \/ SubmitExpired(w) \/ SubmitBegin(w) \/ StartTransfer(w)
  BY <1>1 DEF SubmitFind, SubmitExpired, SubmitBegin, StartTransfer
<1>2. CASE ResetRoles(w)
  BY <1>2 DEF ResetRoles, AloneInv, InLock, TypeOK, HandlersTyped
<1>3. CASE \/ FreezeIssuance(w) \/ SetPending(w) \/ RevokeKey(w) \/ MarkKey(w)
           \/ DisableCompute(w) \/ RolesUnchanged(w) \/ RolesChanged(w) \/ Reenable(w)
           \/ MarkDerived(w) \/ RevokeAccess(w) \/ EnableCompute(w) \/ CreateTransfer(w)
  <2>1. InLock(w)
    BY <1>3 DEF FreezeIssuance, SetPending, RevokeKey, MarkKey, DisableCompute, RolesUnchanged,
       RolesChanged, Reenable, MarkDerived, RevokeAccess, EnableCompute, CreateTransfer, InLock
  <2>2. \E step, locals : Goto(w, step) \/ GotoWith(w, step, locals)
    BY <1>3 DEF FreezeIssuance, SetPending, RevokeKey, MarkKey, DisableCompute, RolesUnchanged,
       RolesChanged, Reenable, MarkDerived, RevokeAccess, EnableCompute, CreateTransfer
  <2> QED  BY <2>1, <2>2
<1> QED  BY <1>1, <1>2, <1>3 DEF SubmitProgress

(* Polls and janitor runs. *)
LEMMA PollPurgeAlone ==
  ASSUME TypeOK, AloneInv, PollNext \/ PurgeNext
  PROVE  AloneInv'
<1> USE HelpersAlone
<1>1. ASSUME NEW w \in Workers,
             PollExpired(w) \/ PollPending(w) \/ PollAccepted(w) \/ PollReconcile(w)
      PROVE  AloneInv'
  BY <1>1 DEF PollExpired, PollPending, PollAccepted, PollReconcile
<1>2. ASSUME NEW w \in Workers, PollOwner(w) \/ PollMarkAttempt(w) \/ PollMarkRegistration(w)
      PROVE  AloneInv'
  <2>1. InLock(w)
    BY <1>2 DEF PollOwner, PollMarkAttempt, PollMarkRegistration, InLock
  <2> QED  BY <1>2, <2>1 DEF PollOwner, PollMarkAttempt, PollMarkRegistration
<1>3. ASSUME NEW w \in Workers, PurgeBegin(w) \/ PurgeCommit(w)  PROVE AloneInv'
  BY <1>3 DEF PurgeBegin, PurgeCommit
<1>4. ASSUME NEW w \in Workers, PurgeOwner(w) \/ PurgeDelete(w) \/ PurgeKey(w)  PROVE AloneInv'
  <2>1. InLock(w)
    BY <1>4 DEF PurgeOwner, PurgeDelete, PurgeKey, InLock
  <2> QED  BY <1>4, <2>1 DEF PurgeOwner, PurgeDelete, PurgeKey
<1> QED  BY <1>1, <1>2, <1>3, <1>4 DEF PollNext, PollProgress, PurgeNext, PurgeProgress

(* Every step, when no backend drops. *)
LEMMA NextAlone ==
  ASSUME NoDrops
  PROVE  TypeOK /\ AloneInv /\ [Next]_vars => AloneInv'
<1> SUFFICES ASSUME TypeOK, AloneInv, [Next]_vars PROVE AloneInv'
  OBVIOUS
<1>1. CASE AgentNext
  <2>1. CASE RevokeToken \/ Connect \/ AlterRoles
    BY <2>1 DEF RevokeToken, Connect, AlterRoles, AloneInv, InLock, handlerVars
  <2> QED  BY <1>1, <2>1, AgentAlone DEF AgentNext
<1>2. CASE IssueNext
  BY <1>2, IssueAlone DEF IssueNext
<1>3. CASE SubmitNext
  <2>1. CASE AcceptTransfer
    BY <2>1 DEF AcceptTransfer, AloneInv, InLock, handlerVars
  <2> QED  BY <1>3, <2>1, SubmitAlone DEF SubmitNext
<1>4. CASE PollNext \/ PurgeNext
  BY <1>4, PollPurgeAlone
<1>5. CASE \E w \in Workers : Abort(w) \/ DropBackend(w)
  BY <1>5, HelpersAlone DEF Abort, DropBackend, NoDrops
<1>6. CASE Tick \/ UNCHANGED vars
  BY <1>6 DEF Tick, vars, AloneInv, InLock, handlerVars
<1> QED  BY <1>1, <1>2, <1>3, <1>4, <1>5, <1>6 DEF Next

(* While no SQL backend drops, the handlers of a registration run one after the
   other: who has taken the lock holds it until it answers. *)
THEOREM HandlersTakeTurns ==
  ASSUME NoDrops  PROVE Spec => []AloneInv
<1>1. Init => AloneInv
  BY DEF Init, StoreInit, AloneInv, InLock
<1>2. TypeOK /\ AloneInv /\ [Next]_vars => AloneInv'
  BY NextAlone
<1> QED  BY <1>1, <1>2, TypeCorrect, PTL DEF Spec

-----------------------------------------------------------------------------
(* The compute behind an offer. *)

ComputeOf(w) ==
  /\ pc[w] \in RedeemSteps => NoOpenOffer
  /\ pc[w] \in {"createTransfer", "startTransfer"} => computeOn

(* A handler takes the compute down only when no offer is open, and offers a
   project only with its compute up again. *)
ComputeInv == OfferComesWithCompute /\ \A w \in Workers : ComputeOf(w)

(* A move that leaves the compute and the offers alone. *)
LEMMA ComputeAside ==
  ASSUME TypeOK, ComputeInv, NEW w \in Workers, NEW step, WorkerStep(w, step), ComputeOf(w)',
         UNCHANGED <<computeOn, attOffered>>, owner' = owner \/ owner' = "deleted",
         \A a \in AttemptIds : attOffered[a] => attExpires'[a] = attExpires[a]
  PROVE  ComputeInv'
<1>1. NoOpenOffer => NoOpenOffer'
  BY DEF NoOpenOffer, Expired, WorkerStep
<1>2. OfferComesWithCompute'
  BY DEF ComputeInv, OfferComesWithCompute, Expired, WorkerStep
<1>3. \A v \in Workers : ComputeOf(v)'
  BY <1>1 DEF ComputeInv, ComputeOf, WorkerStep, MovesTo, TypeOK, HandlersTyped
<1> QED  BY <1>2, <1>3 DEF ComputeInv

(* At a step that redeems nothing, nothing is asked. *)
LEMMA ComputeElsewhere ==
  ASSUME TypeOK, NEW w \in Workers, NEW step, step \notin RedeemSteps, WorkerStep(w, step)
  PROVE  ComputeOf(w)'
BY DEF ComputeOf, RedeemSteps, SubmitSteps, WorkerStep, MovesTo, TypeOK, HandlersTyped

(* The requests that redeem nothing. *)
LEMMA OthersCompute ==
  ASSUME TypeOK, OrderInv, ComputeInv, NEW w \in Workers,
         \/ ExchangeVerify(w) \/ OpBegin(w) \/ DeleteBegin(w) \/ AgentProgress(w)
         \/ IssueVerify(w) \/ IssueProgress(w)
         \/ PollExpired(w) \/ PollPending(w) \/ PollAccepted(w) \/ PollProgress(w)
         \/ PurgeBegin(w) \/ PurgeProgress(w) \/ Abort(w)
  PROVE  ComputeInv'
<1> USE DEF attemptVars, projectVars, databaseVars
<1>1. PICK step : step \notin RedeemSteps /\ WorkerStep(w, step)
  <2> USE HelpersStep DEF RedeemSteps, SubmitSteps
  <2>1. CASE ExchangeVerify(w) \/ OpBegin(w) \/ DeleteBegin(w) \/ Abort(w)
    BY <2>1 DEF ExchangeVerify, OpBegin, DeleteBegin, Abort
  <2>2. CASE AgentProgress(w)
    <3>1. CASE ExchangeRead(w) \/ ExchangeRecord(w) \/ OpCall(w)
      BY <3>1 DEF ExchangeRead, ExchangeRecord, OpCall
    <3>2. CASE HandOutRecorded(w) \/ HandOutUnrecorded(w)
      BY <3>2 DEF HandOutRecorded, HandOutUnrecorded
    <3>3. CASE DeleteProject(w) \/ DeleteKey(w) \/ DeleteTokens(w)
      BY <3>3 DEF DeleteProject, DeleteKey, DeleteTokens
    <3>4. CASE DeleteMark(w) \/ DeleteRegistration(w)
      BY <3>4 DEF DeleteMark, DeleteRegistration
    <3> QED  BY <2>2, <3>1, <3>2, <3>3, <3>4 DEF AgentProgress
  <2>3. CASE IssueVerify(w) \/ IssueDecide(w)
    BY <2>3 DEF IssueVerify, IssueDecide, AfterDecision
  <2>4. CASE IssueOwner(w) \/ IssueClose(w) \/ IssueInsert(w)
    BY <2>4 DEF IssueOwner, IssueClose, IssueInsert, AfterDecision
  <2>5. CASE PollExpired(w) \/ PollPending(w) \/ PollAccepted(w)
    BY <2>5 DEF PollExpired, PollPending, PollAccepted
  <2>6. CASE PollProgress(w)
    BY <2>6 DEF PollProgress, PollOwner, PollMarkAttempt, PollMarkRegistration, PollReconcile
  <2>7. CASE PurgeBegin(w) \/ PurgeOwner(w)
    BY <2>7 DEF PurgeBegin, PurgeOwner
  <2>8. CASE PurgeDelete(w) \/ PurgeKey(w) \/ PurgeCommit(w)
    BY <2>8 DEF PurgeDelete, PurgeKey, PurgeCommit
  <2> QED  BY <2>1, <2>2, <2>3, <2>4, <2>5, <2>6, <2>7, <2>8 DEF IssueProgress, PurgeProgress
<1>2. UNCHANGED <<computeOn, attOffered>> /\ (owner' = owner \/ owner' = "deleted")
  <2>1. CASE ExchangeVerify(w) \/ OpBegin(w) \/ DeleteBegin(w) \/ AgentProgress(w)
    BY <2>1 DEF ExchangeVerify, OpBegin, DeleteBegin, AgentProgress, ExchangeRead, ExchangeRecord,
       OpCall, HandOutRecorded, HandOutUnrecorded, DeleteProject, DeleteKey, DeleteTokens,
       DeleteMark, DeleteRegistration
  <2>2. CASE IssueVerify(w) \/ IssueProgress(w)
    BY <2>2 DEF IssueVerify, IssueProgress, IssueDecide, IssueOwner, IssueClose, IssueInsert
  <2>3. CASE PollExpired(w) \/ PollPending(w) \/ PollAccepted(w) \/ PollProgress(w)
    BY <2>3 DEF PollExpired, PollPending, PollAccepted, PollProgress, PollOwner, PollMarkAttempt,
       PollMarkRegistration, PollReconcile
  <2>4. CASE PurgeBegin(w) \/ PurgeProgress(w) \/ Abort(w)
    BY <2>4 DEF PurgeBegin, PurgeProgress, PurgeOwner, PurgeDelete, PurgeKey, PurgeCommit, Abort
  <2> QED  BY <2>1, <2>2, <2>3, <2>4
<1>3. \A a \in AttemptIds : attOffered[a] => attExpires'[a] = attExpires[a]
  <2>1. CASE IssueInsert(w)
    <3>1. \A a \in AttemptIds : attOffered[a] => a # attempts + 1
      BY DEF OrderInv, AttemptIds, TypeOK, AttemptsTyped
    <3> QED  BY <2>1, <3>1 DEF IssueInsert, TypeOK, AttemptsTyped
  <2>2. CASE ~IssueInsert(w)
    BY <2>2 DEF ExchangeVerify, OpBegin, DeleteBegin, AgentProgress, ExchangeRead, ExchangeRecord,
       OpCall, HandOutRecorded, HandOutUnrecorded, DeleteProject, DeleteKey, DeleteTokens,
       DeleteMark, DeleteRegistration, IssueVerify, IssueProgress, IssueDecide, IssueOwner,
       IssueClose, PollExpired, PollPending, PollAccepted, PollProgress, PollOwner,
       PollMarkAttempt, PollMarkRegistration, PollReconcile, PurgeBegin, PurgeProgress, PurgeOwner,
       PurgeDelete, PurgeKey, PurgeCommit, Abort
  <2> QED  BY <2>1, <2>2
<1> QED  BY <1>1, <1>2, <1>3, ComputeElsewhere, ComputeAside

(* Redeeming a code: it begins when no offer is open, and takes the compute down
   and up again with nobody else in between. *)
LEMMA SubmitCompute ==
  ASSUME TypeOK, OrderInv, AloneInv, ComputeInv, NEW w \in Workers,
         SubmitFind(w) \/ SubmitProgress(w)
  PROVE  ComputeInv'
<1> USE DEF attemptVars, projectVars, databaseVars
<1>1. pc \in [Workers -> Steps] /\ ComputeOf(w)
  BY DEF TypeOK, HandlersTyped, ComputeInv
<1>2. ASSUME pc[w] \in RedeemSteps
      PROVE  NoOpenOffer /\ \A v \in Workers \ {w} : pc[v] \notin RedeemSteps
  <2>1. \A v \in Workers : pc[v] \in RedeemSteps => InLock(v)
    BY DEF RedeemSteps, SubmitSteps, InLock
  <2> QED  BY <1>1, <1>2, <2>1 DEF AloneInv, ComputeOf
<1>3. CASE SubmitFind(w) \/ SubmitExpired(w)
  <2>1. PICK step \in {"submitWait", "idle"} : WorkerStep(w, step)
    BY <1>3, HelpersStep DEF SubmitFind, SubmitExpired
  <2>2. UNCHANGED <<owner, computeOn, attOffered, attExpires>>
    BY <1>3 DEF SubmitFind, SubmitExpired
  <2>3. step \notin RedeemSteps
    BY DEF RedeemSteps, SubmitSteps
  <2> QED  BY <2>1, <2>2, <2>3, ComputeElsewhere, ComputeAside
<1>4. CASE SubmitBegin(w)
  <2>1. /\ WorkerStep(w, "freeze") /\ UNCHANGED <<owner, computeOn, attOffered, attExpires>>
        /\ ~attOffered[Latest]
    BY <1>4, HelpersStep DEF SubmitBegin, StillRedeemable, NeedsTransfer
  <2>2. NoOpenOffer
    BY <2>1 DEF NoOpenOffer, OrderInv, OpenOfferIsLatest
  <2>3. ComputeOf(w)'
    BY <1>1, <2>1, <2>2 DEF ComputeOf, NoOpenOffer, Expired, WorkerStep, MovesTo
  <2> QED  BY <2>1, <2>3, ComputeAside
<1>5. CASE \/ FreezeIssuance(w) \/ SetPending(w) \/ RevokeKey(w) \/ MarkKey(w)
           \/ ResetRoles(w) \/ RolesUnchanged(w) \/ RolesChanged(w) \/ MarkDerived(w)
           \/ RevokeAccess(w) \/ CreateTransfer(w)
  <2>1. /\ UNCHANGED <<owner, computeOn, attOffered, attExpires>> /\ pc[w] \in RedeemSteps
        /\ pc'[w] = "startTransfer" => pc[w] = "createTransfer"
        /\ pc'[w] # "createTransfer"
    BY <1>1, <1>5, RedeemNamed DEF FreezeIssuance, SetPending, RevokeKey, MarkKey, ResetRoles,
       RolesUnchanged, RolesChanged, MarkDerived, RevokeAccess, CreateTransfer, Goto, GotoWith
  <2>2. PICK step : WorkerStep(w, step)
    <3>1. CASE FreezeIssuance(w) \/ SetPending(w) \/ RevokeKey(w) \/ MarkKey(w)
      BY <3>1, HelpersStep DEF FreezeIssuance, SetPending, RevokeKey, MarkKey
    <3>2. CASE ResetRoles(w)
      BY <3>2 DEF ResetRoles, WorkerStep, MovesTo
    <3>3. CASE RolesUnchanged(w) \/ RolesChanged(w) \/ MarkDerived(w)
      BY <3>3, HelpersStep DEF RolesUnchanged, RolesChanged, MarkDerived
    <3>4. CASE RevokeAccess(w) \/ CreateTransfer(w)
      BY <3>4, HelpersStep DEF RevokeAccess, CreateTransfer
    <3> QED  BY <1>5, <3>1, <3>2, <3>3, <3>4
  <2>3. ComputeOf(w)'
    BY <1>1, <1>2, <2>1, <2>2 DEF ComputeOf, NoOpenOffer, Expired, WorkerStep
  <2> QED  BY <2>1, <2>2, <2>3, ComputeAside
<1>6. CASE DisableCompute(w) \/ Reenable(w) \/ EnableCompute(w)
  <2>1. /\ UNCHANGED <<owner, attOffered, attExpires, now>> /\ pc[w] \in RedeemSteps
        /\ owner = "holding"
        /\ pc'[w] \in {"createTransfer", "startTransfer"} => computeOn'
        /\ \A v \in Workers \ {w} : pc'[v] = pc[v]
    BY <1>1, <1>6, RedeemNamed DEF DisableCompute, Reenable, EnableCompute, InHolding, Goto
  <2>2. NoOpenOffer' /\ \A v \in Workers \ {w} : pc'[v] \notin RedeemSteps
    BY <1>2, <2>1 DEF NoOpenOffer, Expired
  <2>3. OfferComesWithCompute'
    BY <2>1, <2>2 DEF OfferComesWithCompute, NoOpenOffer
  <2>4. ComputeOf(w)' /\ \A v \in Workers \ {w} : ComputeOf(v)'
    BY <2>1, <2>2, RedeemNamed DEF ComputeOf
  <2> QED  BY <2>3, <2>4 DEF ComputeInv
<1>7. CASE StartTransfer(w)
  <2>1. /\ pc[w] \in RedeemSteps /\ pc'[w] = "idle" /\ computeOn'
        /\ \A v \in Workers \ {w} : pc'[v] = pc[v]
    BY <1>1, <1>7, RedeemNamed DEF StartTransfer, ComputeOf, Finish
  <2>2. \A v \in Workers : pc'[v] \notin RedeemSteps
    BY <1>2, <2>1, RedeemNamed
  <2> QED  BY <2>1, <2>2, RedeemNamed DEF ComputeInv, ComputeOf, OfferComesWithCompute
<1> QED  BY <1>3, <1>4, <1>5, <1>6, <1>7 DEF SubmitProgress

(* A project is accepted with its compute on; an offer that expired stays so. *)
LEMMA EnvironmentCompute ==
  ASSUME TypeOK, ComputeInv,
         \/ RevokeToken \/ Connect \/ AlterRoles \/ AcceptTransfer \/ Tick
         \/ UNCHANGED vars \/ \E w \in Workers : DropBackend(w)
  PROVE  ComputeInv'
<1> USE DEF attemptVars, projectVars, databaseVars, handlerVars
<1>1. CASE AcceptTransfer
  <2>1. UNCHANGED <<computeOn, attOffered, attExpires, pc, now>> /\ computeOn
    BY <1>1 DEF AcceptTransfer, ComputeInv, OfferComesWithCompute
  <2> QED  BY <2>1 DEF ComputeInv, ComputeOf, OfferComesWithCompute, NoOpenOffer, Expired
<1>2. CASE ~AcceptTransfer
  <2>1. UNCHANGED <<owner, computeOn, attOffered, attExpires, pc>> /\ now' \in {now, now + 1}
    BY <1>2 DEF RevokeToken, Connect, AlterRoles, Tick, DropBackend, vars
  <2>2. \A a \in AttemptIds : Expired(a) => Expired(a)'
    BY <2>1 DEF Expired, TypeOK, AttemptsTyped, HandlersTyped
  <2>3. OfferComesWithCompute'
    BY <2>1, <2>2 DEF ComputeInv, OfferComesWithCompute
  <2>4. \A w \in Workers : ComputeOf(w)'
    BY <2>1, <2>2 DEF ComputeInv, ComputeOf, NoOpenOffer
  <2> QED  BY <2>3, <2>4 DEF ComputeInv
<1> QED  BY <1>1, <1>2

(* At first the compute is on and nothing is offered. *)
LEMMA InitCompute == Init => ComputeInv
BY DEF Init, StoreInit, ComputeInv, ComputeOf, OfferComesWithCompute, RedeemSteps, SubmitSteps

(* Every step. *)
LEMMA NextCompute == TypeOK /\ OrderInv /\ AloneInv /\ ComputeInv /\ [Next]_vars => ComputeInv'
<1> SUFFICES ASSUME TypeOK, OrderInv, AloneInv, ComputeInv, [Next]_vars PROVE ComputeInv'
  OBVIOUS
<1>1. CASE AgentNext
  BY <1>1, OthersCompute, EnvironmentCompute DEF AgentNext
<1>2. CASE IssueNext \/ PollNext \/ PurgeNext
  BY <1>2, OthersCompute DEF IssueNext, PollNext, PurgeNext
<1>3. CASE SubmitNext
  BY <1>3, SubmitCompute, EnvironmentCompute DEF SubmitNext
<1>4. CASE (\E w \in Workers : Abort(w) \/ DropBackend(w)) \/ Tick \/ UNCHANGED vars
  BY <1>4, OthersCompute, EnvironmentCompute
<1> QED  BY <1>1, <1>2, <1>3, <1>4 DEF Next

(* A human who can accept, or has accepted, gets a project whose compute is on:
   for any number of requests and codes, whatever fails, as long as no SQL
   backend drops under a handler. *)
THEOREM OffersComeWithCompute ==
  ASSUME NoDrops  PROVE Spec => []OfferComesWithCompute
<1>1. Init => ComputeInv
  BY InitCompute
<1>2. TypeOK /\ OrderInv /\ AloneInv /\ ComputeInv /\ [Next]_vars => ComputeInv'
  BY NextCompute
<1>3. ComputeInv => OfferComesWithCompute
  BY DEF ComputeInv
<1> QED
  BY <1>1, <1>2, <1>3, TypeCorrect, AttemptsInOrder, HandlersTakeTurns, PTL DEF Spec

-----------------------------------------------------------------------------
(* An accepted attempt is a project that moved. *)

(* What a handler that deletes, offers or asks for the owner may rely on. *)
MovedOf(w) ==
  /\ pc[w] = "delProject" => ~frozen
  /\ pc[w] = "startTransfer" => owner = "holding"
  /\ pc[w] \in PollSteps => owner # "deleted"
  /\ pc[w] \in PollSteps \ {"pollOwner"} => owner = "human"

(* Of the projects that were offered only the janitor deletes one, and when it
   works nobody can poll any more. *)
MovedRows ==
  /\ owner = "deleted" /\ Offered => now > Retention
  /\ AcceptedMeansMoved

MovedInv == MovedRows /\ \A w \in Workers : MovedOf(w)

(* Steps at which nothing is asked. *)
CalmSteps == Steps \ ({"delProject", "startTransfer"} \cup PollSteps)

(* These steps by name. *)
LEMMA CalmNamed ==
  {"idle", "exchangeRead", "exchangeRecord", "opCall", "opRecord", "delKey", "delTokens",
   "delMark", "delRegistration", "issueWait", "issueOwner", "issueClose", "issueInsert",
   "submitWait", "freeze", "setPending", "revokeKey", "markKey", "resetRoles", "disable",
   "compare", "reenable", "markDerived", "revokeAccess", "enable", "createTransfer",
   "purgeOwner", "purgeDelete", "purgeKey", "purgeCommit"} \subseteq CalmSteps
BY DEF CalmSteps, Steps, AgentSteps, IssueSteps, SubmitSteps, PollSteps, PurgeSteps

(* While a handler has the lock, and while nobody has, no other handler is at a
   step that asks something. *)
LEMMA OthersOutside ==
  ASSUME TypeOK, AloneInv, NEW w \in Workers, lock \in {w, NoOne}
  PROVE  \A v \in Workers \ {w} : ~InLock(v)
BY StoreAssumption DEF AloneInv

(* A handler's move, made under the lock or without a change to what is asked. *)
LEMMA MovedMove ==
  ASSUME TypeOK, AloneInv, MovedInv, NEW w \in Workers, NEW step, WorkerStep(w, step),
         InLock(w) \/ lock = NoOne \/ UNCHANGED <<frozen, owner>>,
         MovedRows', MovedOf(w)'
  PROVE  MovedInv'
<1>1. ASSUME NEW v \in Workers \ {w}  PROVE MovedOf(v)'
  <2>1. pc'[v] = pc[v]
    BY DEF WorkerStep, MovesTo, TypeOK, HandlersTyped
  <2>2. CASE InLock(w) \/ lock = NoOne
    <3>1. ~InLock(v)
      BY <2>2, OthersOutside DEF AloneInv
    <3> QED  BY <2>1, <3>1 DEF MovedOf, InLock, PollSteps
  <2>3. CASE UNCHANGED <<frozen, owner>>
    BY <2>1, <2>3 DEF MovedInv, MovedOf
  <2> QED  BY <2>2, <2>3
<1> QED  BY <1>1 DEF MovedInv

(* A step to where nothing is asked, that accepts, offers and deletes nothing. *)
LEMMA MovedAside ==
  ASSUME TypeOK, AloneInv, MovedInv, NEW w \in Workers, NEW step \in CalmSteps,
         WorkerStep(w, step), UNCHANGED <<owner, attOffered>>,
         InLock(w) \/ lock = NoOne \/ UNCHANGED frozen,
         \A a \in AttemptIds : attState'[a] \in {"accepted", "reconciled"} =>
                                 attState[a] \in {"accepted", "reconciled"}
  PROVE  MovedInv'
<1>1. MovedRows'
  BY DEF MovedInv, MovedRows, AcceptedMeansMoved, Offered, WorkerStep
<1>2. MovedOf(w)'
  BY DEF MovedOf, CalmSteps, WorkerStep, MovesTo, TypeOK, HandlersTyped
<1> QED  BY <1>1, <1>2, MovedMove

(* The agent deletes a project that was not offered. *)
LEMMA AgentMoved ==
  ASSUME TypeOK, TeardownInv, EndInv, AloneInv, MovedInv, NEW w \in Workers,
         ExchangeVerify(w) \/ OpBegin(w) \/ DeleteBegin(w) \/ AgentProgress(w)
  PROVE  MovedInv'
<1> USE DEF registrationVars, attemptVars, projectVars
<1>1. CASE ExchangeVerify(w) \/ OpBegin(w) \/ ExchangeRead(w) \/ ExchangeRecord(w) \/ OpCall(w)
  <2>1. PICK step \in CalmSteps : WorkerStep(w, step)
    BY <1>1, HelpersStep, CalmNamed DEF ExchangeVerify, OpBegin, ExchangeRead, ExchangeRecord,
       OpCall
  <2>2. UNCHANGED <<frozen, owner, attOffered, attState>>
    BY <1>1 DEF ExchangeVerify, OpBegin, ExchangeRead, ExchangeRecord, OpCall
  <2> QED  BY <2>1, <2>2, MovedAside
<1>2. CASE HandOutRecorded(w) \/ HandOutUnrecorded(w) \/ DeleteKey(w) \/ DeleteTokens(w)
  <2>1. PICK step \in CalmSteps : WorkerStep(w, step)
    BY <1>2, HelpersStep, CalmNamed DEF HandOutRecorded, HandOutUnrecorded, DeleteKey, DeleteTokens
  <2>2. UNCHANGED <<frozen, owner, attOffered, attState>>
    BY <1>2 DEF HandOutRecorded, HandOutUnrecorded, DeleteKey, DeleteTokens
  <2> QED  BY <2>1, <2>2, MovedAside
<1>3. CASE DeleteMark(w) \/ DeleteRegistration(w)
  <2>1. PICK step \in CalmSteps : WorkerStep(w, step)
    BY <1>3, HelpersStep, CalmNamed DEF DeleteMark, DeleteRegistration
  <2>2. UNCHANGED <<frozen, owner, attOffered, attState>>
    BY <1>3 DEF DeleteMark, DeleteRegistration
  <2> QED  BY <2>1, <2>2, MovedAside
<1>4. CASE DeleteBegin(w)
  <2>1. WorkerStep(w, "delProject") /\ ~frozen
        /\ UNCHANGED <<frozen, owner, attOffered, attState>>
    BY <1>4, HelpersStep DEF DeleteBegin, Authenticated
  <2>2. MovedRows'
    BY <2>1 DEF MovedInv, MovedRows, AcceptedMeansMoved, Offered, WorkerStep
  <2>3. MovedOf(w)'
    BY <2>1 DEF MovedOf, PollSteps, WorkerStep, MovesTo, TypeOK, HandlersTyped
  <2> QED  BY <2>1, <2>2, <2>3, MovedMove
<1>5. CASE DeleteProject(w)
  <2>1. WorkerStep(w, "delKey") /\ owner = "holding" /\ ~frozen /\ InLock(w)
        /\ UNCHANGED <<attOffered, attState>>
    BY <1>5, HelpersStep DEF DeleteProject, InLock, MovedInv, MovedOf
  <2>2. ~Offered /\ \A a \in AttemptIds : attState[a] \notin {"accepted", "reconciled"}
    BY <2>1 DEF TeardownInv, OfferInv, EndInv, EndRows
  <2>3. MovedRows'
    BY <2>1, <2>2 DEF MovedRows, AcceptedMeansMoved, Offered
  <2>4. MovedOf(w)'
    BY <2>1 DEF MovedOf, PollSteps, WorkerStep, MovesTo, TypeOK, HandlersTyped
  <2> QED  BY <2>1, <2>3, <2>4, MovedMove
<1> QED  BY <1>1, <1>2, <1>3, <1>4, <1>5 DEF AgentProgress

(* A code is minted, or closed, without any attempt being accepted. *)
LEMMA IssueMoved ==
  ASSUME TypeOK, AloneInv, MovedInv, NEW w \in Workers, IssueVerify(w) \/ IssueProgress(w)
  PROVE  MovedInv'
<1> USE DEF registrationVars, attemptVars, projectVars
<1>1. PICK step \in CalmSteps : WorkerStep(w, step)
  <2>1. CASE IssueVerify(w) \/ IssueDecide(w)
    BY <2>1, HelpersStep, CalmNamed DEF IssueVerify, IssueDecide, AfterDecision
  <2>2. CASE IssueOwner(w) \/ IssueClose(w) \/ IssueInsert(w)
    BY <2>2, HelpersStep, CalmNamed DEF IssueOwner, IssueClose, IssueInsert, AfterDecision
  <2> QED  BY <2>1, <2>2 DEF IssueProgress
<1>2. UNCHANGED <<frozen, owner, attOffered>>
  BY DEF IssueProgress, IssueVerify, IssueDecide, IssueOwner, IssueClose, IssueInsert
<1>3. \A a \in AttemptIds : attState'[a] \in {"accepted", "reconciled"} => attState'[a] = attState[a]
  BY DEF IssueProgress, IssueVerify, IssueDecide, IssueOwner, IssueClose, IssueInsert,
     TypeOK, AttemptsTyped
<1> QED  BY <1>1, <1>2, <1>3, MovedAside

(* A transfer is recorded for a project that is still held. *)
LEMMA SubmitMoved ==
  ASSUME TypeOK, AloneInv, MovedInv, NEW w \in Workers, SubmitFind(w) \/ SubmitProgress(w)
  PROVE  MovedInv'
<1> USE DEF registrationVars, attemptVars, projectVars
<1>1. CASE \/ SubmitFind(w) \/ SubmitExpired(w) \/ SubmitBegin(w) \/ SetPending(w)
           \/ RevokeKey(w) \/ MarkKey(w) \/ ResetRoles(w) \/ DisableCompute(w)
           \/ RolesUnchanged(w) \/ RolesChanged(w) \/ Reenable(w) \/ MarkDerived(w)
           \/ RevokeAccess(w) \/ EnableCompute(w)
  <2>1. PICK step \in CalmSteps : WorkerStep(w, step)
    <3>1. CASE ResetRoles(w)
      BY <3>1, CalmNamed DEF ResetRoles, WorkerStep, MovesTo
    <3>2. CASE SubmitFind(w) \/ SubmitExpired(w) \/ SubmitBegin(w) \/ SetPending(w)
      BY <3>2, HelpersStep, CalmNamed DEF SubmitFind, SubmitExpired, SubmitBegin, SetPending
    <3>3. CASE RevokeKey(w) \/ MarkKey(w) \/ DisableCompute(w) \/ RolesUnchanged(w)
      BY <3>3, HelpersStep, CalmNamed DEF RevokeKey, MarkKey, DisableCompute, RolesUnchanged
    <3>4. CASE RolesChanged(w) \/ Reenable(w) \/ MarkDerived(w)
      BY <3>4, HelpersStep, CalmNamed DEF RolesChanged, Reenable, MarkDerived
    <3>5. CASE RevokeAccess(w) \/ EnableCompute(w)
      BY <3>5, HelpersStep, CalmNamed DEF RevokeAccess, EnableCompute
    <3> QED  BY <1>1, <3>1, <3>2, <3>3, <3>4, <3>5
  <2>2. UNCHANGED <<frozen, owner, attOffered>>
    BY <1>1 DEF SubmitFind, SubmitExpired, SubmitBegin, SetPending, RevokeKey, MarkKey, ResetRoles,
       DisableCompute, RolesUnchanged, RolesChanged, Reenable, MarkDerived, RevokeAccess,
       EnableCompute
  <2>3. \A a \in AttemptIds : attState'[a] \in {"accepted", "reconciled"} => attState'[a] = attState[a]
    BY <1>1 DEF SubmitFind, SubmitExpired, SubmitBegin, SetPending, RevokeKey, MarkKey, ResetRoles,
       DisableCompute, RolesUnchanged, RolesChanged, Reenable, MarkDerived, RevokeAccess,
       EnableCompute, TypeOK, AttemptsTyped
  <2> QED  BY <2>1, <2>2, <2>3, MovedAside
<1>2. CASE FreezeIssuance(w)
  <2>1. WorkerStep(w, "setPending") /\ InLock(w) /\ UNCHANGED <<owner, attOffered, attState>>
    BY <1>2, HelpersStep DEF FreezeIssuance, InLock
  <2> QED  BY <2>1, CalmNamed, MovedAside
<1>3. CASE CreateTransfer(w)
  <2>1. WorkerStep(w, "startTransfer") /\ UNCHANGED <<frozen, owner, attOffered, attState>>
        /\ owner = "holding"
    BY <1>3, HelpersStep DEF CreateTransfer, InHolding
  <2>2. MovedRows' /\ MovedOf(w)'
    BY <2>1 DEF MovedInv, MovedRows, AcceptedMeansMoved, Offered, MovedOf, PollSteps, WorkerStep,
       MovesTo
  <2> QED  BY <2>1, <2>2, MovedMove
<1>4. CASE StartTransfer(w)
  <2>1. WorkerStep(w, "idle") /\ UNCHANGED <<frozen, owner, attState>> /\ owner = "holding"
    BY <1>4, HelpersStep DEF StartTransfer, MovedInv, MovedOf
  <2>2. MovedRows' /\ MovedOf(w)'
    BY <2>1 DEF MovedInv, MovedRows, AcceptedMeansMoved, MovedOf, PollSteps, WorkerStep, MovesTo
  <2> QED  BY <2>1, <2>2, MovedMove
<1> QED  BY <1>1, <1>2, <1>3, <1>4 DEF SubmitProgress

(* The human accepts while no handler redeems a code or has found the project moved. *)
LEMMA AcceptMoved ==
  ASSUME TypeOK, ComputeInv, MovedInv, AcceptTransfer
  PROVE  MovedInv'
<1>1. /\ UNCHANGED <<frozen, attState, attOffered, pc, now>>
      /\ owner = "holding" /\ owner' = "human" /\ ~NoOpenOffer
  BY DEF AcceptTransfer, registrationVars, attemptVars, handlerVars, NoOpenOffer
<1>2. \A w \in Workers : pc[w] # "startTransfer"
  BY <1>1, RedeemNamed DEF ComputeInv, ComputeOf
<1> QED  BY <1>1, <1>2 DEF MovedInv, MovedRows, MovedOf, AcceptedMeansMoved, Offered

(* A poll asks for the owner while the registration has not expired, when only
   the agent could have deleted the project, and it could not once it was offered. *)
LEMMA PollMoved ==
  ASSUME RetentionOutlastsProject, TypeOK, AloneInv, MovedInv, NEW w \in Workers,
         PollExpired(w) \/ PollPending(w) \/ PollAccepted(w) \/ PollProgress(w)
  PROVE  MovedInv'
<1> USE DEF registrationVars, attemptVars, projectVars
<1>0. HasAttempt => Latest \in AttemptIds
  BY StoreAssumption DEF HasAttempt, Latest, AttemptIds, TypeOK, AttemptsTyped
<1>1. CASE PollExpired(w)
  <2>1. WorkerStep(w, "idle") /\ UNCHANGED <<frozen, owner, attOffered>>
    BY <1>1, HelpersStep DEF PollExpired
  <2>2. \A a \in AttemptIds : attState'[a] \in {"accepted", "reconciled"} => attState'[a] = attState[a]
    BY <1>1 DEF PollExpired, TypeOK, AttemptsTyped
  <2> QED  BY <2>1, <2>2, CalmNamed, MovedAside
<1>2. CASE PollPending(w)
  <2>1. /\ WorkerStep(w, "pollOwner") /\ UNCHANGED <<frozen, owner, attOffered, attState>>
        /\ Offered /\ now < ProjectTTL
    BY <1>0, <1>2, HelpersStep DEF PollPending, MayPoll, Offered
  <2>2. owner # "deleted"
    BY <2>1, StoreAssumption DEF RetentionOutlastsProject, MovedInv, MovedRows, TypeOK, HandlersTyped
  <2>3. MovedRows' /\ MovedOf(w)'
    BY <2>1, <2>2 DEF MovedInv, MovedRows, AcceptedMeansMoved, Offered, MovedOf, PollSteps,
       WorkerStep, MovesTo
  <2> QED  BY <2>1, <2>3, MovedMove
<1>3. CASE PollAccepted(w)
  <2>1. /\ WorkerStep(w, "pollReconcile") /\ UNCHANGED <<frozen, owner, attOffered, attState>>
        /\ owner = "human"
    BY <1>0, <1>3, HelpersStep DEF PollAccepted, MovedInv, MovedRows, AcceptedMeansMoved
  <2>2. MovedRows' /\ MovedOf(w)'
    BY <2>1 DEF MovedInv, MovedRows, AcceptedMeansMoved, Offered, MovedOf, PollSteps,
       WorkerStep, MovesTo
  <2> QED  BY <2>1, <2>2, MovedMove
<1>4. CASE PollProgress(w)
  <2>1. PICK step : WorkerStep(w, step)
    BY <1>4, HelpersStep DEF PollProgress, PollOwner, PollMarkAttempt, PollMarkRegistration,
       PollReconcile
  <2>2. UNCHANGED <<frozen, owner, attOffered>> /\ owner = "human"
    BY <1>4 DEF PollProgress, PollOwner, PollMarkAttempt, PollMarkRegistration, PollReconcile,
       LooksMoved, MovedInv, MovedOf, PollSteps, TypeOK, ProjectTyped
  <2>3. MovedRows'
    BY <2>2 DEF MovedRows, AcceptedMeansMoved
  <2>4. pc'[w] \notin {"delProject", "startTransfer"} /\ owner' = "human"
    BY <1>4, <2>2 DEF PollProgress, PollOwner, PollMarkAttempt, PollMarkRegistration, PollReconcile,
       Goto, Finish, TypeOK, HandlersTyped
  <2>5. MovedOf(w)'
    BY <2>4 DEF MovedOf
  <2> QED  BY <2>1, <2>2, <2>3, <2>5, MovedMove
<1> QED  BY <1>1, <1>2, <1>3, <1>4

(* The janitor deletes what nobody took, long after the last poll. *)
LEMMA PurgeMoved ==
  ASSUME TypeOK, EndInv, SettledInv, AloneInv, MovedInv, NEW w \in Workers,
         PurgeBegin(w) \/ PurgeProgress(w)
  PROVE  MovedInv'
<1> USE DEF registrationVars, attemptVars, projectVars
<1>1. CASE PurgeBegin(w) \/ PurgeOwner(w) \/ PurgeKey(w) \/ PurgeCommit(w)
  <2>1. PICK step \in CalmSteps : WorkerStep(w, step)
    <3>1. CASE PurgeBegin(w)
      BY <3>1, HelpersStep, CalmNamed DEF PurgeBegin
    <3>2. CASE PurgeOwner(w)
      BY <3>2, HelpersStep, CalmNamed DEF PurgeOwner
    <3>3. CASE PurgeKey(w) \/ PurgeCommit(w)
      BY <3>3, HelpersStep, CalmNamed DEF PurgeKey, PurgeCommit
    <3> QED  BY <1>1, <3>1, <3>2, <3>3
  <2>2. UNCHANGED <<frozen, owner, attOffered, attState>>
    BY <1>1 DEF PurgeBegin, PurgeOwner, PurgeKey, PurgeCommit
  <2> QED  BY <2>1, <2>2, MovedAside
<1>2. CASE PurgeDelete(w)
  <2>1. /\ WorkerStep(w, "purgeKey") /\ InLock(w) /\ UNCHANGED <<frozen, attOffered, attState>>
        /\ (owner = "holding" /\ owner' = "deleted") \/ owner' = owner
    BY <1>2, HelpersStep DEF PurgeDelete, InLock
  <2>2. now > Retention /\ now' = now
    BY <1>2, <2>1 DEF PurgeDelete, SettledInv, SettledOf, PurgeSteps, WorkerStep
  <2>3. owner = "holding" => \A a \in AttemptIds : attState[a] \notin {"accepted", "reconciled"}
    BY DEF EndInv, EndRows
  <2>4. MovedRows'
    BY <2>1, <2>2, <2>3 DEF MovedInv, MovedRows, AcceptedMeansMoved
  <2>5. MovedOf(w)'
    BY <2>1 DEF MovedOf, PollSteps, WorkerStep, MovesTo, TypeOK, HandlersTyped
  <2> QED  BY <2>1, <2>4, <2>5, MovedMove
<1> QED  BY <1>1, <1>2 DEF PurgeProgress

(* What touches neither the project nor its attempts. *)
LEMMA BesidesMoved ==
  ASSUME TypeOK, MovedInv, UNCHANGED <<frozen, owner, attOffered, attState, pc>>,
         now' \in {now, now + 1}
  PROVE  MovedInv'
<1>1. now > Retention => now' > Retention
  BY StoreAssumption DEF TypeOK, HandlersTyped
<1> QED  BY <1>1 DEF MovedInv, MovedRows, MovedOf, AcceptedMeansMoved, Offered

(* A handler that stops asks nothing; the rest touches nothing that counts. *)
LEMMA EnvironmentMoved ==
  ASSUME TypeOK, AloneInv, MovedInv,
         \/ RevokeToken \/ Connect \/ AlterRoles \/ Tick \/ UNCHANGED vars
         \/ \E w \in Workers : Abort(w) \/ DropBackend(w)
  PROVE  MovedInv'
<1> USE DEF registrationVars, attemptVars, projectVars, handlerVars
<1>1. ASSUME NEW w \in Workers, Abort(w)  PROVE MovedInv'
  <2>1. WorkerStep(w, "idle") /\ UNCHANGED <<frozen, owner, attOffered, attState>>
    BY <1>1, HelpersStep DEF Abort
  <2> QED  BY <2>1, CalmNamed, MovedAside
<1>2. CASE \/ RevokeToken \/ Connect \/ AlterRoles \/ Tick \/ UNCHANGED vars
           \/ \E w \in Workers : DropBackend(w)
  <2>1. UNCHANGED <<frozen, owner, attOffered, attState, pc>> /\ now' \in {now, now + 1}
    BY <1>2 DEF RevokeToken, Connect, AlterRoles, Tick, DropBackend, vars
  <2> QED  BY <2>1, BesidesMoved
<1> QED  BY <1>1, <1>2

(* At first nothing is offered, deleted or accepted. *)
LEMMA InitMoved == Init => MovedInv
BY DEF Init, StoreInit, MovedInv, MovedRows, MovedOf, AcceptedMeansMoved, PollSteps

(* Every step. *)
LEMMA NextMoved ==
  ASSUME RetentionOutlastsProject
  PROVE  /\ TypeOK /\ TeardownInv /\ EndInv /\ SettledInv /\ AloneInv /\ ComputeInv /\ MovedInv
         /\ [Next]_vars
         => MovedInv'
<1> SUFFICES ASSUME TypeOK, TeardownInv, EndInv, SettledInv, AloneInv, ComputeInv, MovedInv,
                    [Next]_vars
             PROVE  MovedInv'
  OBVIOUS
<1>1. CASE AgentNext
  BY <1>1, AgentMoved, EnvironmentMoved DEF AgentNext
<1>2. CASE IssueNext
  BY <1>2, IssueMoved DEF IssueNext
<1>3. CASE SubmitNext
  BY <1>3, SubmitMoved, AcceptMoved DEF SubmitNext
<1>4. CASE PollNext
  BY <1>4, PollMoved DEF PollNext
<1>5. CASE PurgeNext
  BY <1>5, PurgeMoved DEF PurgeNext
<1>6. CASE (\E w \in Workers : Abort(w) \/ DropBackend(w)) \/ Tick \/ UNCHANGED vars
  BY <1>6, EnvironmentMoved
<1> QED  BY <1>1, <1>2, <1>3, <1>4, <1>5, <1>6 DEF Next

(* The compute part of the argument as an invariant of its own. *)
LEMMA ComputeStays ==
  ASSUME NoDrops  PROVE Spec => []ComputeInv
<1>1. Init => ComputeInv
  BY InitCompute
<1>2. TypeOK /\ OrderInv /\ AloneInv /\ ComputeInv /\ [Next]_vars => ComputeInv'
  BY NextCompute
<1> QED  BY <1>1, <1>2, TypeCorrect, AttemptsInOrder, HandlersTakeTurns, PTL DEF Spec

(* A 404 that means a deleted project is never recorded as a human's: an attempt
   is accepted only when a human has the project, for any number of requests and
   codes, as long as the janitor starts after the registration has expired and no
   SQL backend drops under a handler. *)
THEOREM AcceptedIsMoved ==
  ASSUME NoDrops, RetentionOutlastsProject  PROVE Spec => []AcceptedMeansMoved
<1>1. Init => MovedInv
  BY InitMoved
<1>2. /\ TypeOK /\ TeardownInv /\ EndInv /\ SettledInv /\ AloneInv /\ ComputeInv /\ MovedInv
      /\ [Next]_vars
      => MovedInv'
  BY NextMoved
<1>3. MovedInv => AcceptedMeansMoved
  BY DEF MovedInv, MovedRows
<1> QED
  BY <1>1, <1>2, <1>3, TypeCorrect, TeardownStepByStep, EndsStepByStep, ReconciledStays,
     HandlersTakeTurns, ComputeStays, PTL DEF Spec
=============================================================================
