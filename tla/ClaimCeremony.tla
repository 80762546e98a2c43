--------------------------- MODULE ClaimCeremony ---------------------------
(***************************************************************************)
(* The life of one claimable project, from its registration to the claim,  *)
(* the deletion by its agent or the janitor: every request handler that    *)
(* touches the registration, run by concurrent workers, with the agent,    *)
(* the human, the clock, crashes, failing Neon calls and dropped SQL       *)
(* backends around them.                                                   *)
(***************************************************************************)
EXTENDS AgentAccess, CodeIssuance, ClaimTransfer, ClaimStatus, RetentionPurge

Steps == {"idle"} \cup AgentSteps \cup IssueSteps \cup SubmitSteps
           \cup PollSteps \cup PurgeSteps

Init == StoreInit

Next ==
  \/ AgentNext \/ IssueNext \/ SubmitNext \/ PollNext \/ PurgeNext
  \/ \E w \in Workers : Abort(w) \/ DropBackend(w)
  \/ Tick

Spec == Init /\ [][Next]_vars

(* A handler never stalls: it takes its next step or fails. The code bounds the
   wait for a connection and for Neon's operations; a single call ends with the
   limits of the runtime's fetch, or with the process. *)
HandlerStep(w) ==
  \/ AgentProgress(w) \/ IssueProgress(w) \/ SubmitProgress(w)
  \/ PollProgress(w) \/ PurgeProgress(w) \/ Abort(w)

(* The schedule runs the janitor every day, and Neon and Postgres are not down
   for every one of its runs. *)
JanitorFairness ==
  /\ SF_vars(\E w \in Workers : PurgeBegin(w))
  /\ SF_vars(\E w \in Workers : PurgeOwner(w))
  /\ SF_vars(\E w \in Workers : PurgeDelete(w))
  /\ SF_vars(\E w \in Workers : PurgeKey(w))
  /\ SF_vars(\E w \in Workers : PurgeCommit(w))

(* The guard of Tick bounds the handlers, it does not hold the clock back: time
   passes for as long as handlers end, hence the strong fairness. *)
FairSpec ==
  /\ Spec
  /\ SF_vars(Tick)
  /\ \A w \in Workers : WF_vars(HandlerStep(w))
  /\ JanitorFairness

-----------------------------------------------------------------------------
Readings == {"none", "full", "empty", "assertion", "access", "begun", "claimed",
             "gone", "delete"} \cup Decisions

Locals == [att : 0..MaxAttempts, sees : Readings,
           tries : 0..(MaxRotations - 1), offer : Nat, since : Nat]

RowsTyped ==
  /\ frozen \in BOOLEAN
  /\ claimState \in ClaimStates
  /\ revoked \in {"no", "agent", "retention"}
  /\ keyMarked \in BOOLEAN
  /\ derivedLive \in BOOLEAN
  /\ assertionLive \in BOOLEAN
  /\ accessLive \subseteq {"full", "empty"}

AttemptsTyped ==
  /\ attempts \in 0..MaxAttempts
  /\ attState \in [AttemptIds -> AttemptStates]
  /\ attOffered \in [AttemptIds -> BOOLEAN]
  /\ attExpires \in [AttemptIds -> Nat]

ProjectTyped ==
  /\ owner \in {"holding", "human", "deleted"}
  /\ keyLive \in BOOLEAN
  /\ computeOn \in BOOLEAN
  /\ knownPw \in BOOLEAN
  /\ session \in BOOLEAN

HandlersTyped ==
  /\ lock \in Workers \cup {NoOne}
  /\ pc \in [Workers -> Steps]
  /\ mine \in [Workers -> Locals]
  /\ \A w \in Workers : pc[w] = "exchangeRecord" => mine[w].sees \in {"full", "empty"}
  /\ fresh \subseteq Workers
  /\ now \in Nat

(* Every variable has its type: the rows of Postgres, the project at Neon, and
   the workers, whose token to record has one of the two scopes. *)
TypeOK == RowsTyped /\ AttemptsTyped /\ ProjectTyped /\ HandlersTyped

-----------------------------------------------------------------------------
(* Safety *)

(* Once a human was offered the project, and ever after, nothing the agent
   obtained opens it: the project key is dead at Neon and recorded so, no
   password it knows works, no session of it is open, no credential row is
   live, and no new secret can be handed out. This is what beginClaimTransfer
   and prepareClaimTransfer do before startClaimTransfer, whatever fails,
   drops or runs beside them. *)
TeardownBeforeOffer ==
  Offered \/ owner = "human" =>
    /\ frozen
    /\ keyMarked /\ ~keyLive
    /\ ~knownPw /\ ~session /\ ~derivedLive

(* A pending attempt is the latest: createClaimCode closes the old code before
   it inserts the new one, so a superseded code cannot be redeemed. *)
PendingIsLatest ==
  \A a \in AttemptIds : attState[a] = "pending" => a = Latest

(* A transfer request the human could still accept belongs to the latest
   attempt, which no handler has written off: a new code is never minted while
   an earlier transfer URL works. *)
OpenOfferIsLatest ==
  \A a \in AttemptIds :
    attOffered[a] /\ ~Expired(a) =>
      a = Latest /\ attState[a] \in {"pending", "accepted", "reconciled"}

(* A submit takes the agent's secrets away for a code that can be redeemed, and
   that nobody replaces or writes off as long as the submit has its lock: the
   code was found before the wait for the lock and is looked at again after it
   (POST /claim). *)
RedeemsLiveCode ==
  \A w \in Workers :
    lock = w /\ pc[w] \in SubmitSteps \ {"submitWait"} =>
      mine[w].att = Latest /\ attState[Latest] = "pending"

(* A human who can accept, or has accepted, gets a project whose compute is
   enabled: the disable of the teardown is undone before the URL is shown and
   no other handler's teardown runs afterwards. *)
OfferComesWithCompute ==
  owner = "human" \/ (\E a \in AttemptIds : attOffered[a] /\ ~Expired(a))
    => computeOn

(* getProjectOwnerOrg reads a 404 as a transfer. An attempt is nevertheless
   recorded as accepted only when a human really has the project. *)
AcceptedMeansMoved ==
  (\E a \in AttemptIds : attState[a] \in {"accepted", "reconciled"})
    => owner = "human"

(* The janitor's owner lookup and its delete are two calls. A project that a
   human accepted is never recorded as purged by retention or deleted. *)
ClaimedIsNeverPurged ==
  owner = "human" => revoked = "no" /\ \A w \in Workers : pc[w] # "purgeDelete"

(* A registration in a terminal state is never looked at again, so nothing may
   be left to revoke behind it: not the assertion, nor the project key. *)
TerminalIsComplete ==
  claimState = "reconciled" \/ revoked # "no" =>
    ~assertionLive /\ keyMarked /\ ~keyLive

(* No claim code is minted for a project the human already has: the owner
   check of createClaimCode is a separate call from the insert. *)
NoCodeAfterMove == [][attempts' # attempts => owner # "human"]_vars

(* The service hands a secret to the agent only before the freeze; afterwards
   the only way to a new password is a session that is still open. *)
NoHandOutAfterFreeze ==
  [][/\ derivedLive' /\ ~derivedLive => ~frozen
     /\ knownPw' /\ ~knownPw => ~frozen \/ session]_vars

-----------------------------------------------------------------------------
(* Why TeardownBeforeOffer holds: what each step of a submit may rely on, told
   step by step, and without the lock, which a dropped backend may have lost. *)

FrozenSteps == SubmitSteps \ {"submitWait", "freeze"}

KeyDeadSteps ==
  (FrozenSteps \ {"setPending", "revokeKey"}) \cup {"delTokens", "delMark", "purgeCommit"}

KeyMarkedSteps == FrozenSteps \ {"setPending", "revokeKey", "markKey"}

QuietSteps == {"markDerived", "revokeAccess", "enable", "createTransfer", "startTransfer"}

SettledSteps == QuietSteps \ {"markDerived"}

(* The freeze is never undone, and who hands out a secret under the lock does
   it before the freeze. *)
FreezeInv ==
  \A w \in Workers :
    /\ pc[w] \in FrozenSteps => frozen
    /\ pc[w] \in {"opCall", "opRecord"} /\ lock = w => ~frozen

(* A key is dead at Neon before its row says so. *)
KeyInv ==
  /\ keyMarked => ~keyLive
  /\ \A w \in Workers :
       /\ pc[w] \in KeyDeadSteps => ~keyLive
       /\ pc[w] \in KeyMarkedSteps => keyMarked

(* While a snapshot equals the roles, the agent has no password; with the
   compute off in between, it has no session either. *)
AccessInv ==
  \A w \in Workers :
    /\ pc[w] = "disable" /\ w \in fresh => ~knownPw
    /\ pc[w] = "compare" /\ w \in fresh => ~knownPw /\ ~session
    /\ pc[w] \in QuietSteps => ~knownPw /\ ~session
    /\ pc[w] \in SettledSteps => ~derivedLive

(* Nothing undoes the teardown once a transfer request is recorded, and only a
   recorded one can be accepted. *)
OfferInv ==
  /\ Offered => frozen /\ keyMarked /\ ~knownPw /\ ~session /\ ~derivedLive
  /\ owner = "human" => Offered

(* Each step of a submit finds what the steps before it established, whoever
   else runs, fails or loses its lock in between: the inductive form of
   TeardownBeforeOffer. *)
TeardownInv == FreezeInv /\ KeyInv /\ AccessInv /\ OfferInv

-----------------------------------------------------------------------------
(* Liveness *)

(* A project that moved is eventually recorded as reconciled, even when nobody
   polls in time: the janitor sees to it. *)
MovedIsReconciled == owner = "human" ~> claimState = "reconciled"

(* A project nobody claims is eventually gone. *)
UnclaimedIsPurged == <>(owner # "holding")

-----------------------------------------------------------------------------
(* Refinement: the ceremony keeps the promise. *)

Phase ==
  CASE owner = "deleted" -> "gone"
    [] owner = "human" /\ claimState = "reconciled" -> "settled"
    [] owner = "human" /\ claimState # "reconciled" -> "moved"
    [] owner = "holding" /\ Offered -> "offered"
    [] owner = "holding" /\ ~Offered /\ frozen -> "claiming"
    [] OTHER -> "open"

Secrets == owner # "deleted" /\ (keyLive \/ knownPw \/ session)

Promise == INSTANCE ClaimPromise WITH phase <- Phase, secrets <- Secrets

(* Every step of the handlers is a step the promise allows, or none at all. *)
KeepsPromise == Promise!PromiseSpec

-----------------------------------------------------------------------------
(* Statements of the repository's comments and documents that the code does
   not keep. *)

(* README: agent tokens are revoked before the transfer URL is exposed. *)
NoFullTokenBehindOffer == Offered => "full" \notin accessLive

(* README: only `reconciled` means the claim finished; so a registration that
   says so belongs to a project a human took. *)
ReconciledMeansMoved == claimState = "reconciled" => owner = "human"
=============================================================================
