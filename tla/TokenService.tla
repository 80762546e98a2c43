---------------------------- MODULE TokenService ----------------------------
(***************************************************************************)
(* One client and its tokens: the exchange of the identity assertion, the  *)
(* checks of a token on each kind of route, before the wait for the lock   *)
(* and under it, what the route then refuses, revocation, and what the     *)
(* answer's code tells the client to do with the secret it keeps. Time     *)
(* runs in parts of a second, the tokens' claims are whole seconds. The    *)
(* client is external: it follows the README ("Errors") and no more.       *)
(***************************************************************************)
EXTENDS Naturals

CONSTANTS
  Second,       \* ticks of the clock in a second
  AccessTTL,    \* ACCESS_TOKEN_TTL_SECONDS
  Expiries,     \* instants at which the registration may expire
  MaxNow,       \* bound of the clock
  MaxLost,      \* bound: answers that never arrive
  Jtis,         \* access tokens the table tells apart
  Resources,    \* what the client may name as `resource` of an exchange
  NoToken       \* the access token of a client that has none

ASSUME TokenAssumption ==
  /\ Second \in Nat \ {0} /\ AccessTTL \in Nat \ {0}
  /\ Expiries \subseteq Nat \ {0} /\ Expiries # {}
  /\ MaxNow \in Nat /\ MaxLost \in Nat
  /\ NoToken \notin Jtis /\ "assertion" \notin Jtis
  /\ Resources \subseteq {"audience", "other"} /\ Resources # {}

VARIABLES
  now, expiresAt,
  frozen,       \* issuance_frozen
  claimState,   \* claim_state; "unclaimed" is also a pending claim
  revoked,      \* revoked_at is set
  attempt,      \* the latest claim attempt
  keyMarked,    \* the key row is marked revoked
  owner,        \* who has the project at Neon
  token,     \* the claims and the row of the assertion and of access tokens
  client,    \* what the client holds, wants, and was told
  handler,   \* its request, the next step of it and local variables
  lost

claimVars == <<frozen, claimState, revoked, attempt, keyMarked, owner>>
vars == <<now, expiresAt, claimVars, token, client, handler, lost>>

Tokens == Jtis \cup {"assertion"}

Floor(instant) == instant \div Second

nowSeconds == Floor(now)

LeastOf(a, b) == IF a <= b THEN a ELSE b

NoRequest == [at |-> "none", kind |-> "none", token |-> "assertion", resource |-> "audience",
              exp |-> 0, code |-> "ok", locked |-> FALSE]

Goto(step) == handler' = [handler EXCEPT !.at = step]
Answer(code) == handler' = [handler EXCEPT !.at = "answer", !.code = code, !.locked = FALSE]

(* assertNotExpired *)
Expired(t) == token[t].exp <= nowSeconds

-----------------------------------------------------------------------------
(* The client: it exchanges when it has no access token, and else asks. *)
Want(goal) ==
  /\ client.goal = "none"
  /\ client.assertion = "kept"
  /\ client' = [client EXCEPT !.goal = goal]
  /\ UNCHANGED <<now, expiresAt, claimVars, token, handler, lost>>

(* A claim code can be had for the assertion as well as for an access token. *)
WithAssertion == {"revokeAssertion", "codeByAssertion"}

Exchange ==
  /\ client.access = NoToken /\ client.goal \notin WithAssertion
  /\ \E resource \in Resources :
       handler' = [NoRequest EXCEPT !.at = "verify", !.kind = "exchange", !.resource = resource]

Request ==
  \/ /\ client.goal = "revokeAssertion"
     /\ handler' = [NoRequest EXCEPT !.at = "revoke", !.kind = "revoke"]
  \/ /\ client.goal = "codeByAssertion"
     /\ handler' = [NoRequest EXCEPT !.at = "verify", !.kind = "code"]
  \/ /\ client.access # NoToken /\ client.goal \notin WithAssertion
     /\ handler' = [NoRequest EXCEPT !.kind = client.goal, !.token = client.access,
                       !.at = IF client.goal = "revoke" THEN "revoke" ELSE "verify"]

Send ==
  /\ handler.at = "none"
  /\ client.goal # "none"
  /\ Exchange \/ Request
  /\ UNCHANGED <<now, expiresAt, claimVars, token, client, lost>>

(* "Only invalid_grant, project_expired, and project_claimed are authoritative
   enough for a client to discard a stored credential." *)
Authoritative == {"invalid_grant", "project_expired", "project_claimed"}

Receive ==
  /\ handler.at = "answer"
  /\ handler' = NoRequest
  /\ client' =
       IF handler.code \in Authoritative
       THEN [client EXCEPT !.assertion = "pruned", !.access = NoToken, !.goal = "none"]
       ELSE IF handler.code \in {"token_expired", "unauthorized"}
       THEN [client EXCEPT !.access = NoToken]
       ELSE IF handler.code \in {"claim_in_progress", "not_found"} /\ handler.kind # "exchange"
       THEN [client EXCEPT !.goal = "none"]
       ELSE IF handler.code = "ok" /\ handler.kind = "exchange"
       THEN [client EXCEPT !.access = handler.token]
       ELSE IF handler.code = "ok" /\ handler.kind = "revoke"
       THEN [client EXCEPT !.told = @ \cup {handler.token}, !.goal = "none"]
       ELSE IF handler.code = "ok" THEN [client EXCEPT !.goal = "none"] ELSE client
  /\ UNCHANGED <<now, expiresAt, claimVars, token, lost>>

(* The answer is lost, or the handler before it could answer. *)
Lose ==
  /\ handler.at # "none"
  /\ lost < MaxLost
  /\ lost' = lost + 1
  /\ handler' = NoRequest
  /\ UNCHANGED <<now, expiresAt, claimVars, token, client>>

-----------------------------------------------------------------------------
(* What verifyAssertion and verifyAccessToken say of an expired token. *)
ExpiredCode(t) == IF t = "assertion" THEN "invalid_grant" ELSE "token_expired"

(* verifyAssertion, verifyAccessToken; the signature, the issuer and the kind of
   a token the service has minted are right. The exchange looks at the resource
   before it looks at the assertion. *)
Verify ==
  /\ handler.at = "verify"
  /\ IF handler.resource = "other" THEN Answer("invalid_grant")
     ELSE IF Expired(handler.token) THEN Answer(ExpiredCode(handler.token))
     ELSE Goto(IF handler.kind = "status" THEN "find" ELSE "table")
  /\ UNCHANGED <<now, expiresAt, claimVars, token, client, lost>>

(* What follows the checks of the caller: the mint, the wait for the lock, and
   under the lock what the route does. *)
Route(kind) ==
  CASE kind = "operate" -> "client" [] kind = "code" -> "issue" [] OTHER -> "poll"

Proceed ==
  Goto(IF handler.kind = "exchange" THEN "mint"
       ELSE IF handler.locked THEN Route(handler.kind) ELSE "lock")

(* authenticateClaimStatus: a reconciled claim may be read again with a token that
   was revoked with it. *)
Find ==
  /\ handler.at = "find"
  /\ IF claimState = "reconciled" THEN Proceed ELSE Goto("table")
  /\ UNCHANGED <<now, expiresAt, claimVars, token, client, lost>>

(* isTokenRevoked *)
Table ==
  /\ handler.at = "table"
  /\ IF token[handler.token].revoked
     THEN Answer(IF handler.token = "assertion" THEN "invalid_grant" ELSE "unauthorized")
     ELSE Goto("usable")
  /\ UNCHANGED <<now, expiresAt, claimVars, token, client, lost>>

(* requireUsableRegistration *)
Usability ==
  IF revoked THEN "invalid_grant"
  ELSE IF claimState = "reconciled" THEN "project_claimed"
  ELSE IF expiresAt <= now THEN "project_expired" ELSE "ok"

(* Wrong variant: nothing is exchanged once the claim has begun. *)
RefusedWhenFrozenAll(kind) == kind \in {"operate", "exchange"}

(* authenticate refuses a frozen registration. authenticateClaimCode and
   authenticateClaimStatus do not, and the exchange grants it a token without
   scopes, for these two. *)
RefusedWhenFrozen(kind) == kind = "operate"

Usable ==
  /\ handler.at = "usable"
  /\ IF Usability # "ok" THEN Answer(Usability)
     ELSE IF frozen /\ RefusedWhenFrozen(handler.kind) THEN Answer("claim_in_progress")
     ELSE Proceed
  /\ UNCHANGED <<now, expiresAt, claimVars, token, client, lost>>

(* Wrong variant: who was let in before the wait is let in after it. *)
AfterWaitRoute == Route(handler.kind)

(* Under the lock the checks of the token and of the registration are made again;
   POST /v1/agent/identity/claim looks at its registration only. *)
AfterWait == IF handler.token = "assertion" THEN "usable" ELSE "verify"

(* withRegistrationLock *)
Lock ==
  /\ handler.at = "lock"
  /\ handler' = [handler EXCEPT !.at = AfterWait, !.locked = TRUE]
  /\ UNCHANGED <<now, expiresAt, claimVars, token, client, lost>>

-----------------------------------------------------------------------------
(* projectClient: the credentials and the proxied operations. *)
ProjectClient ==
  /\ handler.at = "client"
  /\ Answer(IF keyMarked THEN "project_claimed" ELSE "ok")
  /\ UNCHANGED <<now, expiresAt, claimVars, token, client, lost>>

Claimed(state) == state \in {"accepted", "reconciled"}

(* Wrong variant: a claim that is under way is one that is done. *)
IssuanceInProgressAlike ==
  IF Claimed(claimState) \/ Claimed(attempt) \/ (frozen /\ attempt # "lapsed")
  THEN "project_claimed" ELSE "ok"

(* claimCodeIssuance *)
Issuance ==
  IF Claimed(claimState) \/ Claimed(attempt) THEN "project_claimed"
  ELSE IF frozen /\ attempt \in {"none", "pending", "offered"} THEN "claim_in_progress"
  ELSE "ok"

(* createClaimCode: a frozen registration has its owner looked up first. *)
Issue ==
  /\ handler.at = "issue"
  /\ IF Issuance # "ok" THEN Answer(Issuance) /\ UNCHANGED attempt
     ELSE IF frozen THEN Goto("owner") /\ UNCHANGED attempt
     ELSE Answer("ok") /\ attempt' = "pending"
  /\ UNCHANGED <<now, expiresAt, frozen, claimState, revoked, keyMarked, owner, token, client, lost>>

(* Nobody but the holding organization: the human has it, or it is deleted. *)
CheckOwner ==
  /\ handler.at = "owner"
  /\ IF owner # "holding" THEN Answer("project_claimed") /\ UNCHANGED attempt
     ELSE Answer("ok") /\ attempt' = "pending"
  /\ UNCHANGED <<now, expiresAt, frozen, claimState, revoked, keyMarked, owner, token, client, lost>>

RevokeTokens(which) ==
  token' = [t \in Tokens |-> [token[t] EXCEPT !.revoked = @ \/ t \in which]]

(* getClaimStatus *)
Poll ==
  /\ handler.at = "poll"
  /\ CASE attempt = "none" -> Answer("not_found") /\ UNCHANGED attempt
       [] attempt = "lapsed" -> Answer("ok") /\ attempt' = "closed"
       [] attempt = "offered" /\ owner # "holding" -> Goto("accept") /\ attempt' = "accepted"
       [] attempt = "accepted" -> Goto("reconcile") /\ UNCHANGED attempt
       [] OTHER -> Answer("ok") /\ UNCHANGED attempt
  /\ UNCHANGED <<now, expiresAt, frozen, claimState, revoked, keyMarked, owner, token, client, lost>>

AcceptClaim ==
  /\ handler.at = "accept"
  /\ claimState' = "accepted"
  /\ Goto("reconcile")
  /\ UNCHANGED <<now, expiresAt, frozen, revoked, attempt, keyMarked, owner, token, client, lost>>

(* completeClaimReconciliation, one transaction. *)
ReconcileClaim ==
  /\ handler.at = "reconcile"
  /\ RevokeTokens(Tokens)
  /\ claimState' = "reconciled" /\ attempt' = "reconciled"
  /\ Answer("ok")
  /\ UNCHANGED <<now, expiresAt, frozen, revoked, keyMarked, owner, client, lost>>

-----------------------------------------------------------------------------
(* Wrong variant: the life of the project does not bound the token's. *)
MintedExpUnclamped == nowSeconds + AccessTTL

(* mintAccessToken clamps the life of the token to the project's, *)
MintedExp == LeastOf(nowSeconds + AccessTTL, Floor(expiresAt))

(* and refuses one that would be over as it begins. *)
Mint ==
  /\ handler.at = "mint"
  /\ IF MintedExp <= nowSeconds THEN Answer("project_expired")
     ELSE handler' = [handler EXCEPT !.at = "record", !.exp = MintedExp]
  /\ UNCHANGED <<now, expiresAt, claimVars, token, client, lost>>

(* recordToken, in place of a token that nobody presents any more. *)
Record ==
  /\ handler.at = "record"
  /\ \E j \in Jtis :
       /\ j # client.access
       /\ token' = [token EXCEPT ![j] = [exp |-> handler.exp, revoked |-> FALSE]]
       /\ handler' = [handler EXCEPT !.at = "answer", !.code = "ok", !.token = j, !.exp = 0]
       /\ client' = [client EXCEPT !.told = @ \ {j}]
  /\ UNCHANGED <<now, expiresAt, claimVars, lost>>

(* revocationJti: an access token or an assertion that verifies. *)
RevocationJti(t) == t \in Tokens /\ ~Expired(t)

(* POST /v1/oauth2/revoke: 200, also for a token it cannot verify. *)
Revoke ==
  /\ handler.at = "revoke"
  /\ token' = [token EXCEPT ![handler.token].revoked = @ \/ RevocationJti(handler.token)]
  /\ Answer("ok")
  /\ UNCHANGED <<now, expiresAt, claimVars, client, lost>>

-----------------------------------------------------------------------------
(* What others do to the rows. The submit of a code, a DELETE and the janitor work
   under the lock and may break off after any step; that one which broke off is not
   taken up again is left out. The human and the time wait for nobody. *)
Free == ~handler.locked

(* beginClaimTransfer, prepareClaimTransfer; more in ClaimTransfer. *)
Redeemed == Free /\ attempt = "pending" /\ ~revoked /\ claimState = "unclaimed"

Freeze ==
  /\ Redeemed
  /\ frozen' = TRUE
  /\ UNCHANGED <<now, expiresAt, claimState, revoked, attempt, keyMarked, owner,
                 token, client, handler, lost>>

MarkKey ==
  /\ \/ Redeemed /\ frozen
     \/ Free /\ ~frozen /\ owner = "deleted" /\ token["assertion"].revoked
  /\ keyMarked' = TRUE
  /\ UNCHANGED <<now, expiresAt, frozen, claimState, revoked, attempt, owner,
                 token, client, handler, lost>>

RevokeAccess ==
  /\ Redeemed /\ frozen /\ keyMarked
  /\ RevokeTokens(Jtis)
  /\ UNCHANGED <<now, expiresAt, claimVars, client, handler, lost>>

Offer ==
  /\ Redeemed /\ frozen /\ keyMarked /\ owner = "holding"
  /\ attempt' = "offered"
  /\ UNCHANGED <<now, expiresAt, frozen, claimState, revoked, keyMarked, owner,
                 token, client, handler, lost>>

(* The human accepts, in Neon's console. *)
AcceptTransfer ==
  /\ attempt = "offered" /\ owner = "holding"
  /\ owner' = "human"
  /\ UNCHANGED <<now, expiresAt, frozen, claimState, revoked, attempt, keyMarked,
                 token, client, handler, lost>>

(* The time of the code, or of the transfer request, is over. *)
Lapse ==
  /\ attempt \in {"pending", "offered"}
  /\ attempt' = "lapsed"
  /\ UNCHANGED <<now, expiresAt, frozen, claimState, revoked, keyMarked, owner,
                 token, client, handler, lost>>

(* deleteClaimableProject, of a DELETE or of the janitor. *)
DeleteProject ==
  /\ Free /\ owner = "holding"
  /\ owner' = "deleted"
  /\ UNCHANGED <<now, expiresAt, frozen, claimState, revoked, attempt, keyMarked,
                 token, client, handler, lost>>

(* The next call of a DELETE that changes rows: revokeAllTokens. *)
RevokeAll ==
  /\ Free /\ ~frozen /\ owner = "deleted"
  /\ RevokeTokens(Tokens)
  /\ UNCHANGED <<now, expiresAt, claimVars, client, handler, lost>>

(* The last call of a DELETE, after markProjectKeyRevoked. *)
RevokeRegistration ==
  /\ Free /\ ~frozen /\ owner = "deleted" /\ keyMarked
  /\ revoked' = TRUE
  /\ UNCHANGED <<now, expiresAt, frozen, claimState, attempt, keyMarked, owner,
                 token, client, handler, lost>>

(* commitRetentionCleanup, one transaction; see JanitorRun. *)
Settle ==
  /\ Free /\ ~revoked /\ claimState # "reconciled" /\ owner # "holding"
  /\ RevokeTokens(Tokens)
  /\ keyMarked' = TRUE
  /\ \/ /\ owner = "human" \/ frozen
        /\ claimState' = "reconciled" /\ UNCHANGED revoked
     \/ /\ owner = "deleted"
        /\ revoked' = TRUE /\ UNCHANGED claimState
  /\ UNCHANGED <<now, expiresAt, frozen, attempt, owner, client, handler, lost>>

Tick ==
  /\ now < MaxNow
  /\ now' = now + 1
  /\ UNCHANGED <<expiresAt, claimVars, token, client, handler, lost>>

-----------------------------------------------------------------------------
Goals == {"operate", "code", "codeByAssertion", "status", "revoke", "revokeAssertion"}

Init ==
  /\ now = 0
  /\ expiresAt \in Expiries
  /\ frozen = FALSE /\ claimState = "unclaimed" /\ revoked = FALSE
  /\ attempt = "none" /\ keyMarked = FALSE /\ owner = "holding"
  /\ token = [t \in Tokens |-> [exp |-> IF t = "assertion" THEN Floor(expiresAt) ELSE 0,
                                revoked |-> t # "assertion"]]
  /\ client = [assertion |-> "kept", access |-> NoToken, goal |-> "none", told |-> {}]
  /\ handler = NoRequest
  /\ lost = 0

Serve ==
  \/ Verify \/ Find \/ Table \/ Usable \/ Mint \/ Record \/ Revoke
  \/ Lock \/ ProjectClient \/ Issue \/ CheckOwner \/ Poll \/ AcceptClaim \/ ReconcileClaim

Next ==
  \/ \E goal \in Goals : Want(goal)
  \/ Send \/ Receive \/ Lose \/ Serve
  \/ Freeze \/ MarkKey \/ RevokeAccess \/ Offer \/ AcceptTransfer \/ Lapse
  \/ DeleteProject \/ RevokeAll \/ RevokeRegistration \/ Settle
  \/ Tick

Spec == Init /\ [][Next]_vars

(* The client goes on until its wish is answered, and so does the service. *)
FairSpec == Spec /\ WF_vars(Send) /\ WF_vars(Receive) /\ WF_vars(Serve)

-----------------------------------------------------------------------------
HandlerSteps == {"none", "verify", "find", "table", "usable", "lock", "client", "issue",
                 "owner", "poll", "accept", "reconcile", "mint", "record", "revoke", "answer"}
Codes == Authoritative \cup {"ok", "token_expired", "unauthorized", "claim_in_progress",
                             "not_found"}

Rows == [exp : Nat, revoked : BOOLEAN]
Clients == [assertion : {"kept", "pruned"}, access : Jtis \cup {NoToken},
            goal : Goals \cup {"none"}, told : SUBSET Tokens]
Handlers == [at : HandlerSteps, kind : {"none", "operate", "code", "status", "revoke", "exchange"},
             token : Tokens, resource : Resources \cup {"audience"}, exp : Nat, code : Codes,
             locked : BOOLEAN]

(* Every variable has its type, and no token that was minted outlives its
   registration: its last second is over when the project expires. *)
TypeOK ==
  /\ now \in 0..MaxNow
  /\ expiresAt \in Expiries
  /\ frozen \in BOOLEAN /\ revoked \in BOOLEAN /\ keyMarked \in BOOLEAN
  /\ claimState \in {"unclaimed", "accepted", "reconciled"}
  /\ attempt \in {"none", "pending", "offered", "lapsed", "closed", "accepted", "reconciled"}
  /\ owner \in {"holding", "human", "deleted"}
  /\ token \in [Tokens -> Rows]
  /\ client \in Clients
  /\ handler \in Handlers
  /\ lost \in 0..MaxLost
  /\ \A t \in Tokens : token[t].exp * Second <= expiresAt

(* Nothing can come of the assertion any more. *)
Dead == Expired("assertion") \/ token["assertion"].revoked \/ revoked

(* The project has left the holding organization for good: the human has it, or
   it is deleted. The service can do nothing for the client any more but write
   down that it is so. *)
Left == owner # "holding"

(* A client throws its one durable secret away only when it cannot have anything
   of the project for it any more: the assertion or its registration is over or
   revoked, or the project has gone (lib/errors). *)
PrunedIsDead == client.assertion = "pruned" => Dead \/ Left

(* A token is alive when it is minted, at every sub-second instant, and expires
   with the project at the latest. *)
MintedIsAlive ==
  [][handler'.at = "record" /\ handler.at # "record" =>
       handler'.exp > Floor(now') /\ handler'.exp * Second <= expiresAt]_vars

(* Who was told 200 about a token need not fear it: it is revoked, or it is over,
   although the answer tells nothing of which. *)
ToldRevokedIsDead ==
  \A t \in client.told : token[t].revoked \/ Expired(t)

(* A client that asks for tokens for this service only. *)
NamesAudience == "other" \notin Resources

(* Who has a project that a row says is claimed, or whose key a row says is
   revoked before any claim. *)
RowsInv ==
  /\ token["assertion"].exp = Floor(expiresAt)
  /\ Claimed(claimState) \/ Claimed(attempt) => Left
  /\ claimState = "reconciled" => token["assertion"].revoked
  /\ keyMarked /\ ~frozen => Left

(* What a handler knows at its step, and what stands behind an answer while it is
   on its way: the inductive form of PrunedIsDead and ToldRevokedIsDead. *)
AnswerInv ==
  /\ handler.kind = "exchange" =>
       handler.at \in {"verify", "table", "usable", "mint", "record", "answer"}
  /\ handler.kind = "exchange" /\ handler.at \in {"verify", "table", "usable", "mint"} =>
       handler.token = "assertion"
  /\ handler.kind = "revoke" => handler.at \in {"revoke", "answer"}
  /\ handler.at = "revoke" => handler.kind = "revoke"
  /\ handler.at \in {"mint", "record"} => handler.kind = "exchange"
  /\ handler.at = "find" => handler.kind = "status"
  /\ handler.at = "client" => handler.locked /\ ~frozen
  /\ handler.at \in {"accept", "reconcile"} => Left
  /\ handler.at = "answer" /\ handler.kind = "exchange" /\ handler.code = "ok" =>
       handler.token \in Jtis
  /\ handler.at = "record" => handler.exp * Second <= expiresAt
  /\ handler.at = "answer" /\ handler.code \in Authoritative =>
       Dead \/ Left \/ handler.resource = "other"
  /\ handler.at = "answer" /\ handler.kind = "revoke" =>
       token[handler.token].revoked \/ Expired(handler.token)

TokenInv ==
  /\ TypeOK /\ RowsInv /\ AnswerInv /\ ToldRevokedIsDead
  /\ NamesAudience => PrunedIsDead

(* No code leads a client in circles: whatever it wants of a registration, and
   however the claim, revocations and the clock interfere, it is served, or told
   that a claim is in progress, or learns that the registration is dead. Only
   teardowns without end could take every new token before its first use. *)
WishEnds ==
  (client.goal # "none" ~> client.goal = "none") \/ []<><<RevokeAccess>>_vars
=============================================================================
