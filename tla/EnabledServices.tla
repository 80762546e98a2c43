--------------------------- MODULE EnabledServices ---------------------------
(***************************************************************************)
(* The proxied operations of an agent, and the bookkeeping of those that   *)
(* enable or disable a service: Managed Better Auth and the Data API are   *)
(* Neon's, their stored credentials and the registration's scopes are the  *)
(* service's, and each is changed by a call or a statement of its own.     *)
(* Any of them may fail or the answer get lost; the agent then asks again, *)
(* and Neon's 409 or 404 is the answer to the part that is done already.   *)
(* Requests for one registration take turns: they run under its lock, and  *)
(* who lost it cannot write (RegistrationLock).                            *)
(***************************************************************************)
EXTENDS Scopes

CONSTANTS
  Branches, Databases,       \* what the path of a Data API operation may name
  OwnBranch, OwnDatabase     \* the registration's

ASSUME TargetAssumption ==
  OwnBranch \in Branches /\ OwnDatabase \in Databases /\ "none" \notin Branches

VARIABLES
  auth,      \* Managed Better Auth is enabled on the branch
  dataApi,   \* where the Data API is enabled
  stored,    \* the service_credentials rows: none, or what they came from
  scopes,    \* the scopes of the registration
  frozen,    \* issuance_frozen
  token,     \* the scopes of the agent's latest access token
  handler,   \* the request under the lock, its next step and locals
  told       \* what the agent was last told of each service

upstreamVars == <<auth, dataApi>>
rowVars == <<stored, scopes>>
vars == <<upstreamVars, rowVars, frozen, token, handler, told>>

Targets == Branches \X Databases
Own == <<OwnBranch, OwnDatabase>>
Nowhere == <<"none", "none">>

Op(method, resource, scope, capability) ==
  [method |-> method, resource |-> resource, scope |-> scope, capability |-> capability]

(* OPERATIONS, by what tells one from another before a claim. *)
OPERATIONS ==
  {Op("GET", r, "any", "none") : r \in {"project", "branches", "endpoints",
                                        "databases", "auth", "data-api", "credentials"}}
  \cup {Op("GET", r, "postgres.read", "none") : r \in {"connection_uri", "roles",
                                                       "reveal_password"}}
  \cup {Op("GET", r, "storage.read", "storage") : r \in {"storage", "buckets"}}
  \cup {Op("GET", "functions", "functions.deploy", "functions")}
  \cup {Op("PATCH", r, "postgres.write", "none") : r \in {"branches", "endpoints"}}
  \cup {Op("POST", "auth", "auth.configure", "auth")}
  \cup {Op(m, "data-api", "data_api.configure", "data_api") :
          m \in {"POST", "PATCH", "DELETE"}}
  \cup {Op("POST", "buckets", "storage.write", "storage"),
        Op("POST", "functions", "functions.deploy", "functions")}

Is(method, resource) == handler.op.method = method /\ handler.op.resource = resource

(* authorizeProxyOperation *)
Authorized(op) ==
  /\ op.capability \in {"none"} \cup GrantableOnRequest
  /\ op.scope = "any" \/ op.scope \in token

(* shouldRelayUpstreamStatus: what Neon answers about a service that is, or is
   not, enabled already goes to the agent as it is. *)
ShouldRelay(status) ==
  /\ handler.op.resource \in {"auth", "data-api"}
  /\ \/ handler.op.method \in {"GET", "DELETE"} /\ status = 404
     \/ handler.op.method = "POST" /\ status = 409

NoRequest == [at |-> "idle", op |-> Op("GET", "project", "any", "none"), target |-> Own,
              neonAuth |-> FALSE, status |-> 200, has |-> {}, scopes |-> {}, got |-> "none"]

Goto(step) == handler' = [handler EXCEPT !.at = step]
UnchangedHere == UNCHANGED <<frozen, token, told>>

-----------------------------------------------------------------------------
(* A request is authorized under the lock. What it may change is open from now
   on for the agent, until it is answered. *)
Request ==
  /\ handler.at = "idle" /\ ~frozen
  /\ \E op \in OPERATIONS, t \in Targets, n \in BOOLEAN :
       /\ Authorized(op)
       /\ op.resource # "data-api" => t = Own
       /\ n => op.method = "POST" /\ op.resource = "data-api"
       /\ handler' = [NoRequest EXCEPT !.at = "call", !.op = op, !.target = t,
                                       !.neonAuth = n, !.scopes = scopes]
       /\ told' = [told EXCEPT
            !["data_api"] = IF op.method # "GET" /\ op.resource = "data-api"
                            THEN "unknown" ELSE @,
            !["auth"] = IF (op.method = "POST" /\ op.resource = "auth") \/ n
                        THEN "unknown" ELSE @]
  /\ UNCHANGED <<upstreamVars, rowVars, frozen, token>>

(* Neon's answer to the operation. *)
UpstreamStatus ==
  CASE Is("POST", "auth") -> IF auth THEN 409 ELSE 201
    [] Is("GET", "auth") -> IF auth THEN 200 ELSE 404
    [] Is("POST", "data-api") -> IF handler.target \in dataApi THEN 409 ELSE 201
    [] handler.op.resource = "data-api" /\ handler.op.method # "POST" ->
         IF handler.target \in dataApi THEN 200 ELSE 404
    [] OTHER -> 200

(* Wrong variant: nothing is persisted with a relayed status. *)
AfterCallDone(status) ==
  CASE status = 404 /\ ~ShouldRelay(404) -> "error"
    [] status = 409 /\ ~ShouldRelay(409) -> "error"
    [] status = 201 /\ handler.op.resource \in {"auth", "data-api"} -> "read"
    [] status = 200 /\ Is("DELETE", "data-api") /\ handler.target = Own -> "dropRow"
    [] OTHER -> "answer"

(* requestProxiedOperation: what is persisted after which answer. *)
AfterCall(status) ==
  CASE status = 404 /\ ~ShouldRelay(404) -> "error"
    [] status = 409 /\ ~ShouldRelay(409) -> "error"
    [] handler.op.method = "POST" /\ handler.op.resource \in {"auth", "data-api"} -> "read"
    [] Is("DELETE", "data-api") /\ handler.target = Own -> "dropRow"
    [] OTHER -> "answer"

Call ==
  /\ handler.at = "call"
  /\ auth' = (auth \/ Is("POST", "auth") \/
                (Is("POST", "data-api") /\ UpstreamStatus = 201 /\ handler.neonAuth))
  /\ dataApi' = IF Is("POST", "data-api") THEN dataApi \cup {handler.target}
                ELSE IF Is("DELETE", "data-api") THEN dataApi \ {handler.target}
                ELSE dataApi
  /\ handler' = [handler EXCEPT !.status = UpstreamStatus, !.at = AfterCall(UpstreamStatus)]
  /\ UNCHANGED rowVars /\ UnchangedHere

(* Wrong variant: the credential is taken from the GET on every retry. *)
NextAfterReadAgain(has) ==
  IF handler.op.resource = "auth"
  THEN IF handler.status = 201 THEN "storeAuth" ELSE "getAuth"
  ELSE IF handler.status = 201 THEN "storeDataApi" ELSE "getDataApi"

(* persistEnabledService, persistEnabledDataApi: what the rows lack is stored,
   from the answer or, when Neon had it already, from a GET. *)
NextAfterRead(has) ==
  IF handler.op.resource = "auth"
  THEN IF handler.status = 201 THEN "storeAuth"
       ELSE IF "auth" \in has THEN "answer" ELSE "getAuth"
  ELSE IF handler.status = 201 THEN "storeDataApi"
       ELSE IF "data_api" \notin has THEN "getDataApi"
       ELSE IF handler.neonAuth /\ "auth" \notin has THEN "getAuth" ELSE "answer"

(* getServiceCredentials *)
Read ==
  /\ handler.at = "read"
  /\ LET has == {c \in {"auth", "data_api"} :
                   stored[c] # (IF c = "auth" THEN "none" ELSE Nowhere)}
     IN handler' = [handler EXCEPT !.has = has, !.at = NextAfterRead(has),
                      !.got = IF handler.status = 201 THEN "full" ELSE "none"]
  /\ UNCHANGED <<upstreamVars, rowVars>> /\ UnchangedHere

(* The database is the path's, the branch the registration's. *)
GetDataApi ==
  /\ handler.at = "getDataApi"
  /\ LET existing == <<OwnBranch, handler.target[2]>>
     IN IF existing \in dataApi
        THEN handler' = [handler EXCEPT !.at = "storeDataApi", !.target = existing]
        ELSE Goto("error")
  /\ UNCHANGED <<upstreamVars, rowVars>> /\ UnchangedHere

(* persistServiceCredential writes the row, *)
StoreDataApi ==
  /\ handler.at = "storeDataApi"
  /\ stored' = [stored EXCEPT !["data_api"] = handler.target]
  /\ Goto("scopeDataApi")
  /\ UNCHANGED <<upstreamVars, scopes>> /\ UnchangedHere

(* then the registration's scopes, from the ones it was given. *)
ScopeDataApi ==
  /\ handler.at = "scopeDataApi"
  /\ scopes' = WithGrantedCapability(handler.scopes, "data_api")
  /\ handler' = [handler EXCEPT !.scopes = scopes',
       !.at = IF handler.neonAuth /\ "auth" \notin handler.has THEN "getAuth" ELSE "answer"]
  /\ UNCHANGED <<upstreamVars, stored>> /\ UnchangedHere

(* persistAuthFromExisting: GET /auth has only the public fields. *)
GetAuth ==
  /\ handler.at = "getAuth"
  /\ handler' = [handler EXCEPT !.at = IF auth THEN "storeAuth" ELSE "error",
                                !.got = "public"]
  /\ UNCHANGED <<upstreamVars, rowVars>> /\ UnchangedHere

StoreAuth ==
  /\ handler.at = "storeAuth"
  /\ stored' = [stored EXCEPT !["auth"] = handler.got]
  /\ Goto("scopeAuth")
  /\ UNCHANGED <<upstreamVars, scopes>> /\ UnchangedHere

ScopeAuth ==
  /\ handler.at = "scopeAuth"
  /\ scopes' = WithGrantedCapability(handler.scopes, "auth")
  /\ Goto("answer")
  /\ UNCHANGED <<upstreamVars, stored>> /\ UnchangedHere

(* persistDisabledDataApi: deleteServiceCredential, updateRegistrationScopes *)
DropRow ==
  /\ handler.at = "dropRow"
  /\ stored' = [stored EXCEPT !["data_api"] = Nowhere]
  /\ Goto("dropScope")
  /\ UNCHANGED <<upstreamVars, scopes>> /\ UnchangedHere

DropScope ==
  /\ handler.at = "dropScope"
  /\ scopes' = WithoutDataApiQuery(handler.scopes)
  /\ Goto("answer")
  /\ UNCHANGED <<upstreamVars, stored>> /\ UnchangedHere

(* The usage event of a call that is not a relayed status, and the answer. *)
Answer ==
  /\ handler.at = "answer"
  /\ handler' = NoRequest
  /\ told' = [told EXCEPT
       !["data_api"] = IF Is("POST", "data-api") THEN "enabled"
                       ELSE IF Is("DELETE", "data-api") /\ handler.target = Own
                       THEN "disabled" ELSE @,
       !["auth"] = IF Is("POST", "auth") \/ handler.neonAuth THEN "enabled" ELSE @]
  /\ UNCHANGED <<upstreamVars, rowVars, frozen, token>>

(* The step that was next fails, or what it answered is lost. *)
Fail ==
  /\ handler.at # "idle"
  /\ handler' = NoRequest
  /\ UNCHANGED <<upstreamVars, rowVars>> /\ UnchangedHere

-----------------------------------------------------------------------------
(* POST /v1/oauth2/token, with the registration as it is then. *)
Exchange ==
  /\ token' = IF frozen THEN {} ELSE WithGrantableConfigureScopes(scopes)
  /\ UNCHANGED <<upstreamVars, rowVars, frozen, handler, told>>

(* The claim begins: no operation is authorized any more. *)
Freeze ==
  /\ handler.at = "idle"
  /\ frozen' = TRUE
  /\ UNCHANGED <<upstreamVars, rowVars, token, handler, told>>

(* What provisioning leaves, for what was asked for. *)
Init ==
  \E asked \in SUBSET Capabilities, neonAuth \in BOOLEAN :
    LET granted == Granted(asked) IN
    /\ neonAuth => "data_api" \in granted
    /\ auth = ("auth" \in granted \/ neonAuth)
    /\ dataApi = IF "data_api" \in granted THEN {Own} ELSE {}
    /\ stored = [s \in {"auth", "data_api"} |->
                   IF s = "data_api" THEN IF s \in granted THEN Own ELSE Nowhere
                   ELSE IF s \in granted THEN "full" ELSE IF neonAuth THEN "public" ELSE "none"]
    /\ scopes = WithGrantableConfigureScopes(ScopesForCapabilities(granted))
    /\ frozen = FALSE
    /\ token = {}
    /\ handler = NoRequest
    /\ told = [s \in {"auth", "data_api"} |-> "unknown"]

Next ==
  \/ Request \/ Call \/ Read
  \/ GetDataApi \/ StoreDataApi \/ ScopeDataApi
  \/ GetAuth \/ StoreAuth \/ ScopeAuth
  \/ DropRow \/ DropScope
  \/ Answer \/ Fail
  \/ Exchange \/ Freeze

Spec == Init /\ [][Next]_vars

-----------------------------------------------------------------------------
HandlerSteps == {"idle", "call", "read", "getDataApi", "storeDataApi", "scopeDataApi",
                 "getAuth", "storeAuth", "scopeAuth", "dropRow", "dropScope",
                 "answer", "error"}

(* Every variable has its type; no scope of a capability that requires a claim
   is ever in a registration's scopes or in a token. *)
TypeOK ==
  /\ auth \in BOOLEAN
  /\ dataApi \subseteq Targets
  /\ stored["auth"] \in {"none", "full", "public"}
  /\ stored["data_api"] \in Targets \cup {Nowhere}
  /\ scopes \subseteq ScopesForCapabilities(AlwaysGranted \cup GrantableOnRequest)
  /\ token \subseteq ScopesForCapabilities(AlwaysGranted \cup GrantableOnRequest)
  /\ frozen \in BOOLEAN
  /\ handler.at \in HandlerSteps
  /\ handler.op \in OPERATIONS
  /\ told \in [{"auth", "data_api"} -> {"unknown", "enabled", "disabled"}]

(* What the agent was told last is what the rows say, whatever failed or was
   lost before and however often it had to ask: a service it was told is enabled
   has its credential, and a Data API it was told is gone has neither credential
   nor query scope (shouldRelayUpstreamStatus names both retries). *)
ToldIsStored ==
  /\ told["auth"] = "enabled" => stored["auth"] # "none"
  /\ told["data_api"] = "enabled" => stored["data_api"] # Nowhere
  /\ told["data_api"] = "disabled" =>
       stored["data_api"] = Nowhere /\ "data_api.query" \notin scopes

(* The credential Auth answered with when it was enabled holds private fields
   that a GET omits; no later request replaces it by the public part. *)
PrivateAuthIsKept ==
  [][stored["auth"] = "full" => stored'["auth"] = "full"]_vars

(* The end-to-end test of the proxy: after an agent was told that the Data API is
   enabled, a new token carries data_api.query. The registration's scopes, from
   which the exchange mints it, are written after the credential row, and the
   retry that is answered 409 looks at the row only. *)
ToldIsQueryable ==
  told["data_api"] = "enabled" => "data_api.query" \in scopes
=============================================================================
