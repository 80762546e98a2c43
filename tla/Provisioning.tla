---------------------------- MODULE Provisioning ----------------------------
(***************************************************************************)
(* POST /v1/agent/identity: a project is created at Neon, a key is minted  *)
(* for it, its services are enabled, and only then do rows name any of it. *)
(* What a failed request leaves behind is cleaned up by the request        *)
(* itself, from what it has learned so far, and otherwise by the janitor,  *)
(* which finds only what has a row. Nobody claims the project here: the    *)
(* life after a 201 is ClaimCeremony's.                                    *)
(***************************************************************************)
CONSTANTS Operations    \* the operations Neon starts for a new project

VARIABLES
  request,    \* what the caller asked for
  handler,    \* the request's next step and its local variables
  project,    \* the project at Neon
  ops,        \* the status of each operation of its creation
  enabled,    \* the services Neon runs for its branch
  key,        \* the project-scoped API key at Neon
  rows,       \* the registration's row and the rows that hang on it
  records,    \* rows that survive it: capability demand and usage events
  answer,     \* what the caller was told
  late,       \* the retention period is over
  janitor,    \* the janitor's next step on this registration
  purged      \* the janitor has settled the row

upstreamVars == <<project, ops, enabled, key>>
tableVars == <<rows, records>>
janitorVars == <<late, janitor, purged>>
vars == <<request, handler, upstreamVars, tableVars, answer, janitorVars>>

Services == {"auth", "data_api"}
Bodies == {"unset", "neon_auth", "external"}

(* identityRequest, as far as it decides what is provisioned. A Data API body
   without the capability is refused before anything happens
   (dataApiBodyForIdentity). *)
Requests == {r \in [wants : SUBSET Services, body : Bodies, denied : BOOLEAN] :
               r.body # "unset" => "data_api" \in r.wants}

CleanupSteps == {"cleanRow", "cleanKey", "cleanProject"}
WorkSteps == {"create", "await", "mint", "checkKey", "revokeStray", "auth",
              "dataApi", "readAuth", "register", "storeKey", "storeCredentials",
              "recordDemand", "recordUsage"}

Ended == handler.at = "ended"
Alive == project = "created"

(* dataApiCreateBodyForProvisioning, dataApiCreateRequestsNeonAuth *)
WithNeonAuth ==
  request.body = "neon_auth" \/ (request.body = "unset" /\ "auth" \in request.wants)

-----------------------------------------------------------------------------
To(step) == handler' = [handler EXCEPT !.at = step]
Learns(what, step) == handler' = [handler EXCEPT !.at = step, !.knows = @ \cup what]
Gets(service, step) == handler' = [handler EXCEPT !.at = step, !.got = @ \cup {service}]

(* POST /projects; the answer names the operations still running. *)
CreateProject ==
  /\ handler.at = "create"
  /\ project' = "created"
  /\ ops' \in [Operations -> {"running", "finished"}]
  /\ handler' = [handler EXCEPT !.at = "await",
                   !.pending = {o \in Operations : ops'[o] # "finished"}]
  /\ UNCHANGED <<request, enabled, key, tableVars, answer, janitorVars>>

(* Wrong variant: an operation that ended, however, is not waited for. *)
PollOperationAnyEnd ==
  /\ handler.at = "await"
  /\ \E o \in handler.pending :
       /\ ops[o] # "running"
       /\ handler' = [handler EXCEPT !.pending = @ \ {o}]
  /\ UNCHANGED <<request, upstreamVars, tableVars, answer, janitorVars>>

(* One poll of waitForProjectOperations. A failed operation throws, and so do
   the deadline and a poll that fails: see Throw. *)
PollOperation ==
  /\ handler.at = "await"
  /\ \E o \in handler.pending :
       /\ ops[o] = "finished"
       /\ handler' = [handler EXCEPT !.pending = @ \ {o}]
  /\ UNCHANGED <<request, upstreamVars, tableVars, answer, janitorVars>>

(* Wrong variant: the deadline ends the wait without an error. *)
ProjectReadyAtDeadline == handler.at = "await" /\ Learns({"project"}, "mint")
  /\ UNCHANGED <<request, upstreamVars, tableVars, answer, janitorVars>>

(* createClaimableProject returns, and only now does the handler know the
   project's id. *)
ProjectReady ==
  /\ handler.at = "await"
  /\ handler.pending = {}
  /\ Learns({"project"}, "mint")
  /\ UNCHANGED <<request, upstreamVars, tableVars, answer, janitorVars>>

(* mintProjectKey: Neon may answer with a key for another project. *)
MintKey ==
  /\ handler.at = "mint"
  /\ key' \in {"live", "stray"}
  /\ To("checkKey")
  /\ UNCHANGED <<request, project, ops, enabled, tableVars, answer, janitorVars>>

CheckKey ==
  /\ handler.at = "checkKey"
  /\ IF key = "stray" THEN To("revokeStray") ELSE Learns({"key"}, "auth")
  /\ UNCHANGED <<request, upstreamVars, tableVars, answer, janitorVars>>

(* The key of another project is revoked, then the handler throws. *)
RevokeStray ==
  /\ handler.at = "revokeStray"
  /\ key' = "revoked"
  /\ To("cleanRow")
  /\ UNCHANGED <<request, project, ops, enabled, tableVars, answer, janitorVars>>

(* configureCapabilities: Managed Better Auth first, when it is asked for, *)
EnableAuth ==
  /\ handler.at = "auth"
  /\ IF "auth" \in request.wants
     THEN enabled' = enabled \cup {"auth"} /\ Gets("auth", "dataApi")
     ELSE To("dataApi") /\ UNCHANGED enabled
  /\ UNCHANGED <<request, project, ops, key, tableVars, answer, janitorVars>>

(* then the Data API, whose body may have Neon enable Auth along with it, *)
EnableDataApi ==
  /\ handler.at = "dataApi"
  /\ IF "data_api" \in request.wants
     THEN /\ enabled' = enabled \cup {"data_api"} \cup
                          (IF WithNeonAuth THEN {"auth"} ELSE {})
          /\ Gets("data_api", IF WithNeonAuth /\ "auth" \notin handler.got
                              THEN "readAuth" ELSE "register")
     ELSE To("register") /\ UNCHANGED enabled
  /\ UNCHANGED <<request, project, ops, key, tableVars, answer, janitorVars>>

(* in which case the credential of that Auth is read back. *)
ReadAuth ==
  /\ handler.at = "readAuth"
  /\ Gets("auth", "register")
  /\ UNCHANGED <<request, upstreamVars, tableVars, answer, janitorVars>>

-----------------------------------------------------------------------------
(* The rows, one statement each. *)
Insert(step, row, next) ==
  /\ handler.at = step
  /\ rows' = rows \cup {row}
  /\ To(next)
  /\ UNCHANGED <<request, upstreamVars, records, answer, janitorVars>>

(* createRegistration *)
CreateRegistration == Insert("register", "registration", "storeKey")

(* Wrong variant: the key is left to a later statement that never comes. *)
StoreKeySkipped == handler.at = "storeKey" /\ Insert("storeKey", "registration", "storeCredentials")

StoreKey == Insert("storeKey", "key", "storeCredentials")

(* storeServiceCredential for each, then recordToken for the assertion *)
StoreCredential ==
  \E service \in handler.got \ rows :
    Insert("storeCredentials", service, "storeCredentials")

RecordAssertion ==
  /\ handler.at = "storeCredentials"
  /\ handler.got \subseteq rows
  /\ Insert("storeCredentials", "assertion", "recordDemand")

(* recordCapabilityRequests writes every decision in one statement. *)
RecordDemand ==
  /\ handler.at = "recordDemand"
  /\ records' = records \cup {"demand"}
  /\ To("recordUsage")
  /\ UNCHANGED <<request, upstreamVars, rows, answer, janitorVars>>

(* emitUsage, then the 201. *)
RecordUsage ==
  /\ handler.at = "recordUsage"
  /\ records' = records \cup {"usage"}
  /\ To("ended")
  /\ answer' = "created"
  /\ UNCHANGED <<request, upstreamVars, rows, janitorVars>>

-----------------------------------------------------------------------------
(* Failures. A call that took effect and whose answer was lost, or could not be
   parsed, is the call followed by a throw. *)
Throw ==
  /\ handler.at \in WorkSteps
  /\ To("cleanRow")
  /\ UNCHANGED <<request, upstreamVars, tableVars, answer, janitorVars>>

Die ==
  /\ ~Ended
  /\ To("ended")
  /\ answer' = "lost"
  /\ UNCHANGED <<request, upstreamVars, tableVars, janitorVars>>

(* Wrong variant: without a key there is nothing to clean up at Neon. *)
NextCleanupKeyOnly(step) ==
  IF step = "cleanRow" /\ "key" \in handler.knows THEN "cleanKey"
  ELSE IF step = "cleanKey" /\ "project" \in handler.knows THEN "cleanProject"
  ELSE "ended"

(* Cleanup goes on to what the handler knows of. *)
NextCleanup(step) ==
  IF step = "cleanRow" /\ "key" \in handler.knows THEN "cleanKey"
  ELSE IF step # "cleanProject" /\ "project" \in handler.knows THEN "cleanProject"
  ELSE "ended"

(* A cleanup step that fails is noted and the next one is taken; the last one
   answers with the original error or says that cleanup was incomplete. *)
Cleaned(step, ok) ==
  LET notes == handler.incomplete \/ ~ok
      next == NextCleanup(step)
  IN /\ handler' = [handler EXCEPT !.at = next, !.incomplete = notes]
     /\ answer' = IF next # "ended" THEN answer
                  ELSE IF notes THEN "incomplete" ELSE "failed"

(* deleteRegistration, with the rows that hang on it. *)
CleanRow ==
  /\ handler.at = "cleanRow"
  /\ \E took, ok \in BOOLEAN :
       /\ ok => took
       /\ rows' = IF took THEN {} ELSE rows
       /\ Cleaned("cleanRow", ok)
  /\ UNCHANGED <<request, upstreamVars, records, janitorVars>>

(* revokeProjectKey *)
CleanKey ==
  /\ handler.at = "cleanKey"
  /\ \E took, ok \in BOOLEAN :
       /\ ok => took
       /\ key' = IF took THEN "revoked" ELSE key
       /\ Cleaned("cleanKey", ok)
  /\ UNCHANGED <<request, project, ops, enabled, tableVars, janitorVars>>

(* deleteClaimableProject *)
CleanProject ==
  /\ handler.at = "cleanProject"
  /\ \E took, ok \in BOOLEAN :
       /\ ok => took
       /\ project' = IF took THEN "deleted" ELSE project
       /\ Cleaned("cleanProject", ok)
  /\ UNCHANGED <<request, ops, enabled, key, tableVars, janitorVars>>

-----------------------------------------------------------------------------
(* Neon finishes an operation, or fails it. *)
EndOperation ==
  /\ Alive
  /\ \E o \in Operations :
       /\ ops[o] = "running"
       /\ \E status \in {"finished", "failed"} : ops' = [ops EXCEPT ![o] = status]
  /\ UNCHANGED <<request, handler, project, enabled, key, tableVars, answer, janitorVars>>

(* The retention period is longer than any request runs. *)
RetentionPasses ==
  /\ Ended
  /\ late' = TRUE
  /\ UNCHANGED <<request, handler, upstreamVars, tableVars, answer, janitor, purged>>

(* listRetentionCandidates, then the owner of the project as Neon tells it. *)
JanitorLook ==
  /\ janitor = "idle"
  /\ late /\ "registration" \in rows /\ ~purged
  /\ janitor' = IF Alive THEN "delete" ELSE "key"
  /\ UNCHANGED <<request, handler, upstreamVars, tableVars, answer, late, purged>>

JanitorDelete ==
  /\ janitor = "delete"
  /\ project' = "deleted"
  /\ janitor' = "key"
  /\ UNCHANGED <<request, handler, ops, enabled, key, tableVars, answer, late, purged>>

(* Wrong variant: getProjectKey, which throws when there is no row. *)
JanitorKeyRequired ==
  /\ janitor = "key"
  /\ "key" \in rows
  /\ key' = "revoked"
  /\ janitor' = "commit"
  /\ UNCHANGED <<request, handler, project, ops, enabled, tableVars, answer, late, purged>>

(* revokeUpstreamProjectKey: a registration without a key row is fine. *)
JanitorKey ==
  /\ janitor = "key"
  /\ key' = IF "key" \in rows THEN "revoked" ELSE key
  /\ janitor' = "commit"
  /\ UNCHANGED <<request, handler, project, ops, enabled, tableVars, answer, late, purged>>

JanitorCommit ==
  /\ janitor = "commit"
  /\ purged' = TRUE
  /\ janitor' = "idle"
  /\ UNCHANGED <<request, handler, upstreamVars, tableVars, answer, late>>

JanitorFails ==
  /\ janitor # "idle"
  /\ janitor' = "idle"
  /\ UNCHANGED <<request, handler, upstreamVars, tableVars, answer, late, purged>>

-----------------------------------------------------------------------------
Init ==
  /\ request \in Requests
  /\ handler = [at |-> "create", knows |-> {}, got |-> {}, pending |-> {},
                incomplete |-> FALSE]
  /\ project = "none"
  /\ ops = [o \in Operations |-> "none"]
  /\ enabled = {}
  /\ key = "none"
  /\ rows = {}
  /\ records = {}
  /\ answer = "none"
  /\ late = FALSE
  /\ janitor = "idle"
  /\ purged = FALSE

Handle ==
  \/ CreateProject \/ PollOperation \/ ProjectReady
  \/ MintKey \/ CheckKey \/ RevokeStray
  \/ EnableAuth \/ EnableDataApi \/ ReadAuth
  \/ CreateRegistration \/ StoreKey \/ StoreCredential \/ RecordAssertion
  \/ RecordDemand \/ RecordUsage
  \/ Throw \/ Die
  \/ CleanRow \/ CleanKey \/ CleanProject

Next ==
  \/ Handle
  \/ EndOperation \/ RetentionPasses
  \/ JanitorLook \/ JanitorDelete \/ JanitorKey \/ JanitorCommit \/ JanitorFails

Spec == Init /\ [][Next]_vars

(* The request ends: every wait in it has a deadline, and what hangs ends with
   the process. The janitor runs every day and not all of its runs fail. *)
FairSpec ==
  /\ Spec
  /\ WF_vars(Handle)
  /\ WF_vars(RetentionPasses)
  /\ SF_vars(JanitorLook) /\ SF_vars(JanitorDelete)
  /\ SF_vars(JanitorKey) /\ SF_vars(JanitorCommit)

-----------------------------------------------------------------------------
Rows == {"registration", "key", "assertion"} \cup Services

(* Every variable has its type, and a handler that knows its project has nothing
   to wait for. *)
TypeOK ==
  /\ request \in Requests
  /\ handler \in [at : WorkSteps \cup CleanupSteps \cup {"ended"},
                  knows : SUBSET {"project", "key"}, got : SUBSET Services,
                  pending : SUBSET Operations, incomplete : BOOLEAN]
  /\ "project" \in handler.knows => handler.pending = {}
  /\ project \in {"none", "created", "deleted"}
  /\ ops \in [Operations -> {"none", "running", "finished", "failed"}]
  /\ enabled \subseteq Services
  /\ key \in {"none", "live", "stray", "revoked"}
  /\ rows \subseteq Rows
  /\ records \subseteq {"demand", "usage"}
  /\ answer \in {"none", "created", "failed", "incomplete", "lost"}
  /\ late \in BOOLEAN
  /\ janitor \in {"idle", "delete", "key", "commit"}
  /\ purged \in BOOLEAN

(* A 201 means the whole of it: the project is initialized, the stored key opens
   it until the janitor ends that, every service Neon runs for it has its stored
   credential, and what was denied was recorded before it was denied
   (capabilities.ts). *)
CreatedIsComplete ==
  answer = "created" =>
    /\ {"registration", "key", "assertion"} \subseteq rows
    /\ rows \cap Services = enabled
    /\ request.wants \subseteq enabled
    /\ request.denied => "demand" \in records
    /\ ~late => Alive /\ key = "live"

(* An error without "cleanup was incomplete" leaves nothing the request had
   learned of: no row, no live key, no project. A project it leaves at Neon all
   the same, because its id was still unknown, is bare: no key was minted for it
   and none of its services runs. *)
PlainFailureIsClean ==
  answer = "failed" =>
    /\ rows = {}
    /\ "project" \in handler.knows => ~Alive
    /\ "key" \in handler.knows => key # "live"
    /\ Alive => key = "none" /\ enabled = {}

(* No key is minted and nothing is enabled in a project that Neon has not
   finished: waitForProjectOperations outlasts every operation. *)
ReadyBeforeKey ==
  key # "none" \/ enabled # {} => \A o \in Operations : ops[o] = "finished"

(* Whatever has a row is settled in the end, also when the request died between
   two rows or its cleanup failed halfway: the janitor needs no more of it than
   the registration. *)
RowsAreSettled ==
  Ended /\ "registration" \in rows ~> purged /\ ~Alive
=============================================================================
