---------------------------- MODULE RoleRotation ----------------------------
(***************************************************************************)
(* rotateAndQuiesceProjectRoles and the calls under it, role by role and   *)
(* endpoint by endpoint, against an agent that still has sessions: what    *)
(* ClaimTransfer takes in three steps (ResetRoles, DisableCompute and the  *)
(* comparison) and why it may. The caller is prepareClaimTransfer, which   *)
(* runs again when a human submits the code again.                         *)
(* Neon is external: a change starts an operation, takes effect when it    *)
(* finishes, and until then other changes are answered 423. It lists the   *)
(* roles as Postgres has them, and every change has its own `updated_at`.  *)
(***************************************************************************)
EXTENDS Naturals

CONSTANTS
  Roles,      \* names a password role may have
  Endpoints,  \* the computes of the branch
  Nothing,    \* the object of no operation
  MaxFaults   \* bound: calls and operations that fail

ASSUME RotationAssumption ==
  /\ Roles # {} /\ Endpoints # {}
  /\ Nothing \notin Roles \cup Endpoints
  /\ MaxFaults \in Nat

VARIABLES
  roles,     \* the password roles of the branch
  known,     \* those whose present password the agent knows
  on,        \* the endpoints that are enabled
  session,   \* the endpoints on which the agent has a session
  op,        \* the running operation of the project
  worker,    \* the claim handler: its next step and local variables
  faults     \* failures so far

databaseVars == <<roles, known, on, session>>
vars == <<databaseVars, op, worker, faults>>

MaxRotations == 3    \* `attempt < 3`

NoOp == [kind |-> "none", of |-> Nothing]
NeonFree == op = NoOp

Goto(step) == worker' = [worker EXCEPT !.at = step]

(* setProjectEndpointsDisabled, for every endpoint of the branch, and what
   comes after it. *)
SetEndpoints(kind, next) ==
  [worker EXCEPT !.at = "patch", !.todo = Endpoints, !.kind = kind, !.next = next]

-----------------------------------------------------------------------------
(* resetProjectRolePasswords lists the roles once, *)
ListRoles ==
  /\ worker.at = "list"
  /\ worker' = [worker EXCEPT !.at = "reset", !.todo = roles, !.snap = {}, !.fresh = {}]
  /\ UNCHANGED <<databaseVars, op, faults>>

(* then resets them one after the other. retryProjectLock asks again while the
   answer is 423. The answer is the role as the snapshot has it. *)
ResetRole ==
  /\ worker.at = "reset"
  /\ NeonFree
  /\ \E r \in worker.todo \cap roles :
       /\ op' = [kind |-> "reset", of |-> r]
       /\ worker' = [worker EXCEPT !.at = "wait", !.todo = @ \ {r}, !.back = "reset",
                                   !.snap = @ \cup {r}, !.fresh = @ \cup {r}]
  /\ UNCHANGED <<databaseVars, faults>>

RolesReset ==
  /\ worker.at = "reset"
  /\ worker.todo = {}
  /\ worker' = SetEndpoints("disable", "compare")
  /\ UNCHANGED <<databaseVars, op, faults>>

(* One PATCH of setProjectEndpointsDisabled. *)
PatchEndpoint ==
  /\ worker.at = "patch"
  /\ NeonFree
  /\ \E e \in worker.todo :
       /\ op' = [kind |-> worker.kind, of |-> e]
       /\ worker' = [worker EXCEPT !.at = "wait", !.todo = @ \ {e}, !.back = "patch"]
  /\ UNCHANGED <<databaseVars, faults>>

(* Wrong variant: the first endpoint stands for all. *)
EndpointsPatchedOne ==
  /\ worker.at = "patch"
  /\ worker.todo # Endpoints
  /\ Goto(worker.next)
  /\ UNCHANGED <<databaseVars, op, faults>>

EndpointsPatched ==
  /\ worker.at = "patch"
  /\ worker.todo = {}
  /\ Goto(worker.next)
  /\ UNCHANGED <<databaseVars, op, faults>>

(* Wrong variant: the answer to the call is taken for its effect. *)
OperationsNotAwaited ==
  /\ worker.at = "wait"
  /\ Goto(worker.back)
  /\ UNCHANGED <<databaseVars, op, faults>>

(* waitForProjectOperations; its error ends are Fail and OperationFails. *)
OperationsFinished ==
  /\ worker.at = "wait"
  /\ NeonFree
  /\ Goto(worker.back)
  /\ UNCHANGED <<databaseVars, op, faults>>

(* Wrong variant: a role that came after the reset is not compared. *)
SameRoleStateOfReset == worker.snap \cap roles = worker.fresh

(* sameRoleState: the same names, each with the `updated_at` of its reset. *)
SameRoleState == worker.snap = roles /\ worker.fresh = roles

RolesUnchanged ==
  /\ worker.at = "compare"
  /\ SameRoleState
  /\ Goto("quiet")
  /\ UNCHANGED <<databaseVars, op, faults>>

(* Wrong variant: the compute is enabled again before the loop gives up, too. *)
RolesChangedReopen ==
  /\ worker.at = "compare"
  /\ ~SameRoleState
  /\ worker' = IF worker.round < MaxRotations
               THEN [SetEndpoints("enable", "list") EXCEPT !.round = @ + 1]
               ELSE SetEndpoints("enable", "exhausted")
  /\ UNCHANGED <<databaseVars, op, faults>>

(* Wrong variant: a round too many. *)
RolesChangedOnceMore ==
  /\ worker.at = "compare"
  /\ ~SameRoleState
  /\ worker' = IF worker.round <= MaxRotations
               THEN [SetEndpoints("enable", "list") EXCEPT !.round = @ + 1]
               ELSE [worker EXCEPT !.at = "exhausted"]
  /\ UNCHANGED <<databaseVars, op, faults>>

(* A session raced the rotation: the compute is enabled for another round, or
   remains disabled after the last. *)
RolesChanged ==
  /\ worker.at = "compare"
  /\ ~SameRoleState
  /\ worker' = IF worker.round < MaxRotations
               THEN [SetEndpoints("enable", "list") EXCEPT !.round = @ + 1]
               ELSE [worker EXCEPT !.at = "exhausted"]
  /\ UNCHANGED <<databaseVars, op, faults>>

(* prepareClaimTransfer, after the rows of the registration, enables the
   compute for the human. *)
Reopen ==
  /\ worker.at = "quiet"
  /\ worker' = SetEndpoints("enable", "prepared")
  /\ UNCHANGED <<databaseVars, op, faults>>

(* A call fails, a wait is over its deadline, or the process dies. *)
Fail ==
  /\ worker.at \notin {"failed", "exhausted", "prepared"}
  /\ faults < MaxFaults
  /\ faults' = faults + 1
  /\ Goto("failed")
  /\ UNCHANGED <<databaseVars, op>>

(* A listed role that is gone by now is a 404, which ends the handler as well. *)
RoleMissing ==
  /\ worker.at = "reset"
  /\ worker.todo \ roles # {}
  /\ Goto("failed")
  /\ UNCHANGED <<databaseVars, op, faults>>

Start == [at |-> "list", round |-> 1, todo |-> {}, snap |-> {}, fresh |-> {},
          kind |-> "none", next |-> "none", back |-> "none"]

(* The human submits again, whatever state the last attempt left. *)
SubmitAgain ==
  /\ worker.at \in {"failed", "exhausted"}
  /\ worker' = Start
  /\ UNCHANGED <<databaseVars, op, faults>>

-----------------------------------------------------------------------------
(* Neon finishes the operation, and it takes effect. *)
OperationEnds ==
  /\ ~NeonFree
  /\ known' = IF op.kind = "reset" THEN known \ {op.of} ELSE known
  /\ on' = CASE op.kind = "enable" -> on \cup {op.of}
             [] op.kind = "disable" -> on \ {op.of}
             [] OTHER -> on
  /\ session' = IF op.kind = "disable" THEN session \ {op.of} ELSE session
  /\ op' = NoOp
  /\ UNCHANGED <<roles, worker, faults>>

(* It fails without effect; who polls it throws. *)
OperationFails ==
  /\ ~NeonFree
  /\ faults < MaxFaults
  /\ faults' = faults + 1
  /\ op' = NoOp
  /\ worker' = IF worker.at = "wait" THEN [worker EXCEPT !.at = "failed"] ELSE worker
  /\ UNCHANGED databaseVars

-----------------------------------------------------------------------------
(* The agent's sessions. *)
Connect ==
  /\ known # {}
  /\ \E e \in on : session' = session \cup {e}
  /\ UNCHANGED <<roles, known, on, op, worker, faults>>

(* ALTER ROLE ... PASSWORD, or CREATE ROLE *)
ChangeRole ==
  /\ session # {}
  /\ \E r \in Roles :
       /\ roles' = roles \cup {r}
       /\ known' = known \cup {r}
       /\ worker' = [worker EXCEPT !.fresh = @ \ {r}]
  /\ UNCHANGED <<on, session, op, faults>>

(* DROP ROLE; a session cannot drop its own role. *)
DropRole ==
  /\ session # {}
  /\ \E r \in roles :
       /\ roles # {r}
       /\ roles' = roles \ {r}
       /\ known' = known \ {r}
       /\ worker' = [worker EXCEPT !.fresh = @ \ {r}]
  /\ UNCHANGED <<on, session, op, faults>>

-----------------------------------------------------------------------------
(* The registration is frozen and its key revoked, so nobody else changes the
   project; an operation the agent started before may still run. *)
Init ==
  /\ roles \in (SUBSET Roles) \ {{}}
  /\ known = roles
  /\ on = Endpoints
  /\ session \in SUBSET Endpoints
  /\ op \in {NoOp, [kind |-> "other", of |-> Nothing]}
  /\ worker = Start
  /\ faults = 0

Rotate ==
  \/ ListRoles \/ ResetRole \/ RolesReset \/ RoleMissing
  \/ PatchEndpoint \/ EndpointsPatched \/ OperationsFinished
  \/ RolesUnchanged \/ RolesChanged \/ Reopen
  \/ SubmitAgain

Next ==
  \/ Rotate \/ Fail
  \/ OperationEnds \/ OperationFails
  \/ Connect \/ ChangeRole \/ DropRole

Spec == Init /\ [][Next]_vars

(* The handler goes on, operations end, and the human does not give up. Of the
   agent nothing is assumed. *)
FairSpec == Spec /\ WF_vars(Rotate) /\ WF_vars(OperationEnds)

-----------------------------------------------------------------------------
Quiet == worker.at \in {"quiet", "prepared"}
           \/ (worker.at \in {"patch", "wait"} /\ worker.next = "prepared")

WorkerSteps == {"list", "reset", "wait", "patch", "compare", "quiet",
                "failed", "exhausted", "prepared"}

(* The worker is at the resets, or at the patches of its endpoints. *)
Resetting == worker.at = "reset" \/ (worker.at = "wait" /\ worker.back = "reset")
Patching == worker.at = "patch" \/ (worker.at = "wait" /\ worker.back = "patch")

(* Every variable has its type; no round beyond the third. *)
TypeOK ==
  /\ roles \in (SUBSET Roles) \ {{}}
  /\ known \subseteq roles
  /\ on \subseteq Endpoints
  /\ session \subseteq on
  /\ op \in [kind : {"none", "other"}, of : {Nothing}] \cup
           [kind : {"reset"}, of : Roles] \cup [kind : {"enable", "disable"}, of : Endpoints]
  /\ worker \in [at : WorkerSteps, round : 1..MaxRotations,
                 todo : SUBSET (Roles \cup Endpoints),
                 snap : SUBSET Roles, fresh : SUBSET Roles,
                 kind : {"none", "enable", "disable"},
                 next : {"none", "compare", "list", "prepared"},
                 back : {"none", "reset", "patch"}]
  /\ worker.fresh \subseteq worker.snap
  /\ faults \in 0..MaxFaults

(* A password that the worker takes for fresh is unknown to the agent, but for
   the one whose reset still runs. *)
FreshIsUnknown ==
  worker.at # "failed" =>
    \A r \in worker.fresh \cap known :
      /\ worker.at = "wait" /\ worker.back = "reset"
      /\ op = [kind |-> "reset", of |-> r]

(* While the endpoints are patched, those that are done are as they should be,
   but for the one whose operation still runs, and no other operation runs. *)
PatchedSoFar ==
  Patching =>
    /\ worker.kind # "none" /\ worker.next # "none" /\ worker.todo \subseteq Endpoints
    /\ worker.kind = "disable" <=> worker.next = "compare"
    /\ worker.at = "patch" /\ worker.todo # Endpoints => NeonFree
    /\ worker.at = "wait" => NeonFree \/ (op.kind = worker.kind /\ op.of \notin worker.todo)
    /\ worker.next = "compare" =>
         \A e \in on \ worker.todo : worker.at = "wait" /\ op = [kind |-> "disable", of |-> e]
    /\ worker.next = "prepared" =>
         /\ worker.at = "patch" => NeonFree
         /\ \A e \in Endpoints \ (worker.todo \cup on) :
              worker.at = "wait" /\ op = [kind |-> "enable", of |-> e]

(* What the steps leave to the next ones besides. *)
Handover ==
  /\ worker.at = "list" \/ Resetting => worker.next \in {"none", "list"}
  /\ worker.at = "wait" => worker.back # "none"
  /\ worker.at \in {"compare", "exhausted"} => on = {} /\ NeonFree
  /\ worker.at = "quiet" => NeonFree
  /\ worker.at = "prepared" => NeonFree /\ on = Endpoints

(* Once the rotation has returned, and for ever after, the agent has no session
   and knows no password, whatever it did to the roles meanwhile and whatever
   attempts before left half-way. *)
QuietWhenReturned == Quiet => known = {} /\ session = {}

(* The inductive form of it and of the next one: it holds at every step of the
   worker, whatever the agent does meanwhile. *)
RotationInv ==
  TypeOK /\ FreshIsUnknown /\ PatchedSoFar /\ Handover /\ QuietWhenReturned

(* Every compute is as the outcome says: "the compute remains disabled", the
   message of the loop that gave up, and the human gets all of the branch back. *)
ComputeIsAsTold ==
  /\ worker.at = "exhausted" => on = {} /\ session = {}
  /\ worker.at = "prepared" => on = Endpoints

(* An agent that goes on changing or creating roles cannot keep the claim from
   ending: the rotation that gave up leaves the compute disabled, and the next
   one finds no session to race it. It can by dropping roles for ever: a role
   that is gone between the list and its reset ends the handler with the compute
   still enabled. *)
PreparationSucceeds == <>(worker.at = "prepared") \/ []<><<DropRole>>_vars
=============================================================================
