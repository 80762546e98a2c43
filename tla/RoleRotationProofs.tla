-------------------------- MODULE RoleRotationProofs --------------------------
(***************************************************************************)
(* Proofs about RoleRotation, for any number of roles, computes and        *)
(* failures: what prepareClaimTransfer may rely on when the rotation has   *)
(* returned, and what is left when it gave up.                             *)
(***************************************************************************)
EXTENDS RoleRotation, TLAPS

(* The initial states. *)
LEMMA InitInv == Init => RotationInv
<1> SUFFICES ASSUME Init  PROVE RotationInv
  OBVIOUS
<1> USE RotationAssumption DEF Init, Start, NoOp
<1>1. TypeOK
  BY DEF TypeOK, WorkerSteps, MaxRotations
<1>2. FreshIsUnknown /\ PatchedSoFar
  BY DEF FreshIsUnknown, PatchedSoFar, Patching
<1>3. Handover /\ QuietWhenReturned
  BY DEF Handover, QuietWhenReturned, Resetting, Quiet
<1> QED  BY <1>1, <1>2, <1>3 DEF RotationInv

-----------------------------------------------------------------------------
(* The worker fails where it is. *)
LEMMA FailInv ==
  ASSUME RotationInv, Fail
  PROVE  RotationInv'
<1> USE RotationAssumption DEF RotationInv, Fail, Goto, databaseVars
<1>1. TypeOK'
  BY DEF TypeOK, WorkerSteps
<1>2. FreshIsUnknown'
  BY DEF FreshIsUnknown, TypeOK
<1>3. PatchedSoFar'
  BY DEF PatchedSoFar, Patching, TypeOK
<1>4. Handover'
  BY DEF Handover, Resetting, TypeOK
<1>5. QuietWhenReturned'
  BY DEF QuietWhenReturned, Quiet, TypeOK
<1> QED  BY <1>1, <1>2, <1>3, <1>4, <1>5

(* A listed role is gone. *)
LEMMA RoleMissingInv ==
  ASSUME RotationInv, RoleMissing
  PROVE  RotationInv'
<1> USE RotationAssumption DEF RotationInv, RoleMissing, Goto, databaseVars
<1>1. TypeOK'
  BY DEF TypeOK, WorkerSteps
<1>2. FreshIsUnknown'
  BY DEF FreshIsUnknown, TypeOK
<1>3. PatchedSoFar'
  BY DEF PatchedSoFar, Patching, TypeOK
<1>4. Handover'
  BY DEF Handover, Resetting, TypeOK
<1>5. QuietWhenReturned'
  BY DEF QuietWhenReturned, Quiet, TypeOK
<1> QED  BY <1>1, <1>2, <1>3, <1>4, <1>5

(* A round begins: nothing is fresh yet. *)
LEMMA ListRolesInv ==
  ASSUME RotationInv, ListRoles
  PROVE  RotationInv'
<1> USE RotationAssumption DEF RotationInv, ListRoles, databaseVars
<1>1. TypeOK'
  BY DEF TypeOK, WorkerSteps
<1>2. FreshIsUnknown'
  BY DEF FreshIsUnknown, TypeOK
<1>3. PatchedSoFar'
  BY DEF PatchedSoFar, Patching, TypeOK
<1>4. Handover'
  BY DEF Handover, Resetting, TypeOK
<1>5. QuietWhenReturned'
  BY DEF QuietWhenReturned, Quiet, TypeOK
<1> QED  BY <1>1, <1>2, <1>3, <1>4, <1>5

(* One reset begins; its role is the one password that is not fresh yet. *)
LEMMA ResetRoleInv ==
  ASSUME RotationInv, ResetRole
  PROVE  RotationInv'
<1> USE RotationAssumption DEF RotationInv, ResetRole, NeonFree, NoOp, databaseVars
<1>1. TypeOK'
  <2>1. PICK r \in worker.todo \cap roles :
          /\ op' = [kind |-> "reset", of |-> r]
          /\ worker' = [worker EXCEPT !.at = "wait", !.todo = @ \ {r}, !.back = "reset",
                                      !.snap = @ \cup {r}, !.fresh = @ \cup {r}]
    OBVIOUS
  <2>2. r \in Roles
    BY DEF TypeOK
  <2> HIDE DEF ResetRole
  <2>3. worker' \in [at : WorkerSteps, round : 1..MaxRotations,
                     todo : SUBSET (Roles \cup Endpoints),
                     snap : SUBSET Roles, fresh : SUBSET Roles,
                     kind : {"none", "enable", "disable"},
                     next : {"none", "compare", "list", "prepared"},
                     back : {"none", "reset", "patch"}]
    BY <2>1, <2>2 DEF TypeOK, WorkerSteps
  <2> QED  BY <2>1, <2>2, <2>3 DEF TypeOK, ResetRole
<1>2. FreshIsUnknown'
  BY DEF FreshIsUnknown, TypeOK
<1>3. PatchedSoFar'
  BY DEF PatchedSoFar, Patching, TypeOK
<1>4. Handover'
  BY DEF Handover, Resetting, TypeOK, PatchedSoFar
<1>5. QuietWhenReturned'
  BY DEF QuietWhenReturned, Quiet, TypeOK, Handover, Resetting
<1> QED  BY <1>1, <1>2, <1>3, <1>4, <1>5

(* The resets are over and the endpoints are next. *)
LEMMA RolesResetInv ==
  ASSUME RotationInv, RolesReset
  PROVE  RotationInv'
<1> USE RotationAssumption DEF RotationInv, RolesReset, SetEndpoints, databaseVars
<1>1. TypeOK'
  BY DEF TypeOK, WorkerSteps
<1>2. FreshIsUnknown'
  BY DEF FreshIsUnknown, TypeOK
<1>3. PatchedSoFar'
  BY DEF PatchedSoFar, Patching, TypeOK
<1>4. Handover'
  BY DEF Handover, Resetting, TypeOK
<1>5. QuietWhenReturned'
  BY DEF QuietWhenReturned, Quiet, TypeOK
<1> QED  BY <1>1, <1>2, <1>3, <1>4, <1>5

(* One endpoint is patched; the operation is the only one. *)
LEMMA PatchEndpointInv ==
  ASSUME RotationInv, PatchEndpoint
  PROVE  RotationInv'
<1> USE RotationAssumption DEF RotationInv, PatchEndpoint, NeonFree, NoOp, databaseVars
<1>1. TypeOK'
  <2>1. PICK e \in worker.todo :
          /\ op' = [kind |-> worker.kind, of |-> e]
          /\ worker' = [worker EXCEPT !.at = "wait", !.todo = @ \ {e}, !.back = "patch"]
    OBVIOUS
  <2>2. e \in Endpoints /\ worker.kind \in {"enable", "disable"}
    BY DEF TypeOK, PatchedSoFar, Patching
  <2> QED  BY <2>1, <2>2 DEF TypeOK, WorkerSteps
<1>2. FreshIsUnknown'
  BY DEF FreshIsUnknown, TypeOK
<1>3. PatchedSoFar'
  BY DEF PatchedSoFar, Patching, TypeOK
<1>4. Handover'
  BY DEF Handover, Resetting, TypeOK
<1>5. QuietWhenReturned'
  BY DEF QuietWhenReturned, Quiet, TypeOK
<1> QED  BY <1>1, <1>2, <1>3, <1>4, <1>5

(* All endpoints are patched: disabled before the comparison, enabled before the end. *)
LEMMA EndpointsPatchedInv ==
  ASSUME RotationInv, EndpointsPatched
  PROVE  RotationInv'
<1> USE RotationAssumption DEF RotationInv, EndpointsPatched, Goto, NeonFree, databaseVars
<1>1. TypeOK'
  BY DEF TypeOK, WorkerSteps, PatchedSoFar, Patching
<1>2. FreshIsUnknown'
  BY DEF FreshIsUnknown, TypeOK, PatchedSoFar, Patching
<1>3. PatchedSoFar'
  BY DEF PatchedSoFar, Patching, TypeOK
<1>4. Handover'
  BY DEF Handover, Resetting, TypeOK, PatchedSoFar, Patching
<1>5. QuietWhenReturned'
  BY DEF QuietWhenReturned, Quiet, TypeOK, PatchedSoFar, Patching
<1> QED  BY <1>1, <1>2, <1>3, <1>4, <1>5

(* The wait is over, so no reset or patch still runs. *)
LEMMA OperationsFinishedInv ==
  ASSUME RotationInv, OperationsFinished
  PROVE  RotationInv'
<1> USE RotationAssumption DEF RotationInv, OperationsFinished, Goto, NeonFree, NoOp, databaseVars
<1>1. TypeOK'
  BY DEF TypeOK, WorkerSteps, Handover
<1>2. FreshIsUnknown'
  BY DEF FreshIsUnknown, TypeOK
<1>3. PatchedSoFar'
  BY DEF PatchedSoFar, Patching, TypeOK, Handover
<1>4. Handover'
  BY DEF Handover, Resetting, TypeOK
<1>5. QuietWhenReturned'
  BY DEF QuietWhenReturned, Quiet, TypeOK, Handover, Resetting
<1> QED  BY <1>1, <1>2, <1>3, <1>4, <1>5

(* The comparison found every role with the password of its reset, and no
   endpoint is enabled. *)
LEMMA RolesUnchangedInv ==
  ASSUME RotationInv, RolesUnchanged
  PROVE  RotationInv'
<1> USE RotationAssumption DEF RotationInv, RolesUnchanged, SameRoleState, Goto, NeonFree, databaseVars
<1>1. TypeOK'
  BY DEF TypeOK, WorkerSteps
<1>2. FreshIsUnknown'
  BY DEF FreshIsUnknown, TypeOK
<1>3. PatchedSoFar'
  BY DEF PatchedSoFar, Patching, TypeOK
<1>4. Handover'
  BY DEF Handover, Resetting, TypeOK
<1>5. QuietWhenReturned'
  BY DEF QuietWhenReturned, Quiet, TypeOK, Handover, FreshIsUnknown
<1> QED  BY <1>1, <1>2, <1>3, <1>4, <1>5

(* The comparison failed: another round, or the end with the endpoints disabled. *)
LEMMA RolesChangedInv ==
  ASSUME RotationInv, RolesChanged
  PROVE  RotationInv'
<1> USE RotationAssumption DEF RotationInv, RolesChanged, SetEndpoints, NeonFree, databaseVars
<1>1. TypeOK'
  <2>1. worker.round < MaxRotations => worker.round + 1 \in 1..MaxRotations
    BY DEF TypeOK, MaxRotations
  <2> QED  BY <2>1 DEF TypeOK, WorkerSteps
<1>2. FreshIsUnknown'
  BY DEF FreshIsUnknown, TypeOK
<1>3. PatchedSoFar'
  BY DEF PatchedSoFar, Patching, TypeOK, Handover
<1>4. Handover'
  BY DEF Handover, Resetting, TypeOK
<1>5. QuietWhenReturned'
  BY DEF QuietWhenReturned, Quiet, TypeOK
<1> QED  BY <1>1, <1>2, <1>3, <1>4, <1>5

(* The endpoints are enabled for the human. *)
LEMMA ReopenInv ==
  ASSUME RotationInv, Reopen
  PROVE  RotationInv'
<1> USE RotationAssumption DEF RotationInv, Reopen, SetEndpoints, NeonFree, databaseVars
<1>1. TypeOK'
  BY DEF TypeOK, WorkerSteps
<1>2. FreshIsUnknown'
  BY DEF FreshIsUnknown, TypeOK
<1>3. PatchedSoFar'
  BY DEF PatchedSoFar, Patching, TypeOK, Handover
<1>4. Handover'
  BY DEF Handover, Resetting, TypeOK
<1>5. QuietWhenReturned'
  BY DEF QuietWhenReturned, Quiet, TypeOK
<1> QED  BY <1>1, <1>2, <1>3, <1>4, <1>5

(* The next attempt takes nothing over. *)
LEMMA SubmitAgainInv ==
  ASSUME RotationInv, SubmitAgain
  PROVE  RotationInv'
<1> USE RotationAssumption DEF RotationInv, SubmitAgain, Start, databaseVars
<1>1. TypeOK'
  BY DEF TypeOK, WorkerSteps, MaxRotations
<1>2. FreshIsUnknown'
  BY DEF FreshIsUnknown
<1>3. PatchedSoFar'
  BY DEF PatchedSoFar, Patching
<1>4. Handover'
  BY DEF Handover, Resetting
<1>5. QuietWhenReturned'
  BY DEF QuietWhenReturned, Quiet
<1> QED  BY <1>1, <1>2, <1>3, <1>4, <1>5

(* Neon finishes the operation or fails it. *)
LEMMA OperationInv ==
  ASSUME RotationInv, OperationEnds \/ OperationFails
  PROVE  RotationInv'
<1> USE RotationAssumption DEF RotationInv, OperationEnds, OperationFails, NeonFree, NoOp, databaseVars
<1>1. TypeOK'
  BY DEF TypeOK, WorkerSteps
<1>2. FreshIsUnknown'
  BY DEF FreshIsUnknown, TypeOK
<1>3. PatchedSoFar'
  BY DEF PatchedSoFar, Patching, TypeOK
<1>4. Handover'
  BY DEF Handover, Resetting, TypeOK
<1>5. QuietWhenReturned'
  BY DEF QuietWhenReturned, Quiet, TypeOK, Handover, PatchedSoFar, Patching
<1> QED  BY <1>1, <1>2, <1>3, <1>4, <1>5

(* The agent connects, changes a role or drops one: whatever it learns is not fresh. *)
LEMMA AgentInv ==
  ASSUME RotationInv, Connect \/ ChangeRole \/ DropRole
  PROVE  RotationInv'
<1> USE RotationAssumption DEF RotationInv, Connect, ChangeRole, DropRole, NeonFree
<1>1. TypeOK'
  BY DEF TypeOK, WorkerSteps
<1>2. FreshIsUnknown'
  BY DEF FreshIsUnknown, TypeOK
<1>3. PatchedSoFar'
  BY DEF PatchedSoFar, Patching, TypeOK
<1>4. Handover'
  BY DEF Handover, Resetting, TypeOK
<1>5. QuietWhenReturned'
  BY DEF QuietWhenReturned, Quiet, TypeOK
<1> QED  BY <1>1, <1>2, <1>3, <1>4, <1>5

-----------------------------------------------------------------------------
(* The inductive step. *)
LEMMA NextInv == RotationInv /\ [Next]_vars => RotationInv'
<1> SUFFICES ASSUME RotationInv, [Next]_vars  PROVE RotationInv'
  OBVIOUS
<1>1. CASE UNCHANGED vars
  BY <1>1 DEF RotationInv, TypeOK, FreshIsUnknown, PatchedSoFar, Patching, Handover,
      Resetting, QuietWhenReturned, Quiet, NeonFree, vars, databaseVars
<1>2. CASE Rotate
  BY <1>2, ListRolesInv, ResetRoleInv, RolesResetInv, RoleMissingInv, PatchEndpointInv,
     EndpointsPatchedInv, OperationsFinishedInv, RolesUnchangedInv, RolesChangedInv,
     ReopenInv, SubmitAgainInv DEF Rotate
<1>3. CASE Fail \/ OperationEnds \/ OperationFails \/ Connect \/ ChangeRole \/ DropRole
  BY <1>3, FailInv, OperationInv, AgentInv
<1> QED  BY <1>1, <1>2, <1>3 DEF Next

(* The steps of a rotation find what the ones before left, with failures, attempts
   that broke off and an agent at work in between. *)
THEOREM RotationStepByStep == Spec => []RotationInv
BY InitInv, NextInv, PTL DEF Spec

(* rotateAndQuiesceProjectRoles returns only when the agent knows no password of
   the branch and has no session on it, and it never will again: what
   ClaimTransfer takes for one step. *)
THEOREM NoWayInAfterRotation == Spec => []QuietWhenReturned
<1>1. RotationInv => QuietWhenReturned
  BY DEF RotationInv
<1> QED  BY <1>1, RotationStepByStep, PTL

(* After three raced rounds every compute of the branch is disabled, as the error
   says, and the human is not given a project with one that is still disabled. *)
THEOREM OutcomeTellsCompute == Spec => []ComputeIsAsTold
<1>1. RotationInv => ComputeIsAsTold
  BY DEF RotationInv, TypeOK, Handover, ComputeIsAsTold
<1> QED  BY <1>1, RotationStepByStep, PTL
=============================================================================
