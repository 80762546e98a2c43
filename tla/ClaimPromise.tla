---------------------------- MODULE ClaimPromise ----------------------------
(***************************************************************************)
(* What the service promises the two people of a claim, with no word on    *)
(* how: an agent works on the project until the claim begins, every secret *)
(* it holds is dead before a human is offered the project, and a project   *)
(* that moved belongs to the human for good.                               *)
(***************************************************************************)
VARIABLES
  phase,    \* where the project is in its life
  secrets   \* some pre-claim secret still opens the project

promiseVars == <<phase, secrets>>

Phases == {"open", "claiming", "offered", "moved", "settled", "gone"}

PromiseInit == phase = "open" /\ secrets = TRUE

BeginClaim == phase = "open" /\ phase' = "claiming" /\ UNCHANGED secrets

RevokeSecrets == phase = "claiming" /\ secrets' = FALSE /\ UNCHANGED phase

OfferProject ==
  phase = "claiming" /\ ~secrets /\ phase' = "offered" /\ UNCHANGED secrets

AcceptProject == phase = "offered" /\ phase' = "moved" /\ UNCHANGED secrets

SettleClaim == phase = "moved" /\ phase' = "settled" /\ UNCHANGED secrets

(* Deleted by the agent or by the janitor: never after the human has it. *)
Vanish ==
  /\ phase \in {"open", "claiming", "offered"}
  /\ phase' = "gone"
  /\ secrets' = FALSE

PromiseNext ==
  BeginClaim \/ RevokeSecrets \/ OfferProject \/ AcceptProject \/ SettleClaim \/ Vanish

PromiseSpec == PromiseInit /\ [][PromiseNext]_promiseVars
=============================================================================
