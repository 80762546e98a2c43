---------------------------- MODULE MCJanitorRun ----------------------------
(* Instances of JanitorRun for TLC. *)
EXTENDS JanitorRun

(* The states of `Left` that leave most to do: the tokens are alive, or not
   even a key row was stored; or the human has the project, and then also without a
   token to poll with. *)
LiveLeftovers == {s \in Left : s.token \/ s.key = "none" \/ s.owner = "human"}
=============================================================================
