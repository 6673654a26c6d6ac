---------------------------- MODULE AuthContract ----------------------------
(***************************************************************************)
(* What one call of DecisionEngine.authenticate promises its callers       *)
(* (api.py, the dashboard, standalone_session.py): it is asked about one   *)
(* tier under the rigor of one effective fraud state, and gives one answer *)
(* that this tier and rigor allow.  DriveAuthGate relies on this much only.*)
(***************************************************************************)
EXTENDS DriveAuthTypes

VARIABLES
  asked,   \* [tier, fraud] of the call in progress, or NotAsked
  answer   \* the decision returned for it, or "none"

cvars == <<asked, answer>>

NotAsked == [tier |-> "none", fraud |-> "none"]

CInit == asked = NotAsked /\ answer = "none"

Ask(tier, fraud) ==
  /\ asked = NotAsked /\ answer = "none"
  /\ asked' = [tier |-> tier, fraud |-> fraud]
  /\ UNCHANGED answer

Answer(d) ==
  /\ asked # NotAsked /\ answer = "none"
  /\ d \in Outcomes(asked.tier, Rigor[asked.fraud])
  /\ answer' = d
  /\ UNCHANGED asked

Take == answer # "none" /\ asked' = NotAsked /\ answer' = "none"

CNext ==
  \/ \E tier \in Tier, fraud \in EffectiveFraudState : Ask(tier, fraud)
  \/ \E d \in Decision : Answer(d)
  \/ Take

CSpec == CInit /\ [][CNext]_cvars
=============================================================================
