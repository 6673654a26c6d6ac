--------------------------- MODULE DriveAuthTypes ---------------------------
(***************************************************************************)
(* The tables shared by the parts of driveauth: the states of the fraud    *)
(* ladder, the rigor each of them imposes on an authentication             *)
(* (driveauth/policy.yaml), and the payment tiers.                         *)
(*                                                                         *)
(* Two quantities are abstracted.  A trust margin is a number of steps of  *)
(* 0.05, the only multiples the shipped table uses.  An amount is one of   *)
(* the three classes the tier thresholds tell apart.                       *)
(***************************************************************************)
EXTENDS Integers

(* FraudState without BOOTSTRAP: what the ladder itself can be in.         *)
FraudState == {"normal", "elevated", "heightened", "locked"}

(* BOOTSTRAP is overlaid by effective_state and never entered by a report. *)
EffectiveFraudState == FraudState \cup {"bootstrap"}

Strictness ==
  [normal |-> 0, bootstrap |-> 1, elevated |-> 2, heightened |-> 3, locked |-> 4]

(* FraudStateMachine.effective_state                                       *)
EffectiveState(base, profile_mature) ==
  IF profile_mature \/ Strictness[base] > Strictness["bootstrap"]
    THEN base ELSE "bootstrap"

Rigors == [min_modalities : 1..3, force_step_up : BOOLEAN,
           block : BOOLEAN, trust_margin : 0..3]

(* policy.yaml fraud.rigor, read into _RIGOR by _rigor_for.                *)
Rigor ==
  [bootstrap  |-> [min_modalities |-> 2, force_step_up |-> TRUE,
                   block |-> FALSE, trust_margin |-> 1],
   normal     |-> [min_modalities |-> 1, force_step_up |-> FALSE,
                   block |-> FALSE, trust_margin |-> 0],
   elevated   |-> [min_modalities |-> 2, force_step_up |-> FALSE,
                   block |-> FALSE, trust_margin |-> 1],
   heightened |-> [min_modalities |-> 3, force_step_up |-> TRUE,
                   block |-> FALSE, trust_margin |-> 2],
   locked     |-> [min_modalities |-> 3, force_step_up |-> TRUE,
                   block |-> TRUE, trust_margin |-> 3]]

Tier == {"micro", "standard", "high_value", "guest"}

(* amount <= micro_max, between the thresholds, amount >= high_min         *)
AmountClass == {"small", "medium", "large"}

(* policy_engine.classify_tier                                             *)
ClassifyTier(amount, beneficiary_known, is_guest) ==
  CASE is_guest                                  -> "guest"
    [] ~is_guest /\ amount = "small"
                 /\ beneficiary_known            -> "micro"
    [] ~is_guest /\ (amount = "large" \/ ~beneficiary_known) -> "high_value"
    [] OTHER                                     -> "standard"

(* policy_engine._needs_stage3                                             *)
NeedsStage3(tier, rigor) == tier = "high_value" \/ rigor.force_step_up

(* policy_engine._req_min_modalities                                       *)
ReqMinModalities(tier, rigor) ==
  IF tier = "high_value" /\ rigor.min_modalities < 2
    THEN 2 ELSE rigor.min_modalities

Decision == {"ACCEPT", "STEP_UP_REQUIRED", "REJECT"}

(* What PolicyEngine.decide leaves possible for a tier and a rigor,        *)
(* whatever the probes and the risk model say.                             *)
Outcomes(tier, rigor) ==
  CASE rigor.block                       -> {"REJECT"}
    [] ~rigor.block /\ tier = "guest"    -> {"STEP_UP_REQUIRED"}
    [] ~rigor.block /\ tier # "guest"    ->
         IF NeedsStage3(tier, rigor) THEN Decision ELSE {"ACCEPT", "REJECT"}

(* The rank require_auth compares cached tiers by (_can_reuse_cached).     *)
TierRank == [micro |-> 0, standard |-> 1, high_value |-> 2, guest |-> 3]

(* What a report may do to the state of a ladder, its flags left out:      *)
(* record_soft_flag, record_confirmed_fraud, record_clean.                 *)
AfterSoftFlag(s) ==
  IF s = "locked" THEN {"locked"} ELSE {"elevated", "heightened"}

AfterConfirmedFraud(s) ==
  IF s = "locked" THEN {"locked"} ELSE {"heightened", "locked"}

AfterClean(s) ==
  IF s = "locked" THEN {"locked"}
  ELSE {t \in FraudState : Strictness[t] <= Strictness[s]}
=============================================================================
