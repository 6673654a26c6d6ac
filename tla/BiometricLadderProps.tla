------------------------ MODULE BiometricLadderProps ------------------------
(* What an authentication promises, over decision_engine.py,               *)
(* escalation.py and policy_engine.py together.                            *)
EXTENDS BiometricLadder, FiniteSets

(* The variables have their types; a call is over exactly when the policy  *)
(* has given one of its three decisions.                                   *)
TypeOK ==
  /\ phase \in {"idle", "ladder", "capture", "policy", "done"}
  /\ IF phase = "idle" THEN call = NoCall ELSE call \in Calls
  /\ results \in [Modality -> Scores \cup {NoScore} \cup OtpScores]
  /\ probed \subseteq Modality
  /\ accepted_by \in probed \cup {"none"}
  /\ stage3 \in BOOLEAN
  /\ IF phase = "done" THEN decision \in Decision ELSE decision = "none"

Accepted == phase = "done" /\ decision = "ACCEPT"

(* When the tier or the fraud state forces stage 3, the ladder accepts on  *)
(* a stage-3 match of its own, above the bar raised by the trust margin,   *)
(* and never on a mock finger, in any lane order: not even after an OTP    *)
(* attempt that failed.  With all modalities captured at once a measured   *)
(* finger that is no mock is required (README.md:229).                     *)
RealStage3Match ==
  Accepted /\ ForceStage3 =>
    /\ call.ladder => accepted_by \in Stage3 /\ Clears(results[accepted_by])
    /\ accepted_by = "finger" \/ ~call.ladder =>
         ~call.finger_is_mock /\ results["finger"] # NoScore

Measured == {m \in Modality : results[m] # NoScore}

(* An ACCEPT rests on as many measured modalities as the rigor and the     *)
(* tier demand; attempts that timed out, crashed or failed their quality   *)
(* gate do not count, and neither does a result that only comes later.     *)
EnoughMeasured == Accepted => Cardinality(Measured) >= MinModalities

(* A driver whose real stage-3 probe was made and failed is rejected; the  *)
(* mobile OTP step-up is offered only where no real stage 3 was reached    *)
(* (README.md:231).                                                        *)
StepUpOnlyWithoutStage3 ==
  phase = "done" /\ decision = "STEP_UP_REQUIRED" /\ call.tier # "guest"
    => /\ call.ladder => "otp" \notin probed
       /\ call.ladder /\ "finger" \in probed => call.finger_is_mock

Contract == INSTANCE AuthContract
  WITH asked <- [tier |-> call.tier, fraud |-> call.fraud], answer <- decision

(* Every call implements the contract the payment gate relies on.          *)
KeepsContract == Contract!CSpec

(* Every call is answered: the loop over next_modality ends whatever       *)
(* sensors are missing, hang or crash.                                     *)
CallAnswered == (phase # "idle") ~> (phase = "done")
=============================================================================
