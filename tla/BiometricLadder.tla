--------------------------- MODULE BiometricLadder ---------------------------
(***************************************************************************)
(* driveauth/decision_engine.py, escalation.py and policy_engine.py: one   *)
(* call of DecisionEngine.authenticate after another.  A call reads the    *)
(* rigor, probes voice, face and the stage-3 lanes in turn until one       *)
(* modality clears its raised bar and the rigor is met (or captures all at *)
(* once for a guest or with escalation off), and then asks the policy.     *)
(*                                                                         *)
(* A score is its distance above the modality's own base bar, in steps of  *)
(* 0.05 and cut off at 4: 0 is a mismatch, NoScore is None.  A score       *)
(* clears a bar raised by margin iff it is above margin.  The matchers     *)
(* (voice, face, finger, hailo_face) mark every score they return          *)
(* confident and available, so a confident modality is one with a score.   *)
(***************************************************************************)
EXTENDS DriveAuthTypes, Sequences

CONSTANTS
  Scores,        \* the scores a matcher can return
  Stage3Orders   \* the stage-3 lanes a deployment or a call can ask for

ASSUME ScoresAssumption == Scores \subseteq 0..4
ASSUME OrdersAssumption ==
  \A o \in Stage3Orders : o \in Seq({"finger", "otp"})

VARIABLES
  phase,       \* "idle", "ladder", "capture", "policy" or "done"
  call,        \* what the call was asked, and the deployment it runs in
  results,     \* modality -> score
  probed,      \* the modalities the ladder has probed
  accepted_by, \* the modality that made the ladder ACCEPT, or "none"
  stage3,      \* stage3_reached
  decision     \* the policy's answer, or "none"

vars == <<phase, call, results, probed, accepted_by, stage3, decision>>

-----------------------------------------------------------------------------
Modality == {"voice", "face", "finger", "otp"}
Stage3 == {"finger", "otp"}
Captured == {"voice", "face", "finger"}   \* what _capture_all probes
NoScore == -1

(* LadderOTPLane.probe: not delivered or no code yet, a wrong code,        *)
(* a right one.                                                            *)
OtpScores == {NoScore, 0, 4}

(* is_guest or ESCALATION_ENABLED = 0 take the parallel path.              *)
Calls == [tier : Tier, fraud : EffectiveFraudState, ladder : BOOLEAN,
          order : Stage3Orders, finger_is_mock : BOOLEAN,
          available : SUBSET Stage3]

(* No call in progress.                                                    *)
NoCall == [tier |-> "none", fraud |-> "none"]

rigor == Rigor[call.fraud]
margin == rigor.trust_margin
ForceStage3 == NeedsStage3(call.tier, rigor)
MinModalities == ReqMinModalities(call.tier, rigor)

(* Faulty variant: probe attempts count as well.                           *)
NAttempted(r) ==
  LET one(m) == IF r[m] # NoScore \/ m \in probed THEN 1 ELSE 0
  IN  one("voice") + one("face") + one("finger") + one("otp")

(* DecisionEngine._n_confident                                             *)
NConfident(r) ==
  LET one(m) == IF r[m] # NoScore THEN 1 ELSE 0
  IN  one("voice") + one("face") + one("finger") + one("otp")

(* LadderPlan.is_accept: a missing score clears no bar.                    *)
Clears(score) == score > margin

(* EscalationPolicy.should_accept: a face just above its raised bar does   *)
(* not count while the presentation-attack score is just above its own.    *)
ShouldAccept(m, score, pad_borderline) ==
  Clears(score) /\ ~(m = "face" /\ score = margin + 1 /\ pad_borderline)

(* LadderPlan.order                                                        *)
Order == <<"voice", "face">> \o call.order

(* Faulty variant: only the hardware is looked at.                         *)
SkippedMissing(m) == m \in Stage3 /\ m \notin call.available

(* A lane without its hardware is skipped.  Voice and face that are absent *)
(* are probed with no score: only stage-3 lanes are asked for afterwards.  *)
Skipped(m) == m \in probed \/ (m \in Stage3 /\ m \notin call.available)

(* LadderPlan.next_modality                                                *)
IsNext(m) ==
  \E k \in 1..Len(Order) :
    /\ Order[k] = m /\ ~Skipped(m)
    /\ \A j \in 1..(k - 1) : Skipped(Order[j])

(* Faulty variant: only the finger lane is remembered.                     *)
ReachedFinger(ps) == "finger" \in ps /\ ~call.finger_is_mock

(* stage3_reached: a delivered or attempted OTP counts, a mock finger not. *)
Reached(ps) == "otp" \in ps \/ ("finger" \in ps /\ ~call.finger_is_mock)

(* rigor_satisfied after probing m; a mock finger blocks unless an OTP     *)
(* was probed before it.                                                   *)
RigorSatisfied(m, r, ps) ==
  /\ NConfident(r) >= MinModalities
  /\ ForceStage3 => ps \cap Stage3 # {}
  /\ ~(ForceStage3 /\ m = "finger" /\ call.finger_is_mock /\ "otp" \notin ps)

-----------------------------------------------------------------------------
Init ==
  /\ phase = "idle"
  /\ call = NoCall
  /\ results = [m \in Modality |-> NoScore]
  /\ probed = {}
  /\ accepted_by = "none"
  /\ stage3 = FALSE
  /\ decision = "none"

(* The prologue of authenticate: tier and rigor are read once.             *)
Begin(amount, known, is_guest, base, mature) ==
  /\ phase = "idle"
  /\ \E enabled, mock \in BOOLEAN, order \in Stage3Orders,
        available \in SUBSET Stage3 :
       call' = [tier |-> ClassifyTier(amount, known, is_guest),
                fraud |-> EffectiveState(base, mature),
                ladder |-> enabled /\ ~is_guest,
                order |-> order, finger_is_mock |-> mock,
                available |-> available]
  /\ phase' = IF call'.ladder THEN "ladder" ELSE "capture"
  /\ UNCHANGED <<results, probed, accepted_by, stage3, decision>>

(* One round of the ladder loop: probe the next modality, which may time   *)
(* out, crash or fail its quality gate (NoScore), and accept or go on.     *)
Probe(m) ==
  /\ phase = "ladder" /\ IsNext(m)
  /\ \E score \in Scores \cup {NoScore}, pad_borderline \in BOOLEAN :
       /\ m = "otp" => score \in OtpScores
       /\ results' = [results EXCEPT ![m] = score]
       /\ probed' = probed \cup {m}
       /\ stage3' = Reached(probed')
       /\ LET accept == /\ ShouldAccept(m, score, pad_borderline)
                        /\ RigorSatisfied(m, results', probed')
          IN  /\ accepted_by' = IF accept THEN m ELSE "none"
              /\ phase' = IF accept THEN "policy" ELSE "ladder"
  /\ UNCHANGED <<call, decision>>

(* next_modality found none: the ladder proposes REJECT.                   *)
Exhausted ==
  /\ phase = "ladder" /\ \A m \in Modality : ~IsNext(m)
  /\ phase' = "policy"
  /\ UNCHANGED <<call, results, probed, accepted_by, stage3, decision>>

(* _capture_all: a thread that is not back within its join timeout leaves  *)
(* no score for now.                                                       *)
CaptureAll ==
  /\ phase = "capture"
  /\ \E r \in [Captured -> Scores \cup {NoScore}] :
       /\ "finger" \notin call.available => r["finger"] = NoScore
       /\ results' = [m \in Modality |->
                        IF m \in Captured THEN r[m] ELSE NoScore]
  /\ stage3' = (~call.finger_is_mock /\ results'["finger"] # NoScore)
  /\ phase' = "policy"
  /\ UNCHANGED <<call, probed, accepted_by, decision>>

(* ... but it still writes its result into the dict the call reads from.   *)
LateCapture(m) ==
  /\ phase = "policy" /\ ~call.ladder
  /\ results[m] = NoScore
  /\ m = "finger" => "finger" \in call.available
  /\ \E score \in Scores : results' = [results EXCEPT ![m] = score]
  /\ UNCHANGED <<phase, call, probed, accepted_by, stage3, decision>>

(* Faulty variant: the ladder's own check for mock fingers is trusted.     *)
LadderPolicyTrusting ==
  LET accepts == accepted_by # "none"
  IN  CASE accepts /\ ForceStage3 /\ ~stage3            -> "REJECT"
        [] ~accepts /\ ForceStage3 /\ ~stage3           -> "STEP_UP_REQUIRED"
        [] accepts /\ NConfident(results) < MinModalities
           /\ ~(ForceStage3 /\ ~stage3)                 -> "REJECT"
        [] OTHER -> IF accepts THEN "ACCEPT" ELSE "REJECT"

(* decide after the ladder, in the order of its returns.                   *)
LadderPolicy ==
  LET viaMock == accepted_by = "finger" /\ call.finger_is_mock
      accepts == accepted_by # "none"
  IN  CASE accepts /\ ForceStage3 /\ (~stage3 \/ viaMock) -> "REJECT"
        [] ~accepts /\ ForceStage3 /\ ~stage3             -> "STEP_UP_REQUIRED"
        [] accepts /\ NConfident(results) < MinModalities
           /\ ~(ForceStage3 /\ (~stage3 \/ viaMock))      -> "REJECT"
        [] OTHER -> IF accepts THEN "ACCEPT" ELSE "REJECT"

(* Faulty variant: no return at the end of the function.                   *)
FallbackPolicyFallsOff(trusted, risk) ==
  IF ~(trusted /\ risk = "low" /\ NConfident(results) >= 1) THEN "none"
  ELSE IF ForceStage3 /\ ~(stage3 /\ ~call.finger_is_mock) THEN "REJECT"
  ELSE IF NConfident(results) < MinModalities THEN "REJECT" ELSE "ACCEPT"

(* decide without the ladder: fused trust over its bar, low risk and       *)
(* confidence over its floor, then stage 3 and the number of modalities.   *)
FallbackPolicy(trusted, risk) ==
  IF ~(trusted /\ risk = "low" /\ NConfident(results) >= 1) THEN "REJECT"
  ELSE IF ForceStage3 /\ ~(stage3 /\ ~call.finger_is_mock)
    THEN IF stage3 /\ call.finger_is_mock THEN "REJECT" ELSE "STEP_UP_REQUIRED"
  ELSE IF NConfident(results) < MinModalities THEN "REJECT" ELSE "ACCEPT"

(* Faulty variant: the guest gate comes before the fraud lock.             *)
DecideGuestFirst(trusted, risk) ==
  IF call.tier = "guest" THEN "STEP_UP_REQUIRED"
  ELSE IF rigor.block \/ risk = "high" THEN "REJECT"
  ELSE IF call.ladder THEN LadderPolicy ELSE FallbackPolicy(trusted, risk)

(* PolicyEngine.decide                                                     *)
Decide(trusted, risk) ==
  IF rigor.block THEN "REJECT"
  ELSE IF call.tier = "guest" THEN "STEP_UP_REQUIRED"
  ELSE IF risk = "high" THEN "REJECT"
  ELSE IF call.ladder THEN LadderPolicy ELSE FallbackPolicy(trusted, risk)

(* The risk score and the fused trust are drawn where they are used.       *)
Policy ==
  /\ phase = "policy"
  /\ \E trusted \in BOOLEAN, risk \in {"low", "medium", "high"} :
       decision' = Decide(trusted, risk)
  /\ phase' = "done"
  /\ UNCHANGED <<call, results, probed, accepted_by, stage3>>

Return ==
  /\ phase = "done"
  /\ phase' = "idle"
  /\ call' = NoCall
  /\ results' = [m \in Modality |-> NoScore]
  /\ probed' = {}
  /\ accepted_by' = "none"
  /\ stage3' = FALSE
  /\ decision' = "none"

Step ==
  \/ \E m \in Modality : Probe(m)
  \/ Exhausted
  \/ CaptureAll
  \/ Policy

Next ==
  \/ \E amount \in AmountClass, known, is_guest, mature \in BOOLEAN,
        base \in FraudState : Begin(amount, known, is_guest, base, mature)
  \/ Step
  \/ \E m \in Captured : LateCapture(m)
  \/ Return

Spec == Init /\ [][Next]_vars

(* The thread in authenticate runs on: every probe is cut off by           *)
(* CAPTURE_JOIN_TIMEOUT_S.                                                 *)
FairSpec == Spec /\ WF_vars(Step)
=============================================================================
