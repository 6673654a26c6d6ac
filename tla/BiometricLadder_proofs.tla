----------------------- MODULE BiometricLadder_proofs -----------------------
(***************************************************************************)
(* Proofs about DecisionEngine.authenticate, for any scores of the         *)
(* matchers and any orders of the stage-3 lanes.                           *)
(*                                                                         *)
(* The policy looks at stage3, accepted_by and the results only.  What the *)
(* properties say of the probes behind them is carried by the ladder:      *)
(* stage 3 comes after voice and face, so that an ACCEPT that needs stage  *)
(* 3 can only be proposed by a stage-3 lane, and no score is there that    *)
(* was not probed.                                                         *)
(***************************************************************************)
EXTENDS BiometricLadderProps, FiniteSetTheorems, TLAPS

Types ==
  /\ phase \in {"idle", "ladder", "capture", "policy", "done"}
  /\ phase = "idle" => call = NoCall
  /\ phase # "idle" => call \in Calls
  /\ results \in [Modality -> -1..4]
  /\ \A m \in Modality : results[m] \in Scores \cup {NoScore} \cup OtpScores
  /\ probed \subseteq Modality
  /\ accepted_by \in probed \cup {"none"}
  /\ stage3 \in BOOLEAN

(* What the ladder has come to, and on what it proposes to accept.         *)
Laddered ==
  /\ call.tier # "guest"
  /\ phase # "capture"
  /\ phase = "ladder" => accepted_by = "none"
  /\ \A m \in Modality : results[m] # NoScore => m \in probed
  /\ stage3 <=> Reached(probed)
  /\ probed \cap Stage3 # {} => {"voice", "face"} \subseteq probed
  /\ accepted_by # "none" =>
       /\ Clears(results[accepted_by])
       /\ ForceStage3 => accepted_by \in Stage3

(* What the parallel capture left.                                         *)
CapturedAll ==
  /\ phase # "ladder" /\ accepted_by = "none"
  /\ phase = "capture" => stage3 = FALSE
  /\ stage3 => ~call.finger_is_mock /\ results["finger"] # NoScore

Decided ==
  /\ phase # "done" => decision = "none"
  /\ phase = "done" =>
       \E trusted \in BOOLEAN, risk \in {"low", "medium", "high"} :
         decision = Decide(trusted, risk)

IInv ==
  /\ Types /\ Decided
  /\ phase = "idle" =>
       /\ results = [m \in Modality |-> NoScore] /\ probed = {}
       /\ stage3 = FALSE
  /\ phase # "idle" /\ call.ladder => Laddered
  /\ phase # "idle" /\ ~call.ladder => CapturedAll

-----------------------------------------------------------------------------
(* Operators of the ladder.                                                *)

LEMMA ScoreTypes ==
  ASSUME NEW s \in Scores \cup {NoScore} \cup OtpScores
  PROVE  s \in -1..4
BY ScoresAssumption DEF NoScore, OtpScores

(* The prologue asks about a tier and an effective fraud state; only a     *)
(* guest is of the tier guest.                                             *)
LEMMA Prologue ==
  ASSUME NEW amount \in AmountClass, NEW known \in BOOLEAN,
         NEW is_guest \in BOOLEAN, NEW base \in FraudState, NEW mature \in BOOLEAN
  PROVE  /\ ClassifyTier(amount, known, is_guest) \in Tier
         /\ ClassifyTier(amount, known, is_guest) = "guest" <=> is_guest
         /\ EffectiveState(base, mature) \in EffectiveFraudState
<1>1. /\ ClassifyTier(amount, known, is_guest) \in Tier
      /\ ClassifyTier(amount, known, is_guest) = "guest" <=> is_guest
  BY DEF ClassifyTier, Tier, AmountClass
<1>2. EffectiveState(base, mature) \in EffectiveFraudState
  BY DEF EffectiveState, EffectiveFraudState
<1> QED
  BY <1>1, <1>2

(* A stage-3 lane is next only once voice and face were probed.            *)
LEMMA VoiceAndFaceFirst ==
  ASSUME NEW m \in Stage3, IsNext(m), call.order \in Stage3Orders
  PROVE  {"voice", "face"} \subseteq probed
<1>1. call.order \in Seq({"finger", "otp"})
  BY OrdersAssumption
<1>2. /\ Order[1] = "voice" /\ Order[2] = "face"
      /\ Len(Order) \in Nat
  BY <1>1 DEF Order
<1>3. PICK k \in 1..Len(Order) :
        Order[k] = m /\ \A j \in 1..(k - 1) : Skipped(Order[j])
  BY DEF IsNext
<1>4. k # 1 /\ k # 2
  BY <1>2, <1>3 DEF Stage3
<1>5. Skipped("voice") /\ Skipped("face")
  BY <1>2, <1>3, <1>4
<1> QED
  BY <1>5 DEF Skipped, Stage3

(* The policy's answer is one the contract allows.                         *)
LEMMA DecideAllowed ==
  ASSUME call \in Calls, NEW trusted \in BOOLEAN,
         NEW risk \in {"low", "medium", "high"}
  PROVE  Decide(trusted, risk) \in Outcomes(call.tier, Rigor[call.fraud])
<1>1. LadderPolicy \in Decision /\ (LadderPolicy = "STEP_UP_REQUIRED" => ForceStage3)
  BY DEF LadderPolicy, Decision
<1>2. /\ FallbackPolicy(trusted, risk) \in Decision
      /\ FallbackPolicy(trusted, risk) = "STEP_UP_REQUIRED" => ForceStage3
  BY DEF FallbackPolicy, Decision
<1> QED
  BY <1>1, <1>2 DEF Decide, Outcomes, ForceStage3, rigor, Decision

(* _n_confident counts the measured modalities.                            *)
LEMMA MeasuredCount ==
  Cardinality(Measured) = NConfident(results) /\ IsFiniteSet(Measured)
<1> DEFINE Part(S) == {m \in S : results[m] # NoScore}
           one(m) == IF results[m] # NoScore THEN 1 ELSE 0
<1>a. ASSUME NEW S, NEW m, m \notin S
      PROVE  /\ results[m] # NoScore =>
                  Part(S \cup {m}) = Part(S) \cup {m} /\ m \notin Part(S)
             /\ results[m] = NoScore => Part(S \cup {m}) = Part(S)
  BY <1>a
<1>b. Part({}) = {} /\ Measured = Part(Modality)
  BY DEF Measured
<1>c. ASSUME NEW m
      PROVE  (results[m] # NoScore => one(m) = 1) /\ (results[m] = NoScore => one(m) = 0)
  OBVIOUS
<1>d. NConfident(results) = one("voice") + one("face") + one("finger") + one("otp")
  BY DEF NConfident
<1> HIDE DEF Part, one
<1>1. ASSUME NEW S, NEW m, m \notin S, IsFiniteSet(Part(S)), Cardinality(Part(S)) \in Nat
      PROVE  /\ IsFiniteSet(Part(S \cup {m}))
             /\ Cardinality(Part(S \cup {m})) = Cardinality(Part(S)) + one(m)
             /\ Cardinality(Part(S \cup {m})) \in Nat
  <2>1. CASE results[m] # NoScore
    <3>1. Part(S \cup {m}) = Part(S) \cup {m} /\ m \notin Part(S)
      BY <1>1, <1>a, <2>1
    <3>2. /\ IsFiniteSet(Part(S) \cup {m})
          /\ Cardinality(Part(S) \cup {m}) = Cardinality(Part(S)) + 1
      BY <1>1, <3>1, FS_AddElement
    <3>3. one(m) = 1
      BY <1>c, <2>1
    <3> QED
      BY <1>1, <3>1, <3>2, <3>3
  <2>2. CASE results[m] = NoScore
    <3>1. Part(S \cup {m}) = Part(S) /\ one(m) = 0
      BY <1>1, <1>a, <1>c, <2>2
    <3> QED
      BY <1>1, <3>1
  <2> QED
    BY <2>1, <2>2
<1>2. IsFiniteSet(Part({})) /\ Cardinality(Part({})) = 0
  BY <1>b, FS_EmptySet
<1>e. \A m : one(m) \in Nat
  BY <1>c
<1>3. /\ IsFiniteSet(Part({} \cup {"voice"}))
      /\ Cardinality(Part({} \cup {"voice"})) = one("voice")
      /\ Cardinality(Part({} \cup {"voice"})) \in Nat
  BY <1>1, <1>2, <1>e
<1>4. /\ IsFiniteSet(Part(({} \cup {"voice"}) \cup {"face"}))
      /\ Cardinality(Part(({} \cup {"voice"}) \cup {"face"})) = one("voice") + one("face")
      /\ Cardinality(Part(({} \cup {"voice"}) \cup {"face"})) \in Nat
  BY <1>1, <1>3
<1> DEFINE T == ({} \cup {"voice"}) \cup {"face"}
<1>5. /\ IsFiniteSet(Part(T \cup {"finger"}))
      /\ Cardinality(Part(T \cup {"finger"})) = one("voice") + one("face") + one("finger")
      /\ Cardinality(Part(T \cup {"finger"})) \in Nat
  BY <1>1, <1>4
<1>6. /\ IsFiniteSet(Part((T \cup {"finger"}) \cup {"otp"}))
      /\ Cardinality(Part((T \cup {"finger"}) \cup {"otp"})) =
           one("voice") + one("face") + one("finger") + one("otp")
  BY <1>1, <1>5
<1>7. (T \cup {"finger"}) \cup {"otp"} = Modality
  BY DEF Modality
<1> QED
  BY <1>6, <1>7, <1>b, <1>d

(* The policy's answer depends on nothing else.                            *)
LEMMA DecideSame ==
  ASSUME UNCHANGED <<call, results, accepted_by, stage3>>,
         NEW trusted, NEW risk
  PROVE  Decide(trusted, risk)' = Decide(trusted, risk)
BY DEF Decide, LadderPolicy, FallbackPolicy, ForceStage3, MinModalities, rigor

-----------------------------------------------------------------------------
LEMMA InitIInv == Init => IInv
<1> SUFFICES ASSUME Init PROVE IInv
  OBVIOUS
<1>1. /\ phase = "idle" /\ call = NoCall /\ probed = {} /\ accepted_by = "none"
      /\ results = [m \in Modality |-> NoScore] /\ decision = "none"
  BY DEF Init
<1>2. stage3 = FALSE /\ stage3 \in BOOLEAN
  BY Zenon DEF Init
<1>3. Types
  BY <1>1, <1>2 DEF Types, NoScore
<1> QED
  BY <1>1, <1>2, <1>3 DEF IInv, Decided

(* A call begins with the tier and the fraud state it is asked about.      *)
LEMMA BeginStep ==
  ASSUME IInv, NEW amount \in AmountClass, NEW known \in BOOLEAN,
         NEW is_guest \in BOOLEAN, NEW mature \in BOOLEAN, NEW base \in FraudState,
         Begin(amount, known, is_guest, base, mature)
  PROVE  IInv'
<1>1. PICK enabled \in BOOLEAN, mock \in BOOLEAN, order \in Stage3Orders,
           available \in SUBSET Stage3 :
        call' = [tier |-> ClassifyTier(amount, known, is_guest),
                 fraud |-> EffectiveState(base, mature),
                 ladder |-> enabled /\ ~is_guest,
                 order |-> order, finger_is_mock |-> mock,
                 available |-> available]
  BY DEF Begin
<1>2. /\ call'.tier \in Tier /\ (call'.ladder => call'.tier # "guest")
      /\ call' \in Calls
  <2>1. (enabled /\ ~is_guest) \in BOOLEAN
    BY Zenon
  <2>2. call' \in Calls
    BY <1>1, <2>1, Prologue DEF Calls
  <2>3. call'.ladder => call'.tier # "guest"
    BY <1>1, Prologue
  <2> QED
    BY <2>2, <2>3 DEF Calls
<1>3. /\ phase = "idle" /\ results = [m \in Modality |-> NoScore] /\ probed = {}
      /\ stage3 = FALSE /\ accepted_by = "none" /\ decision = "none"
  <2>1. phase = "idle"
    BY DEF Begin
  <2> QED
    BY <2>1 DEF IInv, Types, Decided
<1>4. /\ phase' = IF call'.ladder THEN "ladder" ELSE "capture"
      /\ UNCHANGED <<results, probed, accepted_by, stage3, decision>>
  BY DEF Begin
<1>5. Types'
  BY <1>2, <1>3, <1>4 DEF IInv, Types
<1>6. Decided'
  BY <1>3, <1>4 DEF Decided
<1>7. call'.ladder => Laddered'
  <2>1. ~Reached(probed)'
    BY <1>3, <1>4 DEF Reached
  <2> QED
    BY <1>2, <1>3, <1>4, <2>1 DEF Laddered
<1>8. ~call'.ladder => CapturedAll'
  BY <1>3, <1>4 DEF CapturedAll
<1> QED
  BY <1>4, <1>5, <1>6, <1>7, <1>8 DEF IInv

(* A probe adds its score; the ladder can only accept on a stage-3 lane if *)
(* stage 3 is forced.                                                      *)
LEMMA ProbeStep ==
  ASSUME IInv, NEW m \in Modality, Probe(m)
  PROVE  IInv'
<1>1. PICK score \in Scores \cup {NoScore}, pad_borderline \in BOOLEAN :
       /\ m = "otp" => score \in OtpScores
       /\ results' = [results EXCEPT ![m] = score]
       /\ probed' = probed \cup {m}
       /\ stage3' = Reached(probed')
       /\ LET accept == /\ ShouldAccept(m, score, pad_borderline)
                        /\ RigorSatisfied(m, results', probed')
          IN  /\ accepted_by' = IF accept THEN m ELSE "none"
              /\ phase' = IF accept THEN "policy" ELSE "ladder"
  BY DEF Probe
<1>2. /\ phase = "ladder" /\ IsNext(m) /\ UNCHANGED <<call, decision>>
      /\ Types /\ Decided /\ call.ladder /\ Laddered
  BY DEF Probe, IInv, CapturedAll
<1>3. score \in -1..4 /\ score \in Scores \cup {NoScore} \cup OtpScores
  BY ScoreTypes
<1>4. /\ results' \in [Modality -> -1..4]
      /\ results'[m] = score /\ \A u \in Modality : u # m => results'[u] = results[u]
  BY <1>1, <1>2, <1>3 DEF Types
<1>5. (accepted_by' = m /\ phase' = "policy") \/ (accepted_by' = "none" /\ phase' = "ladder")
  BY <1>1
<1>6. Types'
  <2>1. stage3' \in BOOLEAN
    BY <1>1, Zenon DEF Reached
  <2> QED
    BY <1>1, <1>2, <1>3, <1>4, <1>5, <2>1 DEF Types
<1>7. Decided'
  BY <1>2, <1>5 DEF Decided
<1>8. probed' \cap Stage3 # {} => {"voice", "face"} \subseteq probed'
  <2>1. CASE m \in Stage3
    BY <1>1, <1>2, <2>1, VoiceAndFaceFirst DEF Types, Calls
  <2>2. CASE m \notin Stage3
    BY <1>1, <1>2, <2>2 DEF Laddered
  <2> QED
    BY <2>1, <2>2
<1>9. accepted_by' # "none" => Clears(score) /\ (ForceStage3 => m \in Stage3)
  <2> SUFFICES ASSUME accepted_by' # "none"
               PROVE  Clears(score) /\ (ForceStage3 => m \in Stage3)
    OBVIOUS
  <2>1. ShouldAccept(m, score, pad_borderline) /\ RigorSatisfied(m, results', probed')
    BY <1>1
  <2>2. Clears(score)
    BY <2>1 DEF ShouldAccept
  <2>3. ASSUME ForceStage3, m \notin Stage3 PROVE FALSE
    <3>1. probed' \cap Stage3 # {}
      BY <2>1, <2>3 DEF RigorSatisfied
    <3>2. {"voice", "face"} \subseteq probed
      BY <1>1, <1>2, <2>3, <3>1 DEF Laddered
    <3>3. m \notin probed
      <4>1. ~Skipped(m)
        BY <1>2 DEF IsNext
      <4> QED
        BY <4>1 DEF Skipped
    <3> QED
      BY <2>3, <3>2, <3>3 DEF Modality, Stage3
  <2> QED
    BY <2>2, <2>3
<1>10. Laddered'
  <2>1. call'.tier # "guest" /\ phase' # "capture"
        /\ (phase' = "ladder" => accepted_by' = "none")
    BY <1>2, <1>5 DEF Laddered
  <2>2. \A u \in Modality : results'[u] # NoScore => u \in probed'
    BY <1>1, <1>2, <1>4 DEF Laddered
  <2>3. (stage3 <=> Reached(probed))'
    BY <1>1, <1>2 DEF Reached
  <2>4. accepted_by' # "none" => /\ Clears(results[accepted_by])'
                                 /\ ForceStage3' => accepted_by' \in Stage3
    BY <1>2, <1>4, <1>5, <1>9 DEF Clears, margin, ForceStage3, rigor
  <2> QED
    BY <1>8, <2>1, <2>2, <2>3, <2>4 DEF Laddered
<1> QED
  BY <1>2, <1>5, <1>6, <1>7, <1>10 DEF IInv

(* The parallel capture, and its late results.                             *)
LEMMA CaptureStep ==
  ASSUME IInv, CaptureAll \/ \E m \in Captured : LateCapture(m)
  PROVE  IInv'
<1>t. Types /\ Decided
  BY DEF IInv
<1>1. CASE CaptureAll
  <2>1. PICK r \in [Captured -> Scores \cup {NoScore}] :
          results' = [m \in Modality |-> IF m \in Captured THEN r[m] ELSE NoScore]
    BY <1>1 DEF CaptureAll
  <2>2. /\ phase = "capture" /\ phase' = "policy"
        /\ UNCHANGED <<call, probed, accepted_by, decision>>
        /\ stage3' = (~call.finger_is_mock /\ results'["finger"] # NoScore)
    BY <1>1 DEF CaptureAll
  <2>3. ~call.ladder /\ CapturedAll
    BY <2>2 DEF IInv, Laddered
  <2>4. \A m \in Modality : results'[m] \in Scores \cup {NoScore}
    BY <2>1
  <2>5. results' \in [Modality -> -1..4]
    BY <2>1, <2>4, ScoreTypes
  <2>6. stage3' \in BOOLEAN
    BY <2>2, Zenon
  <2>7. Types'
    BY <1>t, <2>2, <2>4, <2>5, <2>6 DEF Types
  <2>8. CapturedAll'
    BY <2>2, <2>3 DEF CapturedAll
  <2>9. Decided'
    BY <1>t, <2>2 DEF Decided
  <2> QED
    BY <2>2, <2>3, <2>7, <2>8, <2>9 DEF IInv
<1>2. ASSUME NEW m \in Captured, LateCapture(m)
      PROVE  IInv'
  <2>1. PICK score \in Scores : results' = [results EXCEPT ![m] = score]
    BY <1>2 DEF LateCapture
  <2>2. /\ phase = "policy" /\ ~call.ladder /\ results[m] = NoScore
        /\ UNCHANGED <<phase, call, probed, accepted_by, stage3, decision>>
    BY <1>2 DEF LateCapture
  <2>3. CapturedAll
    BY <2>2 DEF IInv
  <2>4. score \in -1..4 /\ m \in Modality
    BY ScoreTypes DEF Captured, Modality
  <2>5. /\ results' \in [Modality -> -1..4]
        /\ \A u \in Modality : results'[u] \in Scores \cup {NoScore} \cup OtpScores
    BY <1>t, <2>1, <2>4 DEF Types
  <2>6. Types'
    BY <1>t, <2>2, <2>5 DEF Types
  <2>7. results["finger"] # NoScore => results'["finger"] # NoScore
    BY <1>t, <2>1, <2>2 DEF Types
  <2>8. CapturedAll'
    BY <2>2, <2>3, <2>7 DEF CapturedAll
  <2>9. Decided'
    BY <1>t, <2>2 DEF Decided
  <2> QED
    BY <2>2, <2>6, <2>8, <2>9 DEF IInv
<1> QED
  BY <1>1, <1>2

LEMMA NextIInv == IInv /\ [Next]_vars => IInv'
<1> SUFFICES ASSUME IInv, [Next]_vars PROVE IInv'
  OBVIOUS
<1>t. Types /\ Decided
  BY DEF IInv
<1>1. CASE Exhausted
  <2>1. /\ phase = "ladder" /\ phase' = "policy"
        /\ UNCHANGED <<call, results, probed, accepted_by, stage3, decision>>
    BY <1>1 DEF Exhausted
  <2>2. call.ladder /\ Laddered
    BY <2>1 DEF IInv, CapturedAll
  <2>3. Laddered'
    BY <2>1, <2>2 DEF Laddered, Reached, Clears, margin, ForceStage3, rigor
  <2>4. Types' /\ Decided'
    BY <1>t, <2>1 DEF Types, Decided
  <2> QED
    BY <2>1, <2>2, <2>3, <2>4 DEF IInv
<1>2. CASE Policy
  <2>1. PICK trusted \in BOOLEAN, risk \in {"low", "medium", "high"} :
          decision' = Decide(trusted, risk)
    BY <1>2 DEF Policy
  <2>2. /\ phase = "policy" /\ phase' = "done"
        /\ UNCHANGED <<call, results, probed, accepted_by, stage3>>
    BY <1>2 DEF Policy
  <2>3. decision' = Decide(trusted, risk)'
    BY <2>1, <2>2, DecideSame
  <2>4. Types' /\ Decided'
    BY <1>t, <2>2, <2>3 DEF Types, Decided
  <2>5. call.ladder => Laddered'
    <3> SUFFICES ASSUME call.ladder PROVE Laddered'
      OBVIOUS
    <3>1. Laddered
      BY <2>2 DEF IInv
    <3> QED
      BY <2>2, <3>1 DEF Laddered, Reached, Clears, margin, ForceStage3, rigor
  <2>6. ~call.ladder => CapturedAll'
    BY <2>2 DEF IInv, CapturedAll
  <2> QED
    BY <2>2, <2>4, <2>5, <2>6 DEF IInv
<1>3. CASE Return
  <2>1. /\ phase' = "idle" /\ call' = NoCall /\ probed' = {} /\ accepted_by' = "none"
        /\ results' = [m \in Modality |-> NoScore] /\ decision' = "none"
    BY <1>3 DEF Return
  <2>2. stage3' = FALSE /\ stage3' \in BOOLEAN
    BY <1>3, Zenon DEF Return
  <2>3. Types'
    BY <2>1, <2>2 DEF Types, NoScore
  <2> QED
    BY <2>1, <2>2, <2>3 DEF IInv, Decided
<1>4. CASE UNCHANGED vars
  <2>1. UNCHANGED <<phase, call, results, probed, accepted_by, stage3, decision>>
    BY <1>4 DEF vars
  <2>2. \A trusted, risk : Decide(trusted, risk)' = Decide(trusted, risk)
    BY <2>1, DecideSame
  <2>3. Types' /\ Decided'
    BY <1>t, <2>1, <2>2 DEF Types, Decided
  <2>4. (Laddered' <=> Laddered) /\ (CapturedAll' <=> CapturedAll)
    BY <2>1 DEF Laddered, CapturedAll, Reached, Clears, margin, ForceStage3, rigor
  <2> QED
    BY <2>1, <2>3, <2>4 DEF IInv
<1> QED
  BY <1>1, <1>2, <1>3, <1>4, BeginStep, ProbeStep, CaptureStep DEF Next, Step

LEMMA SpecIInv == Spec => []IInv
BY InitIInv, NextIInv, PTL DEF Spec

-----------------------------------------------------------------------------
(* The properties.  An ACCEPT of the policy has a reason: a proposal of    *)
(* the ladder that its own checks let through, or a fused trust over its   *)
(* bar.                                                                    *)
LEMMA AcceptHasReason ==
  ASSUME IInv, Accepted
  PROVE  /\ NConfident(results) >= MinModalities
         /\ call.ladder => accepted_by # "none"
         /\ ForceStage3 => stage3 /\ ~(accepted_by = "finger" /\ call.finger_is_mock)
         /\ ForceStage3 /\ ~call.ladder => ~call.finger_is_mock
<1>1. PICK trusted \in BOOLEAN, risk \in {"low", "medium", "high"} :
        decision = Decide(trusted, risk)
  BY DEF IInv, Decided, Accepted
<1>2. IF call.ladder THEN LadderPolicy = "ACCEPT"
      ELSE FallbackPolicy(trusted, risk) = "ACCEPT"
  BY <1>1 DEF Decide, Accepted
<1>3. NConfident(results) \in Nat /\ call \in Calls
  BY DEF IInv, Types, NConfident, Accepted
<1>4. MinModalities \in 1..3
  BY <1>3 DEF MinModalities, ReqMinModalities, rigor, Rigor, Calls,
              EffectiveFraudState, FraudState
<1>5. CASE call.ladder
  <2>1. LadderPolicy = "ACCEPT"
    BY <1>2, <1>5
  <2>2. accepted_by # "none"
    BY <2>1 DEF LadderPolicy
  <2>3. ~(ForceStage3 /\ (~stage3 \/ (accepted_by = "finger" /\ call.finger_is_mock)))
    BY <2>1, <2>2 DEF LadderPolicy
  <2>4. ~(NConfident(results) < MinModalities)
    BY <2>1, <2>2, <2>3 DEF LadderPolicy
  <2> QED
    BY <1>3, <1>4, <1>5, <2>2, <2>3, <2>4
<1>6. CASE ~call.ladder
  <2>1. FallbackPolicy(trusted, risk) = "ACCEPT"
    BY <1>2, <1>6
  <2>2. ~(ForceStage3 /\ ~(stage3 /\ ~call.finger_is_mock))
    BY <2>1 DEF FallbackPolicy
  <2>3. ~(NConfident(results) < MinModalities)
    BY <2>1 DEF FallbackPolicy
  <2> QED
    BY <1>3, <1>4, <1>6, <2>2, <2>3
<1> QED
  BY <1>5, <1>6

(* Every variable has its type, whatever the matchers score; a call that   *)
(* is over has one of the three decisions.                                 *)
THEOREM LadderTypes == Spec => []TypeOK
<1>1. ASSUME IInv PROVE TypeOK
  <2>1. results \in [Modality -> Scores \cup {NoScore} \cup OtpScores]
    BY <1>1 DEF IInv, Types
  <2>2. ASSUME phase = "done" PROVE decision \in Decision
    <3>1. PICK trusted \in BOOLEAN, risk \in {"low", "medium", "high"} :
            decision = Decide(trusted, risk)
      BY <1>1, <2>2 DEF IInv, Decided
    <3>2. decision \in Outcomes(call.tier, Rigor[call.fraud])
      BY <1>1, <2>2, <3>1, DecideAllowed DEF IInv, Types
    <3> QED
      BY <3>2 DEF Outcomes, Decision
  <2> QED
    BY <1>1, <2>1, <2>2 DEF TypeOK, IInv, Types, Decided
<1> QED
  BY <1>1, SpecIInv, PTL

(* Forced to stage 3, nothing but a real stage-3 match is accepted, in any *)
(* order of the lanes (PolicyEngine.decide after EscalationPolicy).        *)
THEOREM RealMatch == Spec => []RealStage3Match
<1>1. ASSUME IInv PROVE RealStage3Match
  <2> SUFFICES ASSUME Accepted, ForceStage3
               PROVE  /\ call.ladder =>
                           accepted_by \in Stage3 /\ Clears(results[accepted_by])
                      /\ accepted_by = "finger" \/ ~call.ladder =>
                           ~call.finger_is_mock /\ results["finger"] # NoScore
    BY DEF RealStage3Match
  <2>1. /\ call.ladder => accepted_by # "none"
        /\ stage3 /\ ~(accepted_by = "finger" /\ call.finger_is_mock)
        /\ ~call.ladder => ~call.finger_is_mock
    BY <1>1, AcceptHasReason
  <2>2. phase = "done"
    BY DEF Accepted
  <2>3. CASE call.ladder
    <3>1. accepted_by \in Stage3 /\ Clears(results[accepted_by])
      BY <1>1, <2>1, <2>2, <2>3 DEF IInv, Laddered
    <3>2. ASSUME accepted_by = "finger" PROVE results["finger"] # NoScore
      <4>1. margin \in 0..3
        BY <1>1, <2>2 DEF IInv, Types, Calls, margin, rigor, Rigor,
                          EffectiveFraudState, FraudState
      <4> QED
        BY <3>1, <3>2, <4>1 DEF Clears, NoScore
    <3> QED
      BY <2>1, <2>3, <3>1, <3>2
  <2>4. CASE ~call.ladder
    BY <1>1, <2>1, <2>2, <2>4 DEF IInv, CapturedAll
  <2> QED
    BY <2>3, <2>4
<1> QED
  BY <1>1, SpecIInv, PTL

(* An ACCEPT rests on enough measured modalities, and a late result does   *)
(* not take one away (_n_confident, _req_min_modalities).                  *)
THEOREM Enough == Spec => []EnoughMeasured
<1>1. ASSUME IInv PROVE EnoughMeasured
  BY <1>1, AcceptHasReason, MeasuredCount DEF EnoughMeasured
<1> QED
  BY <1>1, SpecIInv, PTL

(* The step-up is no second chance after a real stage-3 probe.             *)
THEOREM StepUps == Spec => []StepUpOnlyWithoutStage3
<1>1. ASSUME IInv PROVE StepUpOnlyWithoutStage3
  <2> SUFFICES ASSUME phase = "done", decision = "STEP_UP_REQUIRED",
                      call.tier # "guest", call.ladder
               PROVE  ~Reached(probed)
    BY DEF StepUpOnlyWithoutStage3, Reached
  <2>1. PICK trusted \in BOOLEAN, risk \in {"low", "medium", "high"} :
          decision = Decide(trusted, risk)
    BY <1>1 DEF IInv, Decided
  <2>2. LadderPolicy = "STEP_UP_REQUIRED"
    BY <2>1 DEF Decide
  <2>3. ~stage3
    BY <2>2 DEF LadderPolicy
  <2> QED
    BY <1>1, <2>3 DEF IInv, Laddered
<1> QED
  BY <1>1, SpecIInv, PTL

-----------------------------------------------------------------------------
(* The call the contract sees is asked when a call is, and only then.      *)
LEMMA AskedIsCall ==
  ASSUME IInv
  PROVE  /\ phase = "idle" <=> [tier |-> call.tier, fraud |-> call.fraud] = Contract!NotAsked
         /\ phase = "done" <=> decision # "none"
<1>1. phase = "idle" => call.tier = "none" /\ call.fraud = "none"
  BY DEF IInv, Types, NoCall
<1>2. phase # "idle" => call.tier # "none"
  BY DEF IInv, Types, Calls, Tier
<1>3. ASSUME phase = "done" PROVE decision # "none"
  <2>1. PICK trusted \in BOOLEAN, risk \in {"low", "medium", "high"} :
          decision = Decide(trusted, risk)
    BY <1>3 DEF IInv, Decided
  <2>2. decision \in Outcomes(call.tier, Rigor[call.fraud])
    BY <1>3, <2>1, DecideAllowed DEF IInv, Types
  <2> QED
    BY <2>2 DEF Outcomes, Decision
<1>4. phase # "done" => decision = "none"
  BY DEF IInv, Decided
<1>5. LET q == [tier |-> call.tier, fraud |-> call.fraud]
      IN  q.tier = call.tier /\ q.fraud = call.fraud
  OBVIOUS
<1> QED
  BY <1>1, <1>2, <1>3, <1>4, <1>5 DEF Contract!NotAsked

(* The contract's tables are the ones of the tables' own module.           *)
LEMMA SameTables ==
  /\ Contract!Tier = Tier /\ Contract!Decision = Decision
  /\ Contract!EffectiveFraudState = EffectiveFraudState
  /\ \A tier, fraud :
       Contract!Outcomes(tier, Contract!Rigor[fraud]) = Outcomes(tier, Rigor[fraud])
<1>1. /\ Contract!Tier = Tier /\ Contract!Decision = Decision
      /\ Contract!EffectiveFraudState = EffectiveFraudState
  BY DEF Contract!Tier, Tier, Contract!Decision, Decision, Contract!FraudState,
         FraudState, Contract!EffectiveFraudState, EffectiveFraudState
<1>2. Contract!Rigor = Rigor
  BY DEF Contract!Rigor, Rigor
<1>3. \A tier, r : Contract!Outcomes(tier, r) = Outcomes(tier, r)
  BY <1>1 DEF Contract!Outcomes, Outcomes, Contract!NeedsStage3, NeedsStage3
<1> QED
  BY <1>1, <1>2, <1>3

(* Every step of a call is one of the contract's, or none of its business. *)
LEMMA ContractStep ==
  ASSUME IInv, IInv', [Next]_vars
  PROVE  [Contract!CNext]_Contract!cvars
<1> DEFINE q == [tier |-> call.tier, fraud |-> call.fraud]
<1>1. /\ phase = "idle" <=> q = Contract!NotAsked
      /\ phase = "done" <=> decision # "none"
  BY AskedIsCall
<1>2. ASSUME UNCHANGED <<call, decision>> PROVE UNCHANGED Contract!cvars
  BY <1>2 DEF Contract!cvars
<1>3. ASSUME NEW amount \in AmountClass, NEW known \in BOOLEAN,
             NEW is_guest \in BOOLEAN, NEW mature \in BOOLEAN, NEW base \in FraudState,
             Begin(amount, known, is_guest, base, mature)
      PROVE  Contract!CNext
  <2>1. /\ phase = "idle" /\ decision' = decision
        /\ call'.tier = ClassifyTier(amount, known, is_guest)
        /\ call'.fraud = EffectiveState(base, mature)
    BY <1>3 DEF Begin
  <2>2. call'.tier \in Tier /\ call'.fraud \in EffectiveFraudState
    BY <2>1, Prologue
  <2>3. Contract!Ask(call'.tier, call'.fraud)
    BY <1>1, <2>1 DEF Contract!Ask
  <2> QED
    BY <2>2, <2>3, SameTables DEF Contract!CNext
<1>4. ASSUME Policy PROVE Contract!CNext
  <2>1. PICK trusted \in BOOLEAN, risk \in {"low", "medium", "high"} :
          decision' = Decide(trusted, risk)
    BY <1>4 DEF Policy
  <2>2. phase = "policy" /\ call' = call
    BY <1>4 DEF Policy
  <2>3. decision' \in Outcomes(call.tier, Rigor[call.fraud])
    BY <2>1, <2>2, DecideAllowed DEF IInv, Types
  <2>4. decision' \in Decision
    BY <2>3 DEF Outcomes, Decision
  <2>5. Contract!Answer(decision')
    BY <1>1, <2>2, <2>3, SameTables DEF Contract!Answer
  <2> QED
    BY <2>4, <2>5, SameTables DEF Contract!CNext
<1>5. ASSUME Return PROVE Contract!CNext
  <2>1. phase = "done" /\ phase' = "idle" /\ decision' = "none"
    BY <1>5 DEF Return
  <2>2. q' = Contract!NotAsked
    BY <1>5 DEF Return, NoCall, Contract!NotAsked
  <2> QED
    BY <1>1, <2>1, <2>2 DEF Contract!CNext, Contract!Take
<1>6. CASE \/ \E m \in Modality : Probe(m)
           \/ Exhausted
           \/ CaptureAll
           \/ \E m \in Captured : LateCapture(m)
           \/ UNCHANGED vars
  BY <1>2, <1>6 DEF Probe, Exhausted, CaptureAll, LateCapture, vars
<1> QED
  BY <1>3, <1>4, <1>5, <1>6 DEF Next, Step

(* DecisionEngine.authenticate implements the contract that the payment    *)
(* gate relies on: it is asked once, gives one answer its tier and rigor   *)
(* allow, and gives no other until it is asked again.                      *)
THEOREM Implements == Spec => KeepsContract
<1>1. Init => Contract!CInit
  BY DEF Init, NoCall, Contract!CInit, Contract!NotAsked
<1>2. IInv /\ IInv' /\ [Next]_vars => [Contract!CNext]_Contract!cvars
  BY ContractStep
<1> QED
  BY <1>1, <1>2, SpecIInv, PTL DEF Spec, KeepsContract, Contract!CSpec
=============================================================================
