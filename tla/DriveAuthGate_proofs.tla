------------------------ MODULE DriveAuthGate_proofs ------------------------
(***************************************************************************)
(* Proofs about the payment gate, for any payments, retry limits and       *)
(* bounds on calls and reports.                                            *)
(*                                                                         *)
(* The properties of the step-up hold for every host: only the speech      *)
(* worker touches it, so they need what its statement says of the attempts *)
(* so far.  Those of the cache and of LOCKED hold for a host that          *)
(* serialises its calls: they need that nobody else runs beside a call,    *)
(* and what the call found when it began.                                  *)
(***************************************************************************)
EXTENDS DriveAuthGateProps, TLAPS

Actors == Threads \cup {"phone"}

(* The statements between the entry of authenticate and its return.        *)
Deciding == {"engine", "store", "epochs", "post"}

Calls ==
  [kind : {"none", "intercept", "direct", "require", "recheck", "reuse"},
   pay : Payments \cup {NoPay}, pin : BOOLEAN, asof : Nat,
   asked : Tier \cup {"none"}, result : Results \cup {NoResult}]

(* What a thread's statement says of the call it is in.                    *)
SttCall ==
  /\ pc["stt"] \in Deciding \cup {"idle", "conclude", "forwarded", "bump"}
  /\ pc["stt"] \in Deciding \cup {"conclude"} =>
       /\ loc["stt"].kind \in {"intercept", "recheck"}
       /\ loc["stt"].pay \in Payments /\ loc["stt"].result \in Results
  /\ pc["stt"] = "post" => loc["stt"].kind = "intercept"

LlmCall ==
  /\ pc["llm"] \in Deciding \cup {"idle", "reuse", "returned"}
  /\ pc["llm"] \in Deciding =>
       loc["llm"].kind \in {"direct", "require"} /\ loc["llm"].result \in Results

Types ==
  /\ serial \in BOOLEAN
  /\ pc \in [Actors -> Deciding \cup {"idle", "conclude", "reuse", "returned",
                                      "forwarded", "bump"}]
  /\ loc \in [Threads -> Calls]
  /\ last_result \in Results \cup {NoResult} /\ fresh \in BOOLEAN
  /\ fraud \in FraudState
  /\ fraud_epoch \in Nat /\ cache_fraud_epoch \in Nat
  /\ profile_epoch \in Nat /\ cache_profile_epoch \in Nat
  /\ pending = NoPending \/ pending \in
       [mode : {"otp", "fallback"}, pay : Payments, id : Nat \ {0}]
  /\ pending_retries \in Nat
  /\ otp \in [for : Nat, tries : 0..OtpMaxTries, expired : BOOLEAN]
  /\ calls \in Nat /\ reports \in Nat
  /\ pc["phone"] \in {"idle", "bump"}
  /\ SttCall /\ LlmCall

Alone == serial => \A t, u \in Actors : t = u \/ pc[t] = "idle" \/ pc[u] = "idle"

(* An answer to a step-up that is being checked; it has been counted.      *)
Rechecking ==
  pc["stt"] \in Deciding \cup {"conclude"} /\ loc["stt"].kind = "recheck"
Deliberating ==
  pc["stt"] \in Deciding \cup {"conclude"} /\ loc["stt"].kind = "intercept"

Attempts ==
  /\ pending = NoPending => pending_retries = 0
  /\ Deliberating => pending = NoPending
  /\ Rechecking => pending # NoPending
  /\ pending.mode = "otp" =>
       pending_retries + 1 <= StepUpRetries + (IF Rechecking THEN 1 ELSE 0)
  /\ pending.mode = "fallback" =>
       pending_retries <= StepUpRetries + (IF Rechecking THEN 1 ELSE 0)

(* A payment on its way through the speech worker was let in unlocked.     *)
Unlocked ==
  serial /\ pc["stt"] \in Deciding \cup {"conclude", "forwarded"} =>
    fraud # "locked"

(* A result was decided under this epoch, and no more leniently than the   *)
(* ladder now asks for.                                                    *)
UpToDate(r) ==
  r.epoch = fraud_epoch /\ Strictness[fraud] <= Strictness[r.fraud]

CacheInv ==
  serial =>
    /\ \A t \in Threads : pc[t] \in {"engine", "store"} => UpToDate(loc[t].result)
    /\ last_result # NoResult /\ (\A t \in Actors : pc[t] # "bump") =>
         UpToDate(last_result)
    /\ pc["llm"] = "reuse" =>
         /\ last_result.decision = "ACCEPT"
         /\ TierRank[loc["llm"].asked] <= TierRank[last_result.tier]
         /\ loc["llm"].kind = "reuse" /\ loc["llm"].asof = fraud_epoch

IInv ==
  /\ Types /\ Alone /\ Attempts /\ ChallengeIsForPending /\ Unlocked
  /\ CacheInv /\ ReuseIsSound

-----------------------------------------------------------------------------
(* Operators of the gate.                                                  *)

(* A payment has a tier.                                                   *)
LEMMA TierType ==
  ASSUME NEW pay \in Payments, NEW known \in BOOLEAN, NEW guest \in BOOLEAN
  PROVE  ClassifyTier(pay.amount, known, guest) \in Tier
BY PaymentsAssumption DEF ClassifyTier, Tier, AmountClass

(* What a payment says of its payee.                                       *)
LEMMA PaymentFields ==
  ASSUME NEW pay \in Payments
  PROVE  pay.known \in BOOLEAN
BY PaymentsAssumption

(* The overlay of BOOTSTRAP never relaxes.                                 *)
LEMMA OverlayStrict ==
  ASSUME NEW s \in FraudState, NEW mature \in BOOLEAN
  PROVE  /\ EffectiveState(s, mature) \in EffectiveFraudState
         /\ Strictness[s] <= Strictness[EffectiveState(s, mature)]
BY DEF EffectiveState, EffectiveFraudState, FraudState, Strictness

(* Relaxing neither locks nor makes the ladder stricter.                   *)
LEMMA CleanRelaxes ==
  ASSUME NEW s \in FraudState, NEW u \in AfterClean(s)
  PROVE  /\ u \in FraudState
         /\ Strictness[u] <= Strictness[s]
         /\ s # "locked" => u # "locked"
BY DEF AfterClean, FraudState, Strictness

(* Reports keep to the states of the ladder.                               *)
LEMMA ReportTypes ==
  ASSUME NEW s \in FraudState
  PROVE  AfterSoftFlag(s) \cup AfterConfirmedFraud(s) \cup AfterClean(s)
           \subseteq FraudState
BY DEF AfterSoftFlag, AfterConfirmedFraud, AfterClean, FraudState

(* The policy decides, whatever the rigor.                                 *)
LEMMA OutcomeType ==
  ASSUME NEW tier \in Tier, NEW rigor
  PROVE  Outcomes(tier, rigor) \subseteq Decision
BY DEF Outcomes, Decision, Tier

(* NoCall and NoResult are what they stand for.                            *)
LEMMA NoCallType == NoCall \in Calls /\ NoResult \notin Results
BY DEF NoCall, NoResult, NoPay, Calls, Results, Tier

(* Entering authenticate notes the epoch, and a rigor no milder than the   *)
(* ladder asks for.                                                        *)
LEMMA Enters ==
  ASSUME Types, NEW t \in Threads,
         NEW kind \in {"intercept", "direct", "require", "recheck"},
         NEW pay \in Payments, NEW tier \in Tier, NEW pin \in BOOLEAN,
         Enter(t, kind, pay, tier, pin)
  PROVE  /\ loc' \in [Threads -> Calls]
         /\ pc' = [pc EXCEPT ![t] = "engine"]
         /\ loc'[t].kind = kind /\ loc'[t].pay = pay
         /\ loc'[t].result \in Results
         /\ loc'[t].result.epoch = fraud_epoch
         /\ Strictness[fraud] <= Strictness[loc'[t].result.fraud]
         /\ \A u \in Threads : u # t => loc'[u] = loc[u]
         /\ calls' = calls + 1
<1>1. PICK mature \in BOOLEAN :
        loc' = [loc EXCEPT ![t] =
                 [kind |-> kind, pay |-> pay, pin |-> pin,
                  asof |-> fraud_epoch, asked |-> tier,
                  result |-> [id |-> calls + 1, tier |-> tier,
                              fraud |-> EffectiveState(fraud, mature),
                              epoch |-> fraud_epoch, decision |-> "none"]]]
  BY DEF Enter
<1>2. /\ EffectiveState(fraud, mature) \in EffectiveFraudState
      /\ Strictness[fraud] <= Strictness[EffectiveState(fraud, mature)]
  BY OverlayStrict DEF Types
<1> DEFINE r == [id |-> calls + 1, tier |-> tier,
                 fraud |-> EffectiveState(fraud, mature),
                 epoch |-> fraud_epoch, decision |-> "none"]
           c == [kind |-> kind, pay |-> pay, pin |-> pin,
                 asof |-> fraud_epoch, asked |-> tier, result |-> r]
<1>3. r \in Results
  BY <1>2 DEF Types, Results
<1>4. c \in Calls
  BY <1>3 DEF Types, Calls
<1> HIDE DEF r, c
<1>5. loc' = [loc EXCEPT ![t] = c]
  BY <1>1 DEF r, c
<1>6. loc'[t] = c
  BY <1>5 DEF Types
<1>7. r.epoch = fraud_epoch /\ r.fraud = EffectiveState(fraud, mature)
  BY DEF r
<1>8. c.kind = kind /\ c.pay = pay /\ c.result = r
  BY DEF c
<1> QED
  BY <1>2, <1>3, <1>4, <1>5, <1>6, <1>7, <1>8 DEF Types, Enter

(* Leaving puts a thread at its next statement, or ends its call.          *)
LEMMA Leaves ==
  ASSUME Types, NEW t \in Threads, NEW where, Leave(t, where)
  PROVE  /\ loc' \in [Threads -> Calls]
         /\ pc' = [pc EXCEPT ![t] = where]
         /\ where # "idle" => loc' = loc
         /\ \A u \in Threads : u # t => loc'[u] = loc[u]
BY NoCallType DEF Leave, Types

-----------------------------------------------------------------------------
(* The types, action by action.                                            *)

(* A thread enters authenticate with one of its own calls.                 *)
LEMMA EnterTypes ==
  ASSUME Types, NEW t \in Threads,
         NEW kind \in {"intercept", "direct", "require", "recheck"},
         NEW pay \in Payments, NEW tier \in Tier, NEW pin \in BOOLEAN,
         Enter(t, kind, pay, tier, pin),
         kind \in {"intercept", "recheck"} <=> t = "stt",
         pending_retries' \in Nat,
         UNCHANGED <<serial, cache, fraud, fraud_epoch, profile_epoch, pending,
                     otp, reports>>
  PROVE  Types'
<1>1. /\ loc' \in [Threads -> Calls]
      /\ pc' = [pc EXCEPT ![t] = "engine"]
      /\ loc'[t].kind = kind /\ loc'[t].pay = pay
      /\ loc'[t].result \in Results
      /\ \A u \in Threads : u # t => loc'[u] = loc[u]
      /\ calls' = calls + 1
  BY Enters
<1>2. /\ pc' \in [Actors -> Deciding \cup {"idle", "conclude", "reuse", "returned",
                                            "forwarded", "bump"}]
      /\ pc'["phone"] \in {"idle", "bump"}
  BY <1>1 DEF Types, Actors, Threads, Deciding
<1>3. SttCall'
  BY <1>1 DEF Types, SttCall, Actors, Threads, Deciding
<1>4. LlmCall'
  BY <1>1 DEF Types, LlmCall, Actors, Threads, Deciding
<1> QED
  BY <1>1, <1>2, <1>3, <1>4 DEF Types, cache

(* The entries of the calls.                                               *)
LEMMA EntryTypes ==
  ASSUME Types, NEW pay \in Payments, NEW is_guest \in BOOLEAN,
         \/ Intercept(pay) \/ RequireFresh(pay) \/ Authenticate(pay, is_guest)
         \/ RequireCached(pay)
  PROVE  Types'
<1>1. /\ TierOf(pay) \in Tier
      /\ ClassifyTier(pay.amount, pay.known, is_guest) \in Tier
  BY TierType, PaymentFields DEF TierOf
<1>2. CASE Intercept(pay)
  BY <1>1, <1>2, EnterTypes DEF Intercept, Types, Threads, stepup
<1>3. CASE RequireFresh(pay)
  BY <1>1, <1>3, EnterTypes DEF RequireFresh, Types, Threads, stepup
<1>4. CASE Authenticate(pay, is_guest)
  BY <1>1, <1>4, EnterTypes DEF Authenticate, Types, Threads, stepup
<1>5. CASE RequireCached(pay)
  BY <1>1, <1>5, NoCallType DEF Types, RequireCached, SttCall, LlmCall, Actors,
     Threads, Deciding, Calls, NoCall, cache, stepup, counters
<1> QED
  BY <1>2, <1>3, <1>4, <1>5

(* The statements of a call.                                               *)
LEMMA RunTypes ==
  ASSUME Types, NEW t \in Threads,
         \/ EngineDecides(t) \/ StoreResult(t) \/ StoreEpochs(t)
         \/ PostDecision(t) \/ AuditFails(t) \/ Done(t)
  PROVE  Types'
<1>1. CASE EngineDecides(t)
  <2> DEFINE r == loc[t].result
  <2>1. PICK d \in Outcomes(r.tier, Rigor[r.fraud]) :
          loc' = [loc EXCEPT ![t].result.decision = d]
    BY <1>1 DEF EngineDecides
  <2>2. r \in Results
    BY <1>1 DEF EngineDecides, Types, SttCall, LlmCall, Threads, Deciding
  <2>3. d \in Decision
    BY <2>2, OutcomeType DEF Results
  <2>4. [r EXCEPT !.decision = d] \in Results
    BY <2>2, <2>3 DEF Results
  <2>5. /\ loc' \in [Threads -> Calls]
        /\ loc'[t].result \in Results /\ loc'[t].kind = loc[t].kind
        /\ loc'[t].pay = loc[t].pay
        /\ \A u \in Threads : u # t => loc'[u] = loc[u]
    BY <2>1, <2>4 DEF Types, Calls
  <2> QED
    BY <1>1, <2>5 DEF EngineDecides, Types, SttCall, LlmCall, Actors, Threads,
       Deciding, cache, stepup, counters
<1>2. CASE StoreResult(t)
  BY <1>2 DEF StoreResult, Types, SttCall, LlmCall, Actors, Threads, Deciding,
     Calls, stepup, counters
<1>3. CASE StoreEpochs(t)
  BY <1>3 DEF StoreEpochs, Types, SttCall, LlmCall, Actors, Threads, Deciding,
     stepup, counters
<1>4. CASE PostDecision(t)
  BY <1>4, Leaves, CleanRelaxes DEF PostDecision, Types, SttCall, LlmCall,
     Actors, Threads, Deciding, stepup
<1>5. CASE AuditFails(t)
  BY <1>5, Leaves DEF AuditFails, Types, SttCall, LlmCall, Actors, Threads,
     Deciding, cache, stepup, counters
<1>6. CASE Done(t)
  BY <1>6, Leaves DEF Done, Types, SttCall, LlmCall, Actors, Threads, Deciding,
     cache, stepup, counters
<1> QED
  BY <1>1, <1>2, <1>3, <1>4, <1>5, <1>6

(* The ends of a call, which differ from thread to thread.                 *)
LEMMA EndTypes ==
  ASSUME Types, NEW trusted \in BOOLEAN,
         \/ InterceptAccepts \/ InterceptStepsUp \/ InterceptRejects
         \/ RecheckConcludes(trusted) \/ ReturnCached
         \/ BumpEpoch("stt") \/ BumpEpoch("phone")
  PROVE  Types'
<1>1. CASE InterceptAccepts
  BY <1>1, Leaves DEF InterceptAccepts, Types, SttCall, LlmCall, Actors, Threads,
     Deciding, cache, stepup, counters
<1>2. CASE InterceptStepsUp
  <2>1. PICK sent \in BOOLEAN :
          /\ pending' = [mode |-> IF sent THEN "otp" ELSE "fallback",
                         pay |-> loc["stt"].pay, id |-> loc["stt"].result.id]
          /\ otp' = IF sent THEN Challenge(loc["stt"].result.id) ELSE otp
    BY <1>2 DEF InterceptStepsUp
  <2>2. loc["stt"].pay \in Payments /\ loc["stt"].result.id \in Nat \ {0}
    BY <1>2 DEF InterceptStepsUp, Types, SttCall, Results
  <2>3. /\ pending' \in [mode : {"otp", "fallback"}, pay : Payments, id : Nat \ {0}]
        /\ otp' \in [for : Nat, tries : 0..OtpMaxTries, expired : BOOLEAN]
    BY <2>1, <2>2, TriesAssumption DEF Challenge, Types
  <2>4. fraud' \in FraudState /\ pending_retries' = 0
    BY <1>2, ReportTypes DEF InterceptStepsUp, Types
  <2>5. Leave("stt", "bump")
    BY <1>2 DEF InterceptStepsUp
  <2>6. UNCHANGED <<serial, cache, fraud_epoch, profile_epoch, counters>>
    BY <1>2 DEF InterceptStepsUp
  <2> QED
    BY <2>3, <2>4, <2>5, <2>6, Leaves DEF Types, SttCall, LlmCall, Actors,
       Threads, Deciding, cache, counters
<1>3. CASE InterceptRejects
  BY <1>3, Leaves, ReportTypes DEF InterceptRejects, Types, SttCall, LlmCall,
     Actors, Threads, Deciding, cache, stepup, counters
<1>4. CASE RecheckConcludes(trusted)
  BY <1>4, Leaves, ReportTypes DEF RecheckConcludes, StepUpPasses, StepUpFails,
     Types, SttCall, LlmCall, Actors, Threads, Deciding, cache, counters
<1>5. CASE ReturnCached
  BY <1>5 DEF ReturnCached, Types, SttCall, LlmCall, Actors, Threads, Deciding,
     Calls, cache, stepup, counters
<1>6. CASE BumpEpoch("stt")
  <2>1. /\ loc' \in [Threads -> Calls]
        /\ pc' = [pc EXCEPT !["stt"] = "idle"]
        /\ loc'["llm"] = loc["llm"]
    BY <1>6, Leaves DEF BumpEpoch, Threads
  <2>2. SttCall' /\ LlmCall'
    BY <2>1 DEF Types, SttCall, LlmCall, Actors, Threads, Deciding
  <2>3. UNCHANGED <<serial, fraud, cache_fraud_epoch, profile_epoch,
                    cache_profile_epoch, stepup, counters>>
    BY <1>6 DEF BumpEpoch
  <2>4. fraud_epoch' = fraud_epoch + 1 /\ last_result' = NoResult /\ fresh' = FALSE
    BY <1>6 DEF BumpEpoch
  <2>5. /\ pc' \in [Actors -> Deciding \cup {"idle", "conclude", "reuse", "returned",
                                            "forwarded", "bump"}]
        /\ pc'["phone"] \in {"idle", "bump"}
    BY <2>1 DEF Types, Actors, Threads
  <2>6. fraud_epoch' \in Nat
    BY <2>4 DEF Types
  <2>7. last_result' \in Results \cup {NoResult} /\ fresh' \in BOOLEAN
    BY <2>4, Zenon
  <2> QED
    BY <2>1, <2>2, <2>3, <2>5, <2>6, <2>7 DEF Types, stepup, counters
<1>7. CASE BumpEpoch("phone")
  <2>1. loc' = loc /\ pc' = [pc EXCEPT !["phone"] = "idle"]
    BY <1>7 DEF BumpEpoch, Leave, Threads
  <2>2. SttCall' /\ LlmCall'
    BY <2>1 DEF Types, SttCall, LlmCall, Actors, Threads, Deciding
  <2>3. UNCHANGED <<serial, fraud, cache_fraud_epoch, profile_epoch,
                    cache_profile_epoch, stepup, counters>>
    BY <1>7 DEF BumpEpoch
  <2>4. fraud_epoch' = fraud_epoch + 1 /\ last_result' = NoResult /\ fresh' = FALSE
    BY <1>7 DEF BumpEpoch
  <2>5. /\ pc' \in [Actors -> Deciding \cup {"idle", "conclude", "reuse", "returned",
                                            "forwarded", "bump"}]
        /\ pc'["phone"] \in {"idle", "bump"}
    BY <2>1 DEF Types, Actors, Threads
  <2>6. fraud_epoch' \in Nat
    BY <2>4 DEF Types
  <2>7. last_result' \in Results \cup {NoResult} /\ fresh' \in BOOLEAN
    BY <2>4, Zenon
  <2> QED
    BY <2>1, <2>2, <2>3, <2>5, <2>6, <2>7 DEF Types, stepup, counters
<1> QED
  BY <1>1, <1>2, <1>3, <1>4, <1>5, <1>6, <1>7

(* Answers to a step-up.                                                   *)
LEMMA AnswerTypes ==
  ASSUME Types, NEW right \in BOOLEAN, NEW lapses \in BOOLEAN,
         AnswerOtp(right, lapses) \/ AnswerPin(right)
  PROVE  Types'
<1>1. CASE AnswerOtp(right, lapses)
  <2>1. /\ pending \in [mode : {"otp", "fallback"}, pay : Payments, id : Nat \ {0}]
        /\ otp' = Verified(otp, right, lapses)
        /\ UNCHANGED <<serial, cache, fraud_epoch, profile_epoch, counters>>
    BY <1>1 DEF AnswerOtp, AnswerStarts, Types
  <2>2. otp' \in [for : Nat, tries : 0..OtpMaxTries, expired : BOOLEAN]
    <3>1. CASE otp' = NoOtp
      BY <3>1, TriesAssumption DEF NoOtp
    <3>2. CASE otp' = [otp EXCEPT !.tries = @ - 1] /\ otp.tries # 0
      BY <3>2, TriesAssumption DEF Types
    <3> QED
      BY <2>1, <3>1, <3>2 DEF Verified, Dead
  <2>3. CASE Dead(otp, lapses)
    BY <1>1, <2>1, <2>2, <2>3, Leaves DEF AnswerOtp, Types, SttCall, LlmCall,
       Actors, Threads, Deciding, cache, counters
  <2>4. CASE ~Dead(otp, lapses) /\ right
    <3>1. Leave("stt", "forwarded") /\ fraud' \in AfterClean(fraud)
          /\ pending' = NoPending /\ pending_retries' = 0
      BY <1>1, <2>4 DEF AnswerOtp, StepUpPasses
    <3>2. fraud' \in FraudState
      BY <3>1, CleanRelaxes DEF Types
    <3>3. loc' = loc /\ pc' = [pc EXCEPT !["stt"] = "forwarded"]
      BY <3>1, Leaves DEF Threads
    <3> QED
      BY <2>1, <2>2, <3>1, <3>2, <3>3 DEF Types, SttCall, LlmCall, Actors,
         Threads, Deciding, cache, counters
  <2>5. CASE ~Dead(otp, lapses) /\ ~right
    BY <1>1, <2>1, <2>2, <2>5, Leaves, ReportTypes DEF AnswerOtp, StepUpFails,
       Types, SttCall, LlmCall, Actors, Threads, Deciding, cache, counters
  <2> QED
    BY <2>3, <2>4, <2>5
<1>2. CASE AnswerPin(right)
  <2>1. pending.pay \in Payments
    BY <1>2 DEF AnswerPin, AnswerStarts, Types
  <2>2. ClassifyTier(pending.pay.amount, TRUE, FALSE) \in Tier
    BY <2>1, TierType
  <2> QED
    <3>1. Enter("stt", "recheck", pending.pay,
                ClassifyTier(pending.pay.amount, TRUE, FALSE), right)
      BY <1>2 DEF AnswerPin
    <3>2. /\ UNCHANGED <<serial, cache, fraud, fraud_epoch, profile_epoch,
                         pending, otp, reports>>
          /\ pending_retries' \in Nat
      BY <1>2 DEF AnswerPin, Types
    <3> QED
      BY <2>1, <2>2, <3>1, <3>2, EnterTypes DEF Threads
<1> QED
  BY <1>1, <1>2

(* Steps of the host, the phone, the dashboard and the clock.              *)
LEMMA OutsideTypes ==
  ASSUME Types,
         \/ MarkNotMine \/ NewSession \/ CacheExpires \/ OtpExpires
         \/ \E state \in AfterSoftFlag(fraud) \cup AfterClean(fraud) \cup {"normal"} :
              DashboardFraud(state)
         \/ UNCHANGED vars
  PROVE  Types'
<1>1. CASE MarkNotMine
  BY <1>1, ReportTypes DEF MarkNotMine, Types, SttCall, LlmCall, Actors, Threads,
     Deciding, cache, stepup
<1>2. CASE NewSession \/ CacheExpires
  BY <1>2 DEF NewSession, CacheExpires, Types, SttCall, LlmCall, stepup, counters
<1>3. CASE OtpExpires
  <2>1. otp' \in [for : Nat, tries : 0..OtpMaxTries, expired : BOOLEAN]
    BY <1>3 DEF OtpExpires, Types
  <2> QED
    BY <1>3, <2>1 DEF OtpExpires, Types, SttCall, LlmCall, cache, counters
<1>4. ASSUME NEW state \in AfterSoftFlag(fraud) \cup AfterClean(fraud) \cup {"normal"},
             DashboardFraud(state)
      PROVE  Types'
  BY <1>4, ReportTypes DEF DashboardFraud, Types, SttCall, LlmCall, cache, stepup,
     FraudState
<1>5. CASE UNCHANGED vars
  BY <1>5 DEF vars, Types, SttCall, LlmCall, cache, stepup, counters
<1> QED
  BY <1>1, <1>2, <1>3, <1>4, <1>5

LEMMA TypesStep == Types /\ [Next]_vars => Types'
BY EntryTypes, RunTypes, EndTypes, AnswerTypes, OutsideTypes
   DEF Next, Answer, Run

LEMMA InitIInv == Init => IInv
<1> SUFFICES ASSUME Init PROVE IInv
  OBVIOUS
<1>1. Types
  <2>1. fresh \in BOOLEAN /\ serial \in BOOLEAN
    BY Zenon DEF Init
  <2>2. loc \in [Threads -> Calls]
    BY NoCallType DEF Init
  <2>3. SttCall /\ LlmCall
    BY DEF Init, SttCall, LlmCall, Threads, Deciding
  <2> QED
    BY <2>1, <2>2, <2>3, TriesAssumption DEF Init, Types, Actors, Threads, NoOtp,
       FraudState
<1>2. Alone /\ Attempts /\ Unlocked
  BY RetriesAssumption DEF Init, Alone, Attempts, Unlocked, Actors, Threads,
     Deciding, Deliberating, Rechecking, NoPending
<1>3. ChallengeIsForPending
  BY DEF Init, ChallengeIsForPending, NoPending
<1>4. CacheInv /\ ReuseIsSound
  BY DEF Init, CacheInv, ReuseIsSound, Reused, Threads
<1> QED
  BY <1>1, <1>2, <1>3, <1>4 DEF IInv

-----------------------------------------------------------------------------
(* A step moves one thread at most, and one that is idle only in a host    *)
(* where nobody runs or where calls may overlap.                           *)
Moved(t) ==
  /\ \A u \in Actors : u # t => pc'[u] = pc[u]
  /\ pc[t] # "idle" \/ ~serial \/ \A u \in Actors : pc[u] = "idle"

LEMMA Moves ==
  ASSUME Types, [Next]_vars
  PROVE  /\ pc' = pc \/ \E t \in Actors : Moved(t)
         /\ serial' = serial
<1> USE DEF Threads, Actors, Types
<1>1. ASSUME NEW pay \in Payments, NEW is_guest \in BOOLEAN,
             \/ RequireFresh(pay) \/ RequireCached(pay)
             \/ Authenticate(pay, is_guest)
      PROVE  Moved("llm") /\ serial' = serial
  BY <1>1 DEF RequireFresh, RequireCached, Authenticate, MayCall,
     CanStart, Quiet, Enter, Moved
<1>2. ASSUME NEW right \in BOOLEAN, NEW lapses \in BOOLEAN,
             (\E pay \in Payments : Intercept(pay))
             \/ AnswerOtp(right, lapses) \/ AnswerPin(right)
      PROVE  Moved("stt") /\ serial' = serial
  BY <1>2 DEF Intercept, MayCall, AnswerOtp, AnswerPin, AnswerStarts, CanStart,
     Quiet, Enter, Leave, StepUpPasses, StepUpFails, Moved
<1>3. ASSUME NEW t \in Threads,
             \/ EngineDecides(t) \/ StoreResult(t) \/ StoreEpochs(t)
             \/ PostDecision(t) \/ AuditFails(t) \/ Done(t) \/ BumpEpoch(t)
      PROVE  Moved(t) /\ serial' = serial
  BY <1>3 DEF EngineDecides, StoreResult, StoreEpochs, PostDecision, AuditFails,
     Done, BumpEpoch, Leave, Moved
<1>4. ASSUME NEW trusted \in BOOLEAN,
             \/ InterceptAccepts \/ InterceptStepsUp \/ InterceptRejects
             \/ RecheckConcludes(trusted)
      PROVE  Moved("stt") /\ serial' = serial
  BY <1>4 DEF InterceptAccepts, InterceptStepsUp, InterceptRejects,
     RecheckConcludes, StepUpPasses, StepUpFails, Leave, Moved
<1>5. ReturnCached => Moved("llm") /\ serial' = serial
  BY DEF ReturnCached, Moved
<1>6. MarkNotMine \/ BumpEpoch("phone") => Moved("phone") /\ serial' = serial
  BY DEF MarkNotMine, BumpEpoch, Leave, Quiet, Moved
<1>7. ASSUME \/ NewSession \/ CacheExpires \/ OtpExpires
             \/ \E state \in AfterSoftFlag(fraud) \cup AfterClean(fraud) \cup {"normal"} :
                  DashboardFraud(state)
             \/ UNCHANGED vars
      PROVE  pc' = pc /\ serial' = serial
  BY <1>7 DEF NewSession, CacheExpires, OtpExpires, DashboardFraud, vars
<1> QED
  <2>1. CASE \E pay \in Payments :
               \/ Intercept(pay) \/ RequireCached(pay) \/ RequireFresh(pay)
               \/ \E is_guest \in BOOLEAN : Authenticate(pay, is_guest)
    BY <2>1, <1>1, <1>2 DEF Actors, Threads
  <2>2. CASE Answer
    <3>1. PICK right \in BOOLEAN, lapses \in BOOLEAN :
            AnswerOtp(right, lapses) \/ AnswerPin(right)
      BY <2>2 DEF Answer
    <3>2. Moved("stt") /\ serial' = serial
      BY <3>1, <1>2
    <3> QED
      BY <3>2 DEF Actors
  <2>3. CASE \E t \in Threads : Run(t)
    BY <2>3, <1>3, <1>4, <1>5 DEF Run
  <2> QED
    BY <2>1, <2>2, <2>3, <1>6, <1>7 DEF Next

LEMMA AloneStep == Types /\ Alone /\ [Next]_vars => Alone'
<1> SUFFICES ASSUME Types, Alone, [Next]_vars, serial',
                    NEW a \in Actors, NEW b \in Actors
             PROVE  a = b \/ pc'[a] = "idle" \/ pc'[b] = "idle"
  BY DEF Alone
<1>1. serial /\ (pc' = pc \/ \E t \in Actors : Moved(t))
  BY Moves
<1>2. CASE pc' = pc
  BY <1>1, <1>2 DEF Alone
<1>3. ASSUME NEW t \in Actors, Moved(t)
      PROVE  a = b \/ pc'[a] = "idle" \/ pc'[b] = "idle"
  <2>1. \A u \in Actors : u # t => pc[u] = "idle"
    BY <1>1, <1>3 DEF Alone, Moved
  <2>2. \A u \in Actors : u # t => pc'[u] = "idle"
    BY <1>3, <2>1 DEF Moved
  <2> QED
    BY <2>2
<1> QED
  BY <1>1, <1>2, <1>3

-----------------------------------------------------------------------------
(* The attempts at a step-up and its challenge: what leaves the step-up    *)
(* alone leaves them right as long as no answer is taken up or concluded.  *)
LEMMA StepUpAlone ==
  ASSUME Types, Attempts, ChallengeIsForPending,
         UNCHANGED <<pending, pending_retries>>,
         otp' = otp \/ ~Active(otp'),
         Deliberating' => Deliberating, Rechecking' <=> Rechecking
  PROVE  (Attempts /\ ChallengeIsForPending)'
BY DEF Attempts, ChallengeIsForPending

(* A pending step-up that was just settled, or begun.                      *)
LEMMA StepUpSettled ==
  ASSUME pending' = NoPending, pending_retries' = 0, ~Rechecking'
  PROVE  (Attempts /\ ChallengeIsForPending)'
BY DEF Attempts, ChallengeIsForPending, NoPending

LEMMA AttemptsEntry ==
  ASSUME Types, Attempts, ChallengeIsForPending, NEW right \in BOOLEAN,
         (\E pay \in Payments : Intercept(pay)) \/ AnswerPin(right)
  PROVE  (Attempts /\ ChallengeIsForPending)'
<1>1. ASSUME NEW pay \in Payments, Intercept(pay)
      PROVE  (Attempts /\ ChallengeIsForPending)'
  <2>1. Enter("stt", "intercept", pay, TierOf(pay), FALSE)
    BY <1>1 DEF Intercept
  <2>2. TierOf(pay) \in Tier
    BY TierType, PaymentFields DEF TierOf
  <2>3. loc'["stt"].kind = "intercept"
    BY <2>1, <2>2, Enters DEF Threads
  <2>4. pending' = NoPending /\ pending_retries' = 0
    BY <1>1 DEF Intercept, stepup, Attempts
  <2> QED
    BY <2>3, <2>4, StepUpSettled DEF Rechecking
<1>2. CASE AnswerPin(right)
  <2>1. /\ pending # NoPending /\ ~(pending.mode = "otp" /\ Active(otp))
        /\ pc["stt"] = "idle"
        /\ UNCHANGED <<pending, otp>> /\ pending_retries' = pending_retries + 1
    BY <1>2 DEF AnswerPin, AnswerStarts, CanStart
  <2>2. pending.pay \in Payments
    BY <2>1 DEF Types
  <2>3. ClassifyTier(pending.pay.amount, TRUE, FALSE) \in Tier
    BY <2>2, TierType
  <2>4. loc'["stt"].kind = "recheck" /\ pc' = [pc EXCEPT !["stt"] = "engine"]
    <3>1. Enter("stt", "recheck", pending.pay,
                ClassifyTier(pending.pay.amount, TRUE, FALSE), right)
      BY <1>2 DEF AnswerPin
    <3>2. \A kind \in {"intercept", "direct", "require", "recheck"},
             pay \in Payments, tier \in Tier, pin \in BOOLEAN :
            Enter("stt", kind, pay, tier, pin) =>
              loc'["stt"].kind = kind /\ pc' = [pc EXCEPT !["stt"] = "engine"]
      BY Enters DEF Threads
    <3> QED
      BY <2>2, <2>3, <3>1, <3>2
  <2>5. Rechecking' /\ ~Deliberating' /\ ~Rechecking
    BY <2>1, <2>4 DEF Types, Rechecking, Deliberating, Deciding, Actors, Threads
  <2> QED
    <3>1. Attempts'
      <4>1. /\ pending.mode = "otp" => pending_retries + 1 <= StepUpRetries
            /\ pending.mode = "fallback" => pending_retries <= StepUpRetries
        BY <2>5, RetriesAssumption DEF Attempts
      <4> QED
        BY <2>1, <2>5, <4>1, RetriesAssumption DEF Attempts, Types
    <3>2. ChallengeIsForPending'
      BY <2>1 DEF ChallengeIsForPending, Active
    <3> QED
      BY <3>1, <3>2
<1> QED
  BY <1>1, <1>2

LEMMA AttemptsAnswer ==
  ASSUME Types, Attempts, ChallengeIsForPending,
         NEW right \in BOOLEAN, NEW lapses \in BOOLEAN, AnswerOtp(right, lapses)
  PROVE  (Attempts /\ ChallengeIsForPending)'
<1>1. /\ pending.mode = "otp" /\ Active(otp) /\ pending # NoPending
      /\ pc["stt"] = "idle"
      /\ otp' = Verified(otp, right, lapses)
  BY DEF AnswerOtp, AnswerStarts, CanStart
<1>2. pending_retries + 1 <= StepUpRetries
  BY <1>1, RetriesAssumption DEF Attempts, Rechecking, Deciding, Types
<1>3. Leave("stt", "idle") \/ Leave("stt", "forwarded") \/ Leave("stt", "bump")
  BY DEF AnswerOtp, StepUpPasses, StepUpFails
<1>4. ~Rechecking' /\ ~Deliberating'
  BY <1>3 DEF Leave, Types, Rechecking, Deliberating, Deciding, Actors, Threads
<1>5. CASE Dead(otp, lapses)
  <2>1. /\ pending' = [pending EXCEPT !.mode = "fallback"]
        /\ pending_retries' = pending_retries + 1
    BY <1>5 DEF AnswerOtp
  <2>2. pending'.mode = "fallback" /\ pending' # NoPending
    BY <2>1, <1>1 DEF Types, NoPending
  <2> QED
    BY <2>1, <2>2, <1>2, <1>4, RetriesAssumption
       DEF Attempts, ChallengeIsForPending, Types
<1>6. CASE ~Dead(otp, lapses) /\ (right \/ pending_retries + 1 >= StepUpRetries)
  BY <1>4, <1>6, StepUpSettled DEF AnswerOtp, StepUpPasses, StepUpFails
<1>7. CASE ~Dead(otp, lapses) /\ ~right /\ ~(pending_retries + 1 >= StepUpRetries)
  <2>1. pending' = pending /\ pending_retries' = pending_retries + 1
    BY <1>7 DEF AnswerOtp, StepUpFails
  <2>2. otp' = [otp EXCEPT !.tries = @ - 1]
    BY <1>1, <1>7 DEF Verified
  <2>3. otp'.for = otp.for /\ otp'.tries = otp.tries - 1
    BY <2>2 DEF Types
  <2>4. Attempts'
    BY <2>1, <1>1, <1>4, <1>7, RetriesAssumption DEF Attempts, Types
  <2>5. ChallengeIsForPending'
    BY <2>1, <2>3, <1>1, TriesAssumption DEF ChallengeIsForPending, Types
  <2> QED
    BY <2>4, <2>5
<1> QED
  BY <1>5, <1>6, <1>7

LEMMA AttemptsEnd ==
  ASSUME Types, Attempts, ChallengeIsForPending, NEW trusted \in BOOLEAN,
         InterceptStepsUp \/ RecheckConcludes(trusted)
  PROVE  (Attempts /\ ChallengeIsForPending)'
<1>1. CASE InterceptStepsUp
  <2>1. PICK sent \in BOOLEAN :
          /\ pending' = [mode |-> IF sent THEN "otp" ELSE "fallback",
                         pay |-> loc["stt"].pay, id |-> loc["stt"].result.id]
          /\ otp' = IF sent THEN Challenge(loc["stt"].result.id) ELSE otp
    BY <1>1 DEF InterceptStepsUp
  <2>2. pending_retries' = 0 /\ Leave("stt", "bump")
    BY <1>1 DEF InterceptStepsUp
  <2>3. ~Rechecking' /\ ~Deliberating'
    BY <2>2 DEF Leave, Types, Rechecking, Deliberating, Deciding, Actors, Threads
  <2>4. pending' # NoPending
    BY <2>1 DEF NoPending
  <2>5. Attempts'
    BY <2>2, <2>3, <2>4, RetriesAssumption DEF Attempts
  <2>6. ChallengeIsForPending'
    BY <2>1, <2>2, TriesAssumption DEF ChallengeIsForPending, Challenge
  <2> QED
    BY <2>5, <2>6
<1>2. CASE RecheckConcludes(trusted)
  <2>1. /\ pc["stt"] = "conclude" /\ Rechecking /\ otp' = otp
        /\ StepUpPasses \/ StepUpFails(pending_retries)
    BY <1>2 DEF RecheckConcludes, Rechecking
  <2>2. Leave("stt", "idle") \/ Leave("stt", "forwarded") \/ Leave("stt", "bump")
    BY <2>1 DEF StepUpPasses, StepUpFails
  <2>3. ~Rechecking' /\ ~Deliberating'
    BY <2>2 DEF Leave, Types, Rechecking, Deliberating, Deciding, Actors, Threads
  <2>4. CASE pending' = NoPending /\ pending_retries' = 0
    BY <2>3, <2>4, StepUpSettled
  <2>5. CASE UNCHANGED <<pending, pending_retries>> /\ pending_retries < StepUpRetries
    BY <2>1, <2>3, <2>5, RetriesAssumption DEF Attempts, ChallengeIsForPending, Types
  <2> QED
    BY <2>1, <2>4, <2>5, RetriesAssumption DEF StepUpPasses, StepUpFails, Types
<1> QED
  BY <1>1, <1>2

LEMMA AttemptsStep ==
  ASSUME Types, Attempts, ChallengeIsForPending, [Next]_vars
  PROVE  (Attempts /\ ChallengeIsForPending)'
<1> USE DEF Threads, Actors
<1>1. ASSUME \/ \E pay \in Payments :
                  \/ RequireFresh(pay) \/ RequireCached(pay)
                  \/ \E is_guest \in BOOLEAN : Authenticate(pay, is_guest)
             \/ ReturnCached \/ MarkNotMine \/ BumpEpoch("phone")
      PROVE  (Attempts /\ ChallengeIsForPending)'
  <2>1. UNCHANGED <<pending, pending_retries, otp>>
    BY <1>1 DEF RequireFresh, RequireCached, Authenticate, ReturnCached,
       MarkNotMine, BumpEpoch, stepup
  <2>2. UNCHANGED <<pc["stt"], loc["stt"]>>
    BY <1>1 DEF RequireFresh, RequireCached, Authenticate, ReturnCached,
       MarkNotMine, BumpEpoch, Enter, Leave, Types
  <2> QED
    BY <2>1, <2>2, StepUpAlone DEF Rechecking, Deliberating
<1>2. ASSUME NEW t \in Threads,
             \/ EngineDecides(t) \/ StoreResult(t) \/ StoreEpochs(t)
             \/ PostDecision(t) \/ AuditFails(t) \/ Done(t)
             \/ t = "stt" /\ (InterceptAccepts \/ InterceptRejects \/ BumpEpoch(t))
      PROVE  (Attempts /\ ChallengeIsForPending)'
  <2>1. UNCHANGED <<pending, pending_retries, otp>>
    BY <1>2 DEF EngineDecides, StoreResult, StoreEpochs, PostDecision, AuditFails,
       Done, InterceptAccepts, InterceptRejects, BumpEpoch, stepup
  <2>2. (Deliberating' => Deliberating) /\ (Rechecking' <=> Rechecking)
    <3>1. CASE EngineDecides(t)
      BY <3>1 DEF EngineDecides, Types, Calls, Rechecking, Deliberating, Deciding
    <3>2. CASE StoreResult(t) \/ StoreEpochs(t)
      BY <3>2 DEF StoreResult, StoreEpochs, Types, Rechecking, Deliberating, Deciding
    <3>3. CASE PostDecision(t) \/ AuditFails(t) \/ Done(t)
      BY <3>3 DEF PostDecision, AuditFails, Done, Leave, Types, SttCall,
         Rechecking, Deliberating, Deciding
    <3>4. CASE t = "stt" /\ (InterceptAccepts \/ InterceptRejects \/ BumpEpoch(t))
      BY <3>4 DEF InterceptAccepts, InterceptRejects, BumpEpoch, Leave, Types,
         Rechecking, Deliberating, Deciding
    <3> QED
      BY <1>2, <3>1, <3>2, <3>3, <3>4
  <2> QED
    BY <2>1, <2>2, StepUpAlone
<1>3. ASSUME \/ NewSession \/ CacheExpires \/ OtpExpires
             \/ \E state \in AfterSoftFlag(fraud) \cup AfterClean(fraud) \cup {"normal"} :
                  DashboardFraud(state)
             \/ UNCHANGED vars
      PROVE  (Attempts /\ ChallengeIsForPending)'
  <2>1. /\ UNCHANGED <<pending, pending_retries, pc, loc>>
        /\ otp' = otp \/ otp' = [otp EXCEPT !.expired = TRUE]
    BY <1>3 DEF NewSession, CacheExpires, OtpExpires, DashboardFraud, vars, stepup
  <2>2. otp' = otp \/ ~Active(otp')
    BY <2>1 DEF Types, Active
  <2> QED
    BY <2>1, <2>2, StepUpAlone DEF Rechecking, Deliberating
<1> QED
  <2>1. CASE \E pay \in Payments :
               \/ Intercept(pay) \/ RequireCached(pay) \/ RequireFresh(pay)
               \/ \E is_guest \in BOOLEAN : Authenticate(pay, is_guest)
    BY <2>1, <1>1, AttemptsEntry
  <2>2. CASE Answer
    BY <2>2, AttemptsEntry, AttemptsAnswer DEF Answer
  <2>3. CASE \E t \in Threads : Run(t)
    BY <2>3, <1>1, <1>2, AttemptsEnd DEF Run, Threads
  <2>4. CASE MarkNotMine \/ BumpEpoch("phone")
    BY <2>4, <1>1
  <2> QED
    BY <2>1, <2>2, <2>3, <2>4, <1>3 DEF Next

-----------------------------------------------------------------------------
(* A payment let in unlocked stays unlocked: reports wait for the call.    *)
LEMMA UnlockedStep ==
  ASSUME Types, Alone, Unlocked, [Next]_vars
  PROVE  Unlocked'
<1> SUFFICES ASSUME serial', pc'["stt"] \in Deciding \cup {"conclude", "forwarded"}
             PROVE  fraud' # "locked"
  BY DEF Unlocked
<1>0. serial
  BY Moves
<1> DEFINE UnderWay == pc["stt"] \in Deciding \cup {"conclude", "forwarded"}
<1> USE DEF Threads, Actors
<1>1. ASSUME NEW pay \in Payments, Intercept(pay)
      PROVE  fraud' # "locked"
  BY <1>1 DEF Intercept
<1>2. ASSUME NEW right \in BOOLEAN, AnswerPin(right)
      PROVE  fraud' # "locked"
  BY <1>2 DEF AnswerPin, AnswerStarts
<1>3. ASSUME NEW right \in BOOLEAN, NEW lapses \in BOOLEAN, AnswerOtp(right, lapses)
      PROVE  fraud' # "locked"
  <2>1. fraud # "locked" /\ fraud \in FraudState
    BY <1>3 DEF AnswerOtp, AnswerStarts, Types
  <2>2. fraud' = fraud \/ fraud' \in AfterClean(fraud) \/ Leave("stt", "bump")
    BY <1>3 DEF AnswerOtp, StepUpPasses, StepUpFails
  <2>3. ~Leave("stt", "bump")
    BY DEF Leave, Types, Deciding
  <2> QED
    BY <2>1, <2>2, <2>3, CleanRelaxes
<1>4. ASSUME UNCHANGED fraud, pc'["stt"] = pc["stt"] \/ UnderWay
      PROVE  fraud' # "locked"
  BY <1>0, <1>4 DEF Unlocked
<1>5. ASSUME \/ \E pay \in Payments :
                  \/ RequireFresh(pay) \/ RequireCached(pay)
                  \/ \E is_guest \in BOOLEAN : Authenticate(pay, is_guest)
             \/ ReturnCached \/ BumpEpoch("phone")
             \/ NewSession \/ CacheExpires \/ OtpExpires \/ UNCHANGED vars
      PROVE  fraud' # "locked"
  <2>1. UNCHANGED fraud
    BY <1>5 DEF RequireFresh, RequireCached, Authenticate, ReturnCached, BumpEpoch,
       NewSession, CacheExpires, OtpExpires, vars
  <2>2. pc'["stt"] = pc["stt"]
    BY <1>5 DEF RequireFresh, RequireCached, Authenticate, ReturnCached, BumpEpoch,
       NewSession, CacheExpires, OtpExpires, vars, Enter, Leave, Types
  <2> QED
    BY <2>1, <2>2, <1>4
<1>6. ASSUME NEW t \in Threads,
             \/ EngineDecides(t) \/ StoreResult(t) \/ StoreEpochs(t)
             \/ AuditFails(t) \/ Done(t)
             \/ t = "stt" /\ InterceptAccepts
      PROVE  fraud' # "locked"
  <2>1. UNCHANGED fraud
    BY <1>6 DEF EngineDecides, StoreResult, StoreEpochs, AuditFails, Done,
       InterceptAccepts
  <2>2. pc'["stt"] = pc["stt"] \/ UnderWay
    BY <1>6 DEF EngineDecides, StoreResult, StoreEpochs, AuditFails, Done,
       InterceptAccepts, Leave, Types, SttCall, LlmCall, Deciding
  <2> QED
    BY <2>1, <2>2, <1>4
<1>7. ASSUME NEW t \in Threads, PostDecision(t)
      PROVE  fraud' # "locked"
  <2>1. pc'["stt"] = pc["stt"] \/ UnderWay
    BY <1>7 DEF PostDecision, Leave, Types, Deciding
  <2>2. fraud # "locked"
    BY <2>1, <1>0 DEF Unlocked
  <2>3. fraud' = fraud \/ fraud' \in AfterClean(fraud)
    BY <1>7 DEF PostDecision
  <2> QED
    BY <2>2, <2>3, CleanRelaxes DEF Types
<1>8. ASSUME InterceptStepsUp \/ InterceptRejects \/ BumpEpoch("stt")
      PROVE  fraud' # "locked"
  BY <1>8 DEF InterceptStepsUp, InterceptRejects, BumpEpoch, Leave, Types, Deciding
<1>9. ASSUME NEW trusted \in BOOLEAN, RecheckConcludes(trusted)
      PROVE  fraud' # "locked"
  <2>1. fraud # "locked" /\ fraud \in FraudState
    BY <1>0, <1>9 DEF RecheckConcludes, Unlocked, Types
  <2>2. fraud' = fraud \/ fraud' \in AfterClean(fraud) \/ Leave("stt", "bump")
    BY <1>9 DEF RecheckConcludes, StepUpPasses, StepUpFails
  <2>3. ~Leave("stt", "bump")
    BY DEF Leave, Types, Deciding
  <2> QED
    BY <2>1, <2>2, <2>3, CleanRelaxes
<1>10. ASSUME MarkNotMine
       PROVE  fraud' # "locked"
  BY <1>0, <1>10 DEF MarkNotMine, Quiet, Types, Deciding
<1>11. \A state \in AfterSoftFlag(fraud) \cup AfterClean(fraud) \cup {"normal"} :
         ~DashboardFraud(state)
  BY <1>0 DEF DashboardFraud
<1> QED
  <2>1. CASE \E pay \in Payments :
               \/ Intercept(pay) \/ RequireCached(pay) \/ RequireFresh(pay)
               \/ \E is_guest \in BOOLEAN : Authenticate(pay, is_guest)
    BY <2>1, <1>1, <1>5
  <2>2. CASE Answer
    BY <2>2, <1>2, <1>3 DEF Answer
  <2>3. CASE \E t \in Threads : Run(t)
    BY <2>3, <1>5, <1>6, <1>7, <1>8, <1>9 DEF Run
  <2>4. CASE MarkNotMine \/ BumpEpoch("phone")
    BY <2>4, <1>5, <1>10
  <2> QED
    BY <2>1, <2>2, <2>3, <2>4, <1>5, <1>11 DEF Next

-----------------------------------------------------------------------------
(* The cache and the decision reused from it, in a serialising host.       *)

(* Relaxing keeps a result as strict as it was found to be.                *)
LEMMA RelaxesUpToDate ==
  ASSUME fraud \in FraudState, fraud_epoch' = fraud_epoch,
         fraud' = fraud \/ fraud' \in AfterClean(fraud),
         NEW r \in Results, UpToDate(r)
  PROVE  (r.epoch = fraud_epoch /\ Strictness[fraud] <= Strictness[r.fraud])'
<1>1. fraud' \in FraudState /\ Strictness[fraud'] <= Strictness[fraud]
  BY CleanRelaxes DEF Strictness, FraudState
<1>2. r.fraud \in EffectiveFraudState
  BY DEF Results
<1>3. \A s \in EffectiveFraudState : Strictness[s] \in Nat
  BY DEF Strictness, EffectiveFraudState, FraudState
<1> QED
  BY <1>1, <1>2, <1>3 DEF UpToDate, EffectiveFraudState

(* A step that reports nothing: decisions under way are up to date, and    *)
(* what is reused or about to be was so before.                            *)
ReportsNothing ==
  /\ serial /\ serial' /\ fraud_epoch' = fraud_epoch
  /\ fraud' = fraud \/ fraud' \in AfterClean(fraud)
  /\ \/ last_result' = last_result \/ last_result' = NoResult
     \/ last_result' \in Results /\ UpToDate(last_result')
  /\ (\A t \in Actors : pc'[t] # "bump") => (\A t \in Actors : pc[t] # "bump")
  /\ \A t \in Threads : pc'[t] \in {"engine", "store"} => UpToDate(loc'[t].result)
  /\ pc'["llm"] = "reuse" =>
       /\ last_result'.decision = "ACCEPT"
       /\ TierRank[loc'["llm"].asked] <= TierRank[last_result'.tier]
       /\ loc'["llm"].kind = "reuse" /\ loc'["llm"].asof = fraud_epoch
  /\ Reused' => Reused /\ loc'["llm"] = loc["llm"]

LEMMA CacheKept ==
  ASSUME Types, Types', CacheInv, ReuseIsSound, ReportsNothing
  PROVE  (CacheInv /\ ReuseIsSound)'
<1> USE DEF ReportsNothing
<1>1. \A t \in Threads : pc'[t] \in {"engine", "store"} => loc'[t].result \in Results
  BY DEF Types, SttCall, LlmCall, Threads, Deciding
<1>2. \A r \in Results : UpToDate(r) => UpToDate(r)'
  BY RelaxesUpToDate DEF Types, UpToDate
<1>3. last_result' # NoResult /\ (\A t \in Actors : pc'[t] # "bump") =>
        last_result' \in Results /\ UpToDate(last_result')
  BY DEF CacheInv, Types
<1>4. CacheInv'
  BY <1>1, <1>2, <1>3 DEF CacheInv, UpToDate
<1>5. ReuseIsSound'
  <2> SUFFICES ASSUME Reused'
               PROVE  ReuseIsSound'
    BY DEF ReuseIsSound
  <2> DEFINE r == loc["llm"].result
  <2>1. /\ r.decision = "ACCEPT"
        /\ TierRank[loc["llm"].asked] <= TierRank[r.tier]
        /\ r.epoch = loc["llm"].asof
        /\ Strictness[fraud] <= Strictness[r.fraud]
    BY DEF ReuseIsSound
  <2>2. r \in Results
    BY <2>1 DEF Types, Calls, NoResult, Threads
  <2>3. Strictness[fraud'] <= Strictness[r.fraud]
    <3>1. fraud' \in FraudState /\ Strictness[fraud'] <= Strictness[fraud]
      BY CleanRelaxes DEF Strictness, FraudState, Types
    <3>2. r.fraud \in EffectiveFraudState
      BY <2>2 DEF Results
    <3>3. \A s \in EffectiveFraudState : Strictness[s] \in Nat
      BY DEF Strictness, EffectiveFraudState, FraudState
    <3> QED
      BY <2>1, <3>1, <3>2, <3>3 DEF Types, EffectiveFraudState
  <2> QED
    BY <2>1, <2>3 DEF ReuseIsSound
<1> QED
  BY <1>4, <1>5

(* A step of a thread that runs alone, after which nothing is reused: the  *)
(* cache is empty, or its epoch is about to move.                          *)
LEMMA CacheDropped ==
  ASSUME Types', serial',
         last_result' = NoResult \/ \E t \in Actors : pc'[t] = "bump",
         \A t \in Threads : pc'[t] \notin {"engine", "store", "reuse", "returned"}
  PROVE  (CacheInv /\ ReuseIsSound)'
BY DEF CacheInv, ReuseIsSound, Reused, Threads

(* Calls that enter authenticate find everybody idle.                      *)
LEMMA CacheEnter ==
  ASSUME Types, Types', CacheInv, ReuseIsSound, serial, Quiet,
         NEW t \in Threads,
         NEW kind \in {"intercept", "direct", "require", "recheck"},
         NEW pay \in Payments, NEW tier \in Tier, NEW pin \in BOOLEAN,
         Enter(t, kind, pay, tier, pin),
         UNCHANGED <<serial, cache, fraud, fraud_epoch>>
  PROVE  (CacheInv /\ ReuseIsSound)'
<1>1. /\ pc' = [pc EXCEPT ![t] = "engine"]
      /\ UpToDate(loc'[t].result)
  BY Enters DEF UpToDate
<1>2. \A u \in Actors : pc'[u] = IF u = t THEN "engine" ELSE "idle"
  BY <1>1 DEF Types, Quiet, Actors
<1>3. \A u \in Actors : pc[u] # "bump"
  BY DEF Quiet, Actors
<1>4. ~Reused' /\ pc'["llm"] # "reuse"
  BY <1>2 DEF Reused, Actors, Threads
<1>5. \A u \in Threads : pc'[u] \in {"engine", "store"} => UpToDate(loc'[u].result)
  BY <1>1, <1>2 DEF Actors
<1> QED
  BY <1>3, <1>4, <1>5, CacheKept DEF ReportsNothing, cache

LEMMA CacheEntry ==
  ASSUME Types, Types', CacheInv, ReuseIsSound, serial,
         \/ \E pay \in Payments :
              \/ Intercept(pay) \/ RequireCached(pay) \/ RequireFresh(pay)
              \/ \E is_guest \in BOOLEAN : Authenticate(pay, is_guest)
         \/ \E right \in BOOLEAN : AnswerPin(right)
  PROVE  (CacheInv /\ ReuseIsSound)'
<1>1. \A pay \in Payments, is_guest \in BOOLEAN :
        TierOf(pay) \in Tier /\ ClassifyTier(pay.amount, pay.known, is_guest) \in Tier
  BY TierType, PaymentFields DEF TierOf
<1>2. \A t \in Threads, pay \in Payments, tier \in Tier, pin \in BOOLEAN,
         kind \in {"intercept", "direct", "require", "recheck"} :
        /\ Enter(t, kind, pay, tier, pin) /\ Quiet
        /\ UNCHANGED <<serial, cache, fraud, fraud_epoch>>
        => (CacheInv /\ ReuseIsSound)'
  BY CacheEnter
<1>3. ASSUME NEW pay \in Payments, NEW is_guest \in BOOLEAN,
             Intercept(pay) \/ RequireFresh(pay) \/ Authenticate(pay, is_guest)
      PROVE  (CacheInv /\ ReuseIsSound)'
  <2>1. UNCHANGED <<serial, cache, fraud, fraud_epoch>> /\ Quiet
    BY <1>3 DEF Intercept, RequireFresh, Authenticate, MayCall, CanStart
  <2> QED
    BY <2>1, <1>1, <1>2, <1>3 DEF Intercept, RequireFresh, Authenticate, Threads
<1>4. ASSUME NEW right \in BOOLEAN, AnswerPin(right)
      PROVE  (CacheInv /\ ReuseIsSound)'
  <2>1. /\ UNCHANGED <<serial, cache, fraud, fraud_epoch>> /\ Quiet
        /\ pending # NoPending
        /\ Enter("stt", "recheck", pending.pay,
                 ClassifyTier(pending.pay.amount, TRUE, FALSE), right)
    BY <1>4 DEF AnswerPin, AnswerStarts, CanStart
  <2>2. pending.pay \in Payments
    BY <2>1 DEF Types
  <2>3. ClassifyTier(pending.pay.amount, TRUE, FALSE) \in Tier
    BY <2>2, TierType
  <2> QED
    BY <2>1, <2>2, <2>3, <1>2 DEF Threads
<1>5. ASSUME NEW pay \in Payments, RequireCached(pay)
      PROVE  (CacheInv /\ ReuseIsSound)'
  <2>1. /\ UNCHANGED <<serial, cache, fraud, fraud_epoch>> /\ Quiet
        /\ last_result.decision = "ACCEPT"
        /\ TierRank[TierOf(pay)] <= TierRank[last_result.tier]
    BY <1>5 DEF RequireCached, CanStart, CanReuse
  <2>2. /\ pc' = [pc EXCEPT !["llm"] = "reuse"]
        /\ loc'["llm"].kind = "reuse" /\ loc'["llm"].asof = fraud_epoch
        /\ loc'["llm"].asked = TierOf(pay)
    BY <1>5 DEF RequireCached, Types, Threads, NoCall
  <2>3. /\ \A u \in Actors : pc[u] = "idle"
        /\ \A u \in Actors : pc'[u] = IF u = "llm" THEN "reuse" ELSE "idle"
    BY <2>1, <2>2 DEF Types, Quiet, Actors
  <2>4. ~Reused' /\ \A u \in Threads : pc'[u] \notin {"engine", "store"}
    BY <2>3 DEF Reused, Actors, Threads
  <2> QED
    BY <2>1, <2>2, <2>3, <2>4, CacheKept DEF ReportsNothing, cache
<1> QED
  BY <1>3, <1>4, <1>5

(* The statements of a call.                                               *)
LEMMA CacheRun ==
  ASSUME Types, Types', Alone, CacheInv, ReuseIsSound, serial,
         NEW t \in Threads,
         \/ EngineDecides(t) \/ StoreResult(t) \/ StoreEpochs(t)
         \/ PostDecision(t) \/ AuditFails(t) \/ Done(t)
         \/ t = "stt" /\ InterceptAccepts
         \/ t = "llm" /\ ReturnCached
  PROVE  (CacheInv /\ ReuseIsSound)'
<1> USE DEF Threads, Actors
<1>1. serial'
  BY DEF EngineDecides, StoreResult, StoreEpochs, PostDecision, AuditFails, Done,
     InterceptAccepts, ReturnCached
<1>2. pc[t] # "idle" /\ \A u \in Actors : u # t => pc[u] = "idle"
  <2>1. pc[t] # "idle"
    BY DEF EngineDecides, StoreResult, StoreEpochs, PostDecision, AuditFails, Done,
       InterceptAccepts, ReturnCached
  <2> QED
    BY <2>1 DEF Alone
<1>3. /\ \A u \in Actors : u # t => pc'[u] = "idle"
      /\ \A u \in Actors : pc[u] # "bump"
  <2>1. \A u \in Actors : u # t => pc'[u] = pc[u]
    <3>1. \E where : pc' = [pc EXCEPT ![t] = where]
      BY DEF EngineDecides, StoreResult, StoreEpochs, PostDecision, AuditFails,
         Done, InterceptAccepts, ReturnCached, Leave
    <3> QED
      BY <3>1 DEF Types
  <2>2. pc[t] # "bump"
    BY DEF EngineDecides, StoreResult, StoreEpochs, PostDecision, AuditFails, Done,
       InterceptAccepts, ReturnCached
  <2> QED
    BY <1>2, <2>1, <2>2
<1>4. CASE EngineDecides(t)
  <2>1. /\ pc' = [pc EXCEPT ![t] = "store"] /\ pc[t] = "engine"
        /\ UNCHANGED <<last_result, fraud, fraud_epoch>>
    BY <1>4 DEF EngineDecides, cache
  <2>2. PICK d \in Outcomes(loc[t].result.tier, Rigor[loc[t].result.fraud]) :
          loc' = [loc EXCEPT ![t].result.decision = d]
    BY <1>4 DEF EngineDecides
  <2>3. loc[t].result \in Results
    BY <2>1 DEF Types, SttCall, LlmCall, Deciding
  <2>4. loc'[t].result = [loc[t].result EXCEPT !.decision = d]
    BY <2>2 DEF Types, Calls
  <2>5. UpToDate(loc'[t].result)
    BY <2>1, <2>3, <2>4 DEF CacheInv, UpToDate, Results
  <2>6. ~Reused' /\ pc'["llm"] # "reuse"
    BY <1>3, <2>1 DEF Reused, Types
  <2>7. \A u \in Threads : pc'[u] \in {"engine", "store"} => UpToDate(loc'[u].result)
    BY <1>3, <2>5
  <2> QED
    BY <1>1, <1>3, <2>1, <2>6, <2>7, CacheKept DEF ReportsNothing
<1>5. CASE StoreResult(t)
  <2>1. /\ pc' = [pc EXCEPT ![t] = "epochs"] /\ pc[t] = "store"
        /\ last_result' = loc[t].result /\ UNCHANGED <<loc, fraud, fraud_epoch>>
    BY <1>5 DEF StoreResult
  <2>2. last_result' \in Results /\ UpToDate(last_result')
    BY <2>1 DEF Types, SttCall, LlmCall, Deciding, CacheInv
  <2>3. \A u \in Threads : pc'[u] \notin {"engine", "store", "reuse", "returned"}
    BY <1>3, <2>1 DEF Types
  <2> QED
    BY <1>1, <1>3, <2>1, <2>2, <2>3, CacheKept DEF ReportsNothing, Reused
<1>6. CASE StoreEpochs(t)
  <2>1. /\ UNCHANGED <<loc, last_result, fraud, fraud_epoch>>
        /\ pc'[t] \in {"post", "conclude"}
    BY <1>6 DEF StoreEpochs, Types
  <2>2. \A u \in Threads : pc'[u] \notin {"engine", "store", "reuse", "returned"}
    BY <1>3, <2>1
  <2> QED
    BY <1>1, <1>3, <2>1, <2>2, CacheKept DEF ReportsNothing, Reused
<1>7. CASE \/ PostDecision(t) \/ AuditFails(t) \/ Done(t)
           \/ t = "stt" /\ InterceptAccepts
  <2>1. /\ UNCHANGED <<last_result, fraud_epoch>>
        /\ fraud' = fraud \/ fraud' \in AfterClean(fraud)
    BY <1>7 DEF PostDecision, AuditFails, Done, InterceptAccepts, cache
  <2>2. pc'[t] \in {"conclude", "returned", "idle", "forwarded"}
    BY <1>7 DEF PostDecision, AuditFails, Done, InterceptAccepts, Leave, Types
  <2>3. \A u \in Threads : pc'[u] \notin {"engine", "store", "reuse"}
    BY <1>3, <2>2
  <2>4. ~Reused'
    <3> SUFFICES ASSUME pc'["llm"] = "returned"
                 PROVE  loc'["llm"].kind # "reuse"
      BY DEF Reused
    <3>1. t = "llm" /\ PostDecision(t)
      BY <1>3, <1>7 DEF PostDecision, AuditFails, Done, InterceptAccepts, Leave, Types
    <3>2. loc'["llm"] = loc["llm"] /\ pc["llm"] = "post"
      BY <3>1 DEF PostDecision, Leave, Types, LlmCall, Deciding
    <3> QED
      BY <3>2 DEF Types, LlmCall, Deciding
  <2> QED
    BY <1>1, <1>3, <2>1, <2>3, <2>4, CacheKept DEF ReportsNothing
<1>8. CASE t = "llm" /\ ReturnCached
  <2>1. /\ pc["llm"] = "reuse" /\ pc' = [pc EXCEPT !["llm"] = "returned"]
        /\ loc' = [loc EXCEPT !["llm"].result = last_result]
        /\ UNCHANGED <<last_result, fraud, fraud_epoch>>
    BY <1>8 DEF ReturnCached, cache
  <2>2. /\ loc'["llm"].result = last_result
        /\ loc'["llm"].asked = loc["llm"].asked
        /\ loc'["llm"].asof = loc["llm"].asof
    BY <2>1 DEF Types, Calls
  <2>3. /\ last_result.decision = "ACCEPT"
        /\ TierRank[loc["llm"].asked] <= TierRank[last_result.tier]
        /\ loc["llm"].asof = fraud_epoch
    BY <2>1 DEF CacheInv
  <2>4. UpToDate(last_result)
    BY <1>3, <2>3 DEF CacheInv, NoResult
  <2>5. ReuseIsSound'
    BY <2>1, <2>2, <2>3, <2>4 DEF ReuseIsSound, UpToDate
  <2>6. \A u \in Threads : pc'[u] \notin {"engine", "store", "reuse"}
    BY <1>3, <1>8, <2>1 DEF Types
  <2>7. CacheInv'
    BY <2>1, <2>4, <2>6 DEF CacheInv, UpToDate
  <2> QED
    BY <2>5, <2>7
<1> QED
  BY <1>4, <1>5, <1>6, <1>7, <1>8

(* Ends of a call of the speech worker that report to the ladder, and the  *)
(* epoch that follows.                                                     *)
LEMMA CacheReports ==
  ASSUME Types, Types', Alone, serial, serial', NEW t \in Actors,
         \/ t = "stt" /\ (CanStart(t) \/ pc[t] = "conclude") /\ Leave(t, "bump")
         \/ BumpEpoch(t)
         \/ t = "phone" /\ MarkNotMine
  PROVE  (CacheInv /\ ReuseIsSound)'
<1> USE DEF Actors, Threads
<1>1. \A u \in Actors : u # t => pc[u] = "idle"
  <2>1. (\A u \in Actors : pc[u] = "idle") \/ pc[t] # "idle"
    BY DEF CanStart, Quiet, BumpEpoch, MarkNotMine
  <2> QED
    BY <2>1 DEF Alone
<1>2. /\ pc'[t] \in {"bump", "idle"}
      /\ \A u \in Actors : u # t => pc'[u] = pc[u]
  BY DEF Leave, BumpEpoch, MarkNotMine, Types
<1>3. last_result' = NoResult \/ pc'[t] = "bump"
  BY DEF Leave, BumpEpoch, MarkNotMine, Types
<1> QED
  BY <1>1, <1>2, <1>3, CacheDropped

(* Ends of a call of the speech worker that report nothing strict.         *)
LEMMA CacheStt ==
  ASSUME Types, Types', Alone, CacheInv, ReuseIsSound, serial, serial',
         NEW where \in {"idle", "forwarded"},
         CanStart("stt") \/ pc["stt"] = "conclude",
         Leave("stt", where),
         UNCHANGED <<cache, fraud_epoch>>,
         fraud' = fraud \/ fraud' \in AfterClean(fraud)
  PROVE  (CacheInv /\ ReuseIsSound)'
<1> USE DEF Actors, Threads
<1>1. \A u \in Actors : u # "stt" => pc[u] = "idle"
  <2>1. (\A u \in Actors : pc[u] = "idle") \/ pc["stt"] # "idle"
    BY DEF CanStart, Quiet
  <2> QED
    BY <2>1 DEF Alone
<1>2. /\ pc'["stt"] \in {"forwarded", "idle"}
      /\ \A u \in Actors : u # "stt" => pc'[u] = pc[u]
  BY DEF Leave, Types
<1>3. \A u \in Threads : pc'[u] \notin {"engine", "store", "reuse", "returned"}
  BY <1>1, <1>2
<1>4. ~Reused'
  BY <1>3 DEF Reused
<1>5. \A u \in Actors : pc[u] # "bump"
  BY <1>1 DEF CanStart
<1> QED
  BY <1>3, <1>4, <1>5, CacheKept DEF ReportsNothing, cache

LEMMA CacheEnd ==
  ASSUME Types, Types', Alone, CacheInv, ReuseIsSound, serial,
         \/ InterceptStepsUp \/ InterceptRejects
         \/ \E trusted \in BOOLEAN : RecheckConcludes(trusted)
         \/ \E right, lapses \in BOOLEAN : AnswerOtp(right, lapses)
  PROVE  (CacheInv /\ ReuseIsSound)'
<1>1. CanStart("stt") \/ pc["stt"] = "conclude"
  BY DEF InterceptStepsUp, InterceptRejects, RecheckConcludes, AnswerOtp,
     AnswerStarts
<1>2. UNCHANGED <<cache, fraud_epoch>> /\ serial' = serial
  BY DEF InterceptStepsUp, InterceptRejects, RecheckConcludes, AnswerOtp
<1>3. \/ Leave("stt", "bump")
      \/ /\ Leave("stt", "idle") \/ Leave("stt", "forwarded")
         /\ fraud' = fraud \/ fraud' \in AfterClean(fraud)
  <2>1. CASE InterceptStepsUp \/ InterceptRejects
    BY <2>1 DEF InterceptStepsUp, InterceptRejects
  <2>2. CASE \E trusted \in BOOLEAN : RecheckConcludes(trusted)
    BY <2>2 DEF RecheckConcludes, StepUpPasses, StepUpFails
  <2>3. CASE \E right, lapses \in BOOLEAN : AnswerOtp(right, lapses)
    BY <2>3 DEF AnswerOtp, StepUpPasses, StepUpFails
  <2> QED
    BY <2>1, <2>2, <2>3
<1>4. CASE Leave("stt", "bump")
  BY <1>1, <1>2, <1>4, CacheReports DEF Actors, Threads
<1>5. ASSUME NEW where \in {"idle", "forwarded"}, Leave("stt", where),
             fraud' = fraud \/ fraud' \in AfterClean(fraud)
      PROVE  (CacheInv /\ ReuseIsSound)'
  BY <1>1, <1>2, <1>5, CacheStt
<1> QED
  BY <1>3, <1>4, <1>5

LEMMA CacheStep ==
  ASSUME Types, Types', Alone, CacheInv, ReuseIsSound, [Next]_vars
  PROVE  (CacheInv /\ ReuseIsSound)'
<1>1. CASE ~serial
  <2>1. ~serial'
    BY <1>1, Moves
  <2> QED
    BY <2>1 DEF CacheInv, ReuseIsSound
<1>2. CASE serial
  <2>1. serial'
    BY <1>2, Moves
  <2>2. CASE \E pay \in Payments :
               \/ Intercept(pay) \/ RequireCached(pay) \/ RequireFresh(pay)
               \/ \E is_guest \in BOOLEAN : Authenticate(pay, is_guest)
    BY <1>2, <2>2, CacheEntry
  <2>3. CASE Answer
    BY <1>2, <2>3, CacheEntry, CacheEnd DEF Answer
  <2>4. CASE \E t \in Threads : Run(t)
    <3>1. PICK t \in Threads : Run(t)
      BY <2>4
    <3>2. CASE BumpEpoch(t)
      BY <1>2, <2>1, <3>2, CacheReports DEF Actors
    <3>3. CASE \/ EngineDecides(t) \/ StoreResult(t) \/ StoreEpochs(t)
               \/ PostDecision(t) \/ AuditFails(t) \/ Done(t)
               \/ t = "stt" /\ InterceptAccepts
               \/ t = "llm" /\ ReturnCached
      BY <1>2, <3>3, CacheRun
    <3>4. CASE \/ InterceptStepsUp \/ InterceptRejects
               \/ \E trusted \in BOOLEAN : RecheckConcludes(trusted)
      BY <1>2, <3>4, CacheEnd
    <3> QED
      BY <3>1, <3>2, <3>3, <3>4 DEF Run
  <2>5. CASE MarkNotMine \/ BumpEpoch("phone")
    BY <1>2, <2>1, <2>5, CacheReports DEF Actors
  <2>6. CASE NewSession
    <3>1. /\ Quiet /\ last_result' = NoResult
          /\ UNCHANGED <<pc, loc, fraud, fraud_epoch>>
      BY <1>2, <2>6 DEF NewSession
    <3>2. \A u \in Actors : pc'[u] = "idle" /\ pc[u] = "idle"
      BY <3>1 DEF Quiet, Actors
    <3> QED
      BY <2>1, <3>1, <3>2, CacheDropped DEF Actors
  <2>7. CASE CacheExpires \/ OtpExpires \/ UNCHANGED vars
    <3>1. UNCHANGED <<serial, pc, loc, last_result, fraud, fraud_epoch>>
      BY <2>7 DEF CacheExpires, OtpExpires, vars, cache
    <3> QED
      BY <3>1 DEF CacheInv, ReuseIsSound, Reused, UpToDate
  <2>8. \A state \in AfterSoftFlag(fraud) \cup AfterClean(fraud) \cup {"normal"} :
          ~DashboardFraud(state)
    BY <1>2 DEF DashboardFraud
  <2> QED
    BY <2>2, <2>3, <2>4, <2>5, <2>6, <2>7, <2>8 DEF Next
<1> QED
  BY <1>1, <1>2

-----------------------------------------------------------------------------
LEMMA IInvStep == IInv /\ [Next]_vars => IInv'
<1> SUFFICES ASSUME IInv, [Next]_vars PROVE IInv'
  OBVIOUS
<1>1. Types'
  BY TypesStep DEF IInv
<1>2. Alone' /\ Unlocked'
  BY AloneStep, UnlockedStep DEF IInv
<1>3. (Attempts /\ ChallengeIsForPending)'
  BY AttemptsStep DEF IInv
<1>4. (CacheInv /\ ReuseIsSound)'
  BY <1>1, CacheStep DEF IInv
<1> QED
  BY <1>1, <1>2, <1>3, <1>4 DEF IInv

LEMMA SpecIInv == Spec => []IInv
BY InitIInv, IInvStep, PTL DEF Spec

(* The attributes keep their types, and a host that serialises its calls   *)
(* has one of them running at most.                                        *)
THEOREM GateTypes == Spec => []TypeOK
<1>1. IInv => TypeOK
  <2> SUFFICES ASSUME IInv PROVE TypeOK
    OBVIOUS
  <2>1. Types /\ Alone
    BY DEF IInv
  <2>2. \A t \in Threads : /\ ResultOK(loc[t].result)
                           /\ loc[t].pay \in Payments \cup {NoPay}
                           /\ loc[t].asof \in Nat
    BY <2>1 DEF Types, Calls, ResultOK
  <2>3. pc \in [Threads \cup {"phone"} ->
                  {"idle", "engine", "store", "epochs", "post", "conclude",
                   "reuse", "returned", "forwarded", "bump"}]
    BY <2>1 DEF Types, Actors, Deciding
  <2>4. serial \in BOOLEAN /\ fresh \in BOOLEAN
    BY <2>1 DEF Types
  <2> QED
    BY <2>1, <2>2, <2>3, <2>4 DEF TypeOK, Types, Alone, Actors, ResultOK
<1> QED
  BY SpecIInv, <1>1, PTL

(* _can_reuse_cached: in a host that serialises its calls, whatever the    *)
(* reports, expiries and sessions before it, a reused decision is an       *)
(* ACCEPT for a tier no lower, of the present epoch and strict enough.     *)
THEOREM ReuseSound == Spec => []ReuseIsSound
<1>1. IInv => ReuseIsSound
  BY DEF IInv
<1> QED
  BY SpecIInv, <1>1, PTL

(* _handle_reauth: the retries of a step-up are bounded in every host, on  *)
(* every mix of codes, lapsed challenges and PINs.                         *)
THEOREM AttemptsCount == Spec => []AttemptsBounded
<1>1. IInv => AttemptsBounded
  <2> SUFFICES ASSUME IInv PROVE AttemptsBounded
    OBVIOUS
  <2>1. Types /\ Attempts
    BY DEF IInv
  <2>2. Rechecking => pc["stt"] # "idle"
    BY DEF Rechecking, Deciding
  <2>3. pending_retries <= StepUpRetries + (IF Rechecking THEN 1 ELSE 0)
    BY <2>1, RetriesAssumption DEF Attempts, Types
  <2> QED
    BY <2>1, <2>2, <2>3, RetriesAssumption DEF AttemptsBounded, Types
<1> QED
  BY SpecIInv, <1>1, PTL

(* OTPStepUp: a code is never checked against the challenge of another     *)
(* payment, nor tried without being counted.                               *)
THEOREM RightChallenge == Spec => []ChallengeIsForPending
<1>1. IInv => ChallengeIsForPending
  BY DEF IInv
<1> QED
  BY SpecIInv, <1>1, PTL

(* A serialising host never has the speech worker forward under LOCKED.    *)
THEOREM NoneUnderLock == Spec => []LockStopsPayments
<1>1. IInv => LockStopsPayments
  BY DEF IInv, Unlocked, LockStopsPayments
<1> QED
  BY SpecIInv, <1>1, PTL
=============================================================================
