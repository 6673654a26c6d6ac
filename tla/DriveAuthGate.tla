---------------------------- MODULE DriveAuthGate ----------------------------
(***************************************************************************)
(* driveauth/api.py: the DriveAuth object between the voice assistant and  *)
(* its payment tools.  The speech worker ("stt") calls intercept, the tool *)
(* boundary ("llm") calls require_auth or authenticate, the phone app      *)
(* calls mark_not_mine.  The cached decision, its epochs, the pending      *)
(* step-up and the OTP challenge are plain attributes without a lock, so   *)
(* in a host with several threads the statements of two calls interleave.  *)
(*                                                                         *)
(* The decision engine is what AuthContract says of it and the fraud       *)
(* ladder what StateMovesAsPromised says of it.  A call that neither reads *)
(* nor writes an attribute modelled here is left out: an utterance denied  *)
(* under LOCKED, and a command that is no payment with nothing pending.    *)
(***************************************************************************)
EXTENDS DriveAuthTypes

CONSTANTS
  Payments,       \* payments asked for: [amount, known]
  StepUpRetries,  \* STEP_UP_RETRIES
  OtpMaxTries,    \* OTP_MAX_TRIES
  MaxCalls,       \* bound: engine calls other than biometric rechecks, for
                  \* a host that serialises its calls and one that does not
  MaxReports      \* bound: fraud reports from phone and dashboard

ASSUME PaymentsAssumption ==
  Payments \subseteq [amount : AmountClass, known : BOOLEAN]
ASSUME RetriesAssumption == StepUpRetries \in Nat \ {0}
ASSUME TriesAssumption == OtpMaxTries \in Nat \ {0}
ASSUME BoundAssumption == MaxCalls \in [BOOLEAN -> Nat] /\ MaxReports \in Nat

VARIABLES
  serial,       \* whether the host lets one call finish before the next
  pc,           \* thread -> the statement it is at
  loc,          \* thread -> the local variables of its call
  last_result,  \* _last_result
  fresh,        \* _last_result_at is within DECISION_CACHE_TTL_S
  fraud,        \* the state of the fraud ladder
  fraud_epoch, cache_fraud_epoch,
  profile_epoch, cache_profile_epoch,
  pending,      \* _pending, with the engine call that asked for it
  pending_retries,
  otp,          \* OTPStepUp._active
  calls,        \* engine calls so far; the id of the latest
  reports       \* fraud reports so far

cache == <<last_result, fresh, cache_fraud_epoch, cache_profile_epoch>>
stepup == <<pending, pending_retries, otp>>
counters == <<calls, reports>>
vars == <<serial, pc, loc, cache, fraud, fraud_epoch, profile_epoch,
          stepup, counters>>

-----------------------------------------------------------------------------
Threads == {"stt", "llm"}

(* A result remembers the fraud state and the epoch it was decided under.  *)
NoResult == [id |-> 0, tier |-> "none", fraud |-> "none", epoch |-> 0,
             decision |-> "none"]
Results == [id : Nat \ {0}, tier : Tier, fraud : EffectiveFraudState,
            epoch : Nat, decision : Decision \cup {"none"}]

NoPay == [amount |-> "none", known |-> FALSE]

(* kind: which call; pin: whether the PIN read out was right; asof: the    *)
(* epoch when the call was made; asked: the tier it was made for.          *)
NoCall == [kind |-> "none", pay |-> NoPay, pin |-> FALSE,
           asof |-> 0, asked |-> "none", result |-> NoResult]

NoPending == [mode |-> "none", pay |-> NoPay, id |-> 0]
NoOtp == [for |-> 0, tries |-> 0, expired |-> FALSE]

TierOf(pay) == ClassifyTier(pay.amount, pay.known, FALSE)

(* OTPStepUp.has_active_challenge                                          *)
Active(o) == o.for # 0 /\ ~o.expired

(* OTPStepUp.send, of a code that could be delivered.                      *)
Challenge(id) == [for |-> id, tries |-> OtpMaxTries, expired |-> FALSE]

(* OTPStepUp.verify: out of tries, a challenge is refused like one that    *)
(* lapsed, and either is forgotten, as is one that was answered.           *)
Dead(o, lapses) == lapses \/ o.tries = 0

Verified(o, right, lapses) ==
  IF Dead(o, lapses) \/ right THEN NoOtp ELSE [o EXCEPT !.tries = @ - 1]

Quiet == \A u \in Threads \cup {"phone"} : pc[u] = "idle"
CanStart(t) == pc[t] = "idle" /\ (serial => Quiet)
MayCall(t) == CanStart(t) /\ calls < MaxCalls[serial]

(* The start of authenticate: the engine reads the rigor of this moment.   *)
Enter(t, kind, pay, tier, pin) ==
  /\ calls' = calls + 1
  /\ \E mature \in BOOLEAN :
       loc' = [loc EXCEPT ![t] =
                 [kind |-> kind, pay |-> pay, pin |-> pin,
                  asof |-> fraud_epoch, asked |-> tier,
                  result |-> [id |-> calls + 1, tier |-> tier,
                              fraud |-> EffectiveState(fraud, mature),
                              epoch |-> fraud_epoch, decision |-> "none"]]]
  /\ pc' = [pc EXCEPT ![t] = "engine"]

Leave(t, where) ==
  /\ pc' = [pc EXCEPT ![t] = where]
  /\ loc' = IF where = "idle" /\ t \in Threads
              THEN [loc EXCEPT ![t] = NoCall] ELSE loc

-----------------------------------------------------------------------------
Init ==
  /\ serial \in BOOLEAN
  /\ pc = [t \in Threads \cup {"phone"} |-> "idle"]
  /\ loc = [t \in Threads |-> NoCall]
  /\ last_result = NoResult /\ fresh = FALSE
  /\ fraud = "normal"
  /\ fraud_epoch = 0 /\ cache_fraud_epoch = 0
  /\ profile_epoch = 0 /\ cache_profile_epoch = 0
  /\ pending = NoPending /\ pending_retries = 0
  /\ otp = NoOtp
  /\ calls = 0 /\ reports = 0

(* intercept with nothing pending: a payment goes to authenticate.         *)
Intercept(pay) ==
  /\ MayCall("stt")
  /\ fraud # "locked"
  /\ pending = NoPending
  /\ Enter("stt", "intercept", pay, TierOf(pay), FALSE)
  /\ UNCHANGED <<serial, cache, fraud, fraud_epoch, profile_epoch, stepup,
                 reports>>

(* authenticate called by the host itself, for a guest as well.            *)
Authenticate(pay, is_guest) ==
  /\ MayCall("llm")
  /\ Enter("llm", "direct", pay,
           ClassifyTier(pay.amount, pay.known, is_guest), FALSE)
  /\ UNCHANGED <<serial, cache, fraud, fraud_epoch, profile_epoch, stepup,
                 reports>>

(* Faulty variant: the tier asked for is not compared with the cached one. *)
CanReuseAnyTier(tier) ==
  /\ last_result.decision = "ACCEPT"
  /\ fresh
  /\ fraud_epoch = cache_fraud_epoch
  /\ profile_epoch = cache_profile_epoch
  /\ tier \in Tier

(* _can_reuse_cached                                                       *)
CanReuse(tier) ==
  /\ last_result.decision = "ACCEPT"
  /\ fresh
  /\ fraud_epoch = cache_fraud_epoch
  /\ profile_epoch = cache_profile_epoch
  /\ TierRank[tier] <= TierRank[last_result.tier]

(* require_auth: reuse the cached decision, which is read again after the  *)
(* check ...                                                               *)
RequireCached(pay) ==
  /\ CanStart("llm")
  /\ CanReuse(TierOf(pay))
  /\ loc' = [loc EXCEPT !["llm"] =
               [NoCall EXCEPT !.kind = "reuse", !.pay = pay,
                              !.asof = fraud_epoch, !.asked = TierOf(pay)]]
  /\ pc' = [pc EXCEPT !["llm"] = "reuse"]
  /\ UNCHANGED <<serial, cache, fraud, fraud_epoch, profile_epoch, stepup,
                 counters>>

ReturnCached ==
  /\ pc["llm"] = "reuse"
  /\ loc' = [loc EXCEPT !["llm"].result = last_result]
  /\ pc' = [pc EXCEPT !["llm"] = "returned"]
  /\ UNCHANGED <<serial, cache, fraud, fraud_epoch, profile_epoch, stepup,
                 counters>>

(* ... or authenticate without voice.                                      *)
RequireFresh(pay) ==
  /\ MayCall("llm")
  /\ ~CanReuse(TierOf(pay))
  /\ Enter("llm", "require", pay, TierOf(pay), FALSE)
  /\ UNCHANGED <<serial, cache, fraud, fraud_epoch, profile_epoch, stepup,
                 reports>>

(* authenticate: the engine answers ...                                    *)
EngineDecides(t) ==
  /\ pc[t] = "engine"
  /\ LET r == loc[t].result
     IN  \E d \in Outcomes(r.tier, Rigor[r.fraud]) :
           loc' = [loc EXCEPT ![t].result.decision = d]
  /\ pc' = [pc EXCEPT ![t] = "store"]
  /\ UNCHANGED <<serial, cache, fraud, fraud_epoch, profile_epoch, stepup,
                 counters>>

(* ... its answer is cached ...                                            *)
StoreResult(t) ==
  /\ pc[t] = "store"
  /\ last_result' = loc[t].result /\ fresh' = TRUE
  /\ pc' = [pc EXCEPT ![t] = "epochs"]
  /\ UNCHANGED <<serial, loc, fraud, fraud_epoch, cache_fraud_epoch,
                 profile_epoch, cache_profile_epoch, stepup, counters>>

(* ... with the epochs of this moment, not of the rigor it was decided by. *)
StoreEpochs(t) ==
  /\ pc[t] = "epochs"
  /\ cache_fraud_epoch' = fraud_epoch
  /\ cache_profile_epoch' = profile_epoch
  /\ pc' = [pc EXCEPT ![t] = IF loc[t].kind = "recheck"
                               THEN "conclude" ELSE "post"]
  /\ UNCHANGED <<serial, loc, last_result, fresh, fraud, fraud_epoch,
                 profile_epoch, stepup, counters>>

(* _post_decision: the audit entry is written, and an ACCEPT counts as     *)
(* clean and as a transaction of the profile.                              *)
PostDecision(t) ==
  /\ pc[t] = "post"
  /\ IF loc[t].result.decision = "ACCEPT"
       THEN /\ fraud' \in AfterClean(fraud)
            /\ profile_epoch' = profile_epoch + 1
            /\ cache_profile_epoch' = profile_epoch'
       ELSE UNCHANGED <<fraud, profile_epoch, cache_profile_epoch>>
  /\ Leave(t, IF loc[t].kind = "intercept" THEN "conclude" ELSE "returned")
  /\ UNCHANGED <<serial, last_result, fresh, fraud_epoch, cache_fraud_epoch,
                 stepup, calls, reports>>

(* An audit file that cannot be written ends the call with an exception,   *)
(* after its result was cached.                                            *)
AuditFails(t) ==
  /\ pc[t] = "post"
  /\ Leave(t, "idle")
  /\ UNCHANGED <<serial, cache, fraud, fraud_epoch, profile_epoch, stepup,
                 counters>>

(* intercept goes on: ACCEPT forwards the payment ...                      *)
InterceptAccepts ==
  /\ pc["stt"] = "conclude" /\ loc["stt"].kind = "intercept"
  /\ loc["stt"].result.decision = "ACCEPT"
  /\ Leave("stt", "forwarded")
  /\ UNCHANGED <<serial, cache, fraud, fraud_epoch, profile_epoch, stepup,
                 counters>>

(* Faulty variant: an OTP that could not be sent is asked for all the same.*)
InterceptStepsUpUnsent ==
  /\ pc["stt"] = "conclude" /\ loc["stt"].kind = "intercept"
  /\ loc["stt"].result.decision = "STEP_UP_REQUIRED"
  /\ \E sent \in BOOLEAN :
       /\ pending' = [mode |-> "otp",
                      pay |-> loc["stt"].pay, id |-> loc["stt"].result.id]
       /\ otp' = IF sent THEN Challenge(loc["stt"].result.id) ELSE otp
  /\ pending_retries' = 0
  /\ fraud' \in AfterSoftFlag(fraud)
  /\ Leave("stt", "bump")
  /\ UNCHANGED <<serial, cache, fraud_epoch, profile_epoch, counters>>

(* Faulty variant: no mode is set when the OTP could not be sent.          *)
InterceptStepsUpModeless ==
  /\ pc["stt"] = "conclude" /\ loc["stt"].kind = "intercept"
  /\ loc["stt"].result.decision = "STEP_UP_REQUIRED"
  /\ \E sent \in BOOLEAN :
       /\ pending' = [mode |-> IF sent THEN "otp" ELSE "none",
                      pay |-> loc["stt"].pay, id |-> loc["stt"].result.id]
       /\ otp' = IF sent THEN Challenge(loc["stt"].result.id) ELSE otp
  /\ pending_retries' = 0
  /\ fraud' \in AfterSoftFlag(fraud)
  /\ Leave("stt", "bump")
  /\ UNCHANGED <<serial, cache, fraud_epoch, profile_epoch, counters>>

(* ... STEP_UP_REQUIRED leaves it pending, with an OTP if one can be sent  *)
(* and with PIN and camera if not (_begin_step_up) ...                     *)
InterceptStepsUp ==
  /\ pc["stt"] = "conclude" /\ loc["stt"].kind = "intercept"
  /\ loc["stt"].result.decision = "STEP_UP_REQUIRED"
  /\ \E sent \in BOOLEAN :
       /\ pending' = [mode |-> IF sent THEN "otp" ELSE "fallback",
                      pay |-> loc["stt"].pay, id |-> loc["stt"].result.id]
       /\ otp' = IF sent THEN Challenge(loc["stt"].result.id) ELSE otp
  /\ pending_retries' = 0
  /\ fraud' \in AfterSoftFlag(fraud)
  /\ Leave("stt", "bump")
  /\ UNCHANGED <<serial, cache, fraud_epoch, profile_epoch, counters>>

(* ... and REJECT counts against the driver.                               *)
InterceptRejects ==
  /\ pc["stt"] = "conclude" /\ loc["stt"].kind = "intercept"
  /\ loc["stt"].result.decision = "REJECT"
  /\ fraud' \in AfterSoftFlag(fraud)
  /\ Leave("stt", "bump")
  /\ UNCHANGED <<serial, cache, fraud_epoch, profile_epoch, stepup, counters>>

(* _bump_fraud_epoch, which follows each report to the ladder.             *)
BumpEpoch(t) ==
  /\ pc[t] = "bump"
  /\ fraud_epoch' = fraud_epoch + 1
  /\ last_result' = NoResult /\ fresh' = FALSE
  /\ Leave(t, "idle")
  /\ UNCHANGED <<serial, fraud, cache_fraud_epoch, profile_epoch,
                 cache_profile_epoch, stepup, counters>>

(* Faulty variant: a pending step-up is looked at before LOCKED.           *)
AnswerStartsUnlocked ==
  /\ CanStart("stt")
  /\ pending # NoPending

(* intercept with a step-up pending: whatever is said is an answer to it.  *)
AnswerStarts ==
  /\ CanStart("stt")
  /\ fraud # "locked"
  /\ pending # NoPending

(* The tail of _handle_reauth, for an attempt that is the n-th.            *)
StepUpPasses ==
  /\ fraud' \in AfterClean(fraud)
  /\ pending' = NoPending /\ pending_retries' = 0
  /\ Leave("stt", "forwarded")

(* Faulty variant: one attempt more than STEP_UP_RETRIES.                  *)
StepUpFailsLate(n) ==
  IF n > StepUpRetries
    THEN /\ pending' = NoPending /\ pending_retries' = 0
         /\ fraud' \in AfterSoftFlag(fraud)
         /\ Leave("stt", "bump")
    ELSE /\ pending_retries' = n
         /\ Leave("stt", "idle")
         /\ UNCHANGED <<pending, fraud>>

StepUpFails(n) ==
  IF n >= StepUpRetries
    THEN /\ pending' = NoPending /\ pending_retries' = 0
         /\ fraud' \in AfterSoftFlag(fraud)
         /\ Leave("stt", "bump")
    ELSE /\ pending_retries' = n
         /\ Leave("stt", "idle")
         /\ UNCHANGED <<pending, fraud>>

(* A right or a wrong code.  The challenge may lapse between the test in   *)
(* _handle_reauth and the one in verify; a dead one leaves the PIN for the *)
(* next answer.                                                            *)
AnswerOtp(right, lapses) ==
  /\ AnswerStarts
  /\ pending.mode = "otp" /\ Active(otp)
  /\ otp' = Verified(otp, right, lapses)
  /\ LET n == pending_retries + 1
     IN  IF Dead(otp, lapses)
           THEN /\ pending' = [pending EXCEPT !.mode = "fallback"]
                /\ pending_retries' = n
                /\ Leave("stt", "idle")
                /\ UNCHANGED fraud
           ELSE IF right THEN StepUpPasses ELSE StepUpFails(n)
  /\ UNCHANGED <<serial, cache, fraud_epoch, profile_epoch, counters>>

(* Faulty variant: a PIN is taken only in fallback mode, so an OTP that    *)
(* lapsed before the answer is never replaced.                             *)
AnswerPinFallbackOnly(right) ==
  /\ AnswerStarts
  /\ pending.mode = "fallback"
  /\ pending_retries' = pending_retries + 1
  /\ Enter("stt", "recheck", pending.pay,
           ClassifyTier(pending.pay.amount, TRUE, FALSE), right)
  /\ UNCHANGED <<serial, cache, fraud, fraud_epoch, profile_epoch, pending,
                 otp, reports>>

(* FallbackFlow.run: a PIN, and a biometric recheck that authenticates     *)
(* again, unaudited and for a payee taken as known.                        *)
AnswerPin(right) ==
  /\ AnswerStarts
  /\ ~(pending.mode = "otp" /\ Active(otp))
  /\ pending_retries' = pending_retries + 1
  /\ Enter("stt", "recheck", pending.pay,
           ClassifyTier(pending.pay.amount, TRUE, FALSE), right)
  /\ UNCHANGED <<serial, cache, fraud, fraud_epoch, profile_epoch, pending,
                 otp, reports>>

(* The recheck passes on its trust score; its decision is not looked at.   *)
RecheckConcludes(trusted) ==
  /\ pc["stt"] = "conclude" /\ loc["stt"].kind = "recheck"
  /\ IF loc["stt"].pin /\ trusted
       THEN StepUpPasses ELSE StepUpFails(pending_retries)
  /\ UNCHANGED <<serial, cache, fraud_epoch, profile_epoch, otp, counters>>

(* The caller has the answer.                                              *)
Done(t) ==
  /\ pc[t] \in {"forwarded", "returned"}
  /\ Leave(t, "idle")
  /\ UNCHANGED <<serial, cache, fraud, fraud_epoch, profile_epoch, stepup,
                 counters>>

(* mark_not_mine: the report first, the epoch and the cache after it.      *)
MarkNotMine ==
  /\ pc["phone"] = "idle" /\ reports < MaxReports
  /\ serial => Quiet
  /\ fraud' \in AfterConfirmedFraud(fraud)
  /\ reports' = reports + 1
  /\ pc' = [pc EXCEPT !["phone"] = "bump"]
  /\ UNCHANGED <<serial, loc, cache, fraud_epoch, profile_epoch, stepup,
                 calls>>

(* The dashboard's /api/fraud endpoints reach into the ladder and leave    *)
(* epoch and cache alone; it serves its requests from a thread pool.       *)
DashboardFraud(state) ==
  /\ ~serial /\ reports < MaxReports
  /\ fraud # state
  /\ fraud' = state /\ reports' = reports + 1
  /\ UNCHANGED <<serial, pc, loc, cache, fraud_epoch, profile_epoch, stepup,
                 calls>>

(* new_session, and invalidate_cache by the host.                          *)
NewSession ==
  /\ serial => Quiet
  /\ last_result # NoResult
  /\ last_result' = NoResult /\ fresh' = FALSE
  /\ UNCHANGED <<serial, pc, loc, fraud, fraud_epoch, cache_fraud_epoch,
                 profile_epoch, cache_profile_epoch, stepup, counters>>

(* Time passes: the cached decision and the OTP challenge run out.         *)
CacheExpires ==
  /\ fresh /\ fresh' = FALSE
  /\ UNCHANGED <<serial, pc, loc, last_result, fraud, fraud_epoch,
                 cache_fraud_epoch, profile_epoch, cache_profile_epoch,
                 stepup, counters>>

OtpExpires ==
  /\ Active(otp) /\ otp' = [otp EXCEPT !.expired = TRUE]
  /\ UNCHANGED <<serial, pc, loc, cache, fraud, fraud_epoch, profile_epoch,
                 pending, pending_retries, counters>>

(* Whatever the driver says while a step-up is pending.                    *)
Answer ==
  \/ \E right, lapses \in BOOLEAN : AnswerOtp(right, lapses)
  \/ \E right \in BOOLEAN : AnswerPin(right)

(* The statements of a call after its entry.                               *)
Run(t) ==
  \/ EngineDecides(t) \/ StoreResult(t) \/ StoreEpochs(t)
  \/ PostDecision(t) \/ AuditFails(t)
  \/ t = "stt" /\ (InterceptAccepts \/ InterceptStepsUp \/ InterceptRejects)
  \/ t = "stt" /\ \E trusted \in BOOLEAN : RecheckConcludes(trusted)
  \/ t = "llm" /\ ReturnCached
  \/ t = "stt" /\ BumpEpoch(t)
  \/ Done(t)

Next ==
  \/ \E pay \in Payments :
       \/ Intercept(pay)
       \/ RequireCached(pay)
       \/ RequireFresh(pay)
       \/ \E is_guest \in BOOLEAN : Authenticate(pay, is_guest)
  \/ Answer
  \/ \E t \in Threads : Run(t)
  \/ MarkNotMine \/ BumpEpoch("phone")
  \/ \E state \in AfterSoftFlag(fraud) \cup AfterClean(fraud) \cup {"normal"} :
       DashboardFraud(state)
  \/ NewSession
  \/ CacheExpires \/ OtpExpires

Spec == Init /\ [][Next]_vars

(* The threads run on; a driver asked for a code or a PIN keeps talking,   *)
(* and the speech worker gets to what was said.                            *)
FairSpec ==
  /\ Spec
  /\ \A t \in Threads : WF_vars(Run(t))
  /\ WF_vars(BumpEpoch("phone"))
  /\ SF_vars(Answer)
=============================================================================
