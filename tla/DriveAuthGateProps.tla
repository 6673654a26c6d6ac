------------------------- MODULE DriveAuthGateProps -------------------------
(* What the payment gate promises around the decision engine.              *)
EXTENDS DriveAuthGate

ResultOK(r) == r = NoResult \/ r \in Results

(* The attributes have their types, and at most one call runs at a time    *)
(* where the host serialises them.                                         *)
TypeOK ==
  /\ serial \in BOOLEAN
  /\ pc \in [Threads \cup {"phone"} ->
               {"idle", "engine", "store", "epochs", "post", "conclude",
                "reuse", "returned", "forwarded", "bump"}]
  /\ \A t \in Threads :
       /\ ResultOK(loc[t].result)
       /\ loc[t].pay \in Payments \cup {NoPay}
       /\ loc[t].asof \in Nat
  /\ ResultOK(last_result) /\ fresh \in BOOLEAN
  /\ fraud \in FraudState
  /\ {fraud_epoch, cache_fraud_epoch, profile_epoch, cache_profile_epoch,
      pending_retries, calls, reports} \subseteq Nat
  /\ pending = NoPending \/ pending \in
       [mode : {"otp", "fallback"}, pay : Payments, id : Nat \ {0}]
  /\ otp \in [for : Nat, tries : 0..OtpMaxTries, expired : BOOLEAN]
  /\ serial => \A t, u \in Threads \cup {"phone"} :
                 t = u \/ pc[t] = "idle" \/ pc[u] = "idle"

Reused == pc["llm"] = "returned" /\ loc["llm"].kind = "reuse"

(* In a host that serialises its calls, a decision require_auth reuses is  *)
(* an ACCEPT, covers the tier it is asked for, was taken after the last    *)
(* report that bumped the epoch, and under a fraud state at least as       *)
(* strict as the present one (api.py:482-485).                             *)
ReuseIsSound ==
  Reused /\ serial =>
    LET r == loc["llm"].result
    IN  /\ r.decision = "ACCEPT"
        /\ TierRank[loc["llm"].asked] <= TierRank[r.tier]
        /\ r.epoch = loc["llm"].asof
        /\ Strictness[fraud] <= Strictness[r.fraud]

(* One more than STEP_UP_RETRIES utterances at most answer one step-up,    *)
(* however OTP expiry, exhausted tries and the PIN follow each other; the  *)
(* extra one is the answer on which the OTP turned out to have lapsed.     *)
AttemptsBounded ==
  pending_retries <= StepUpRetries + (IF pc["stt"] = "idle" THEN 0 ELSE 1)

(* While an OTP is asked for, the challenge in force was sent for the      *)
(* pending payment, not for one that was given up earlier, and every code  *)
(* tried on it has been counted as an attempt.                             *)
ChallengeIsForPending ==
  pending.mode = "otp" /\ Active(otp) =>
    otp.for = pending.id /\ OtpMaxTries - otp.tries <= pending_retries

(* A payment forwarded by the speech worker, on an ACCEPT or after a       *)
(* step-up that was pending when a report came in, is never forwarded      *)
(* under LOCKED if the host serialises its calls.                          *)
LockStopsPayments ==
  serial /\ pc["stt"] = "forwarded" => fraud # "locked"

(* A step-up does not hang: as long as the driver goes on answering it is  *)
(* passed or given up, unless the ladder locks first.                      *)
StepUpEnds ==
  (pending # NoPending) ~> (pending = NoPending \/ fraud = "locked")

(* api.py:484, "the tier does not increase and fraud/profile epochs are    *)
(* unchanged": a reused ACCEPT was decided no earlier than the last report *)
(* that was complete when require_auth was called.                         *)
ReuseSeesReports ==
  Reused /\ loc["llm"].result.decision = "ACCEPT" =>
    loc["llm"].result.epoch >= loc["llm"].asof
=============================================================================
