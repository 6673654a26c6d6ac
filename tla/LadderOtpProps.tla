--------------------------- MODULE LadderOtpProps ---------------------------
(***************************************************************************)
(* What the OTP lane promises while its probes follow each other.          *)
(***************************************************************************)
EXTENDS LadderOtp

Quiet == \A p \in Probes : pr[p].at = "idle"

(* A match is for the code of this very probe, not for a code that an      *)
(* earlier call has left on the phone or as a challenge.                   *)
MatchIsOwn == \A p \in Probes : pr[p].score = "match" => pr[p].of = pr[p].code

(* The phone shows no code newer than the challenge that would be checked, *)
(* unless the delivery of that code was reported as failed.                *)
ShownIsAnswerable ==
  Quiet /\ otp # NoChallenge =>
    \A k \in {shown} \cup ToSet(air) : k <= otp.code \/ k \in failed

(* An acknowledgement that waits to be read names the code pushed last,    *)
(* unless one of an older code was still to come when that was pushed.     *)
AckIsForPush == ack_event /\ ~crossed /\ Quiet => last_ack = pushed

(* As long as no probe was still running when the next one began, codes,   *)
(* challenges and acknowledgements keep their order, whatever the phone,   *)
(* the link and the server do in between.                                  *)
LaneInOrder == ~overlapped => MatchIsOwn /\ ShownIsAnswerable /\ AckIsForPush
=============================================================================
