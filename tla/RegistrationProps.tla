------------------------- MODULE RegistrationProps -------------------------
(* What enrolment and purge promise of a driver's files.                   *)
EXTENDS Registration

Label ==
  {"idle", "image", "clip", "scan", "judge", "clear", "home", "complete",
   "consent", "list", "voice", "face", "finger", "seed", "oodVoice", "oodFace",
   "purgeOod", "purgeProfile", "purgeConsent"}

(* The files and the requests are in states they can be in.                *)
TypeOK ==
  /\ image \in BOOLEAN /\ clips \subseteq Clip /\ scan \in BOOLEAN
  /\ home \in BOOLEAN /\ consent \in BOOLEAN
  /\ voice \in Template /\ {face, finger} \subseteq Template \ {"tainted"}
  /\ ood \in Baseline
  /\ pc \in [Request -> Label]
  /\ listed \in [Request -> SUBSET Clip]
  /\ crossed \in BOOLEAN /\ hurt \in BOOLEAN

(* A template is on disk only with the driver's consent, wherever requests *)
(* fail or the server dies, unless an enrolment and a purge ran at once    *)
(* (docs/biometric-data-policy.md:31, "Kept with templates").              *)
ConsentKept ==
  voice # "none" \/ face # "none" \/ finger # "none" => consent \/ crossed

(* A driver who is locked, and so cannot be enrolled again, can            *)
(* authenticate: templates whole and of accepted clips, baselines the      *)
(* driver's own.  Clearing or uploading samples meanwhile does not break   *)
(* this, nor does an enrolment that fails before its second template is    *)
(* there, unless it leaves one torn.  What does is in `crossed` and        *)
(* `hurt`: a purge at the same time, a purge of a driver whose id ends this*)
(* one's, an enrolment that reads the clips while an upload is judged, a   *)
(* server that dies in either, and an enrolment that fails within a        *)
(* template or after both, over a finger scan or the baselines.            *)
LockedIsUsable ==
  Locked /\ (\A q \in Request : ~Enrolling(q)) /\ ~crossed /\ ~hurt
    => voice = "whole" /\ face = "whole" /\ ood = "own" /\ consent
=============================================================================
