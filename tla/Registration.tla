---------------------------- MODULE Registration ----------------------------
(***************************************************************************)
(* The files of one driver, as the dashboard's register endpoints write    *)
(* them: samples, consent, home, templates and OOD baselines               *)
(* (dashboard/app.py, driveauth/enrollment.py, consent.py, purge.py).      *)
(*                                                                         *)
(* The endpoints are requests that run at once.  Most are threads; uploads *)
(* run on the event loop and give way only while the body is awaited.      *)
(* They share nothing but the files, and take no lock.                     *)
(***************************************************************************)
CONSTANT Request   \* requests being served at once

VARIABLES
  image,     \* whether there are enough face images
  clips,     \* the voice clips: enough "good" ones, and "poor" ones
  scan,      \* whether there is a finger scan
  home,      \* whether the profile has a home
  consent,   \* whether there is a consent record
  voice,     \* the voice template
  face,      \* the face template
  finger,    \* the finger template
  ood,       \* how far the OOD baselines have been written
  pc,        \* where each request is; "idle" before and after
  listed,    \* the clips each enrolment found
  crossed,   \* history: an enrolment and a purge have run at once
  hurt       \* history: see LockedIsUsable

samples == <<image, clips, scan>>
templates == <<voice, face, finger>>
files == <<samples, home, consent, templates, ood>>
vars == <<files, pc, listed, crossed, hurt>>

-----------------------------------------------------------------------------
(* A file is "torn" when its writer stopped within it, and a template      *)
(* "tainted" when a clip that the quality gate rejects went into it.  The  *)
(* baselines are neutral when seeded and then replaced, the voice's first. *)
Template == {"none", "torn", "whole", "tainted"}
Baseline == {"none", "torn", "neutral", "voice", "own"}
Clip == {"good", "poor"}

(* enrollment_status: both template files exist.                           *)
Locked == voice # "none" /\ face # "none"

Baselines == {"seed", "oodVoice", "oodFace"}
Enrolling(q) ==
  pc[q] \in {"consent", "list", "voice", "face", "finger"} \cup Baselines
Purging(q) == pc[q] \in {"purgeOod", "purgeProfile", "purgeConsent"}

Init ==
  /\ image = FALSE /\ clips = {} /\ scan = FALSE
  /\ home = FALSE /\ consent = FALSE
  /\ voice = "none" /\ face = "none" /\ finger = "none" /\ ood = "none"
  /\ pc = [q \in Request |-> "idle"]
  /\ listed = [q \in Request |-> {}]
  /\ crossed = FALSE /\ hurt = FALSE

Goto(q, label) == pc' = [pc EXCEPT ![q] = label]

(* Each mutating endpoint starts with _assert_register_writable, ...       *)
Admitted(q, label) ==
  /\ pc[q] = "idle" /\ ~Locked
  /\ Goto(q, label)
  /\ UNCHANGED <<files, listed, crossed, hurt>>

(* ... an upload then awaits its body, and saves an image that has a face, *)
SaveImage(q) ==
  /\ pc[q] = "image"
  /\ image' = TRUE
  /\ Goto(q, "idle")
  /\ UNCHANGED <<clips, scan, home, consent, templates, ood, listed, crossed, hurt>>

(* a finger scan, ...                                                      *)
SaveScan(q) ==
  /\ pc[q] = "scan"
  /\ scan' = TRUE
  /\ Goto(q, "idle")
  /\ UNCHANGED <<image, clips, home, consent, templates, ood, listed, crossed, hurt>>

(* or a clip, which the quality gate reads from the disk and may remove.   *)
SaveClip(q, c) ==
  /\ pc[q] = "clip" /\ \A r \in Request : pc[r] # "judge"
  /\ clips' = clips \cup {c}
  /\ Goto(q, IF c = "poor" THEN "judge" ELSE "idle")
  /\ UNCHANGED <<image, scan, home, consent, templates, ood, listed, crossed, hurt>>

(* Faulty variant: the upload is refused but its clip stays.               *)
KeepClip(q) ==
  /\ pc[q] = "judge"
  /\ Goto(q, "idle")
  /\ UNCHANGED <<files, listed, crossed, hurt>>

RemoveClip(q) ==
  /\ pc[q] = "judge"
  /\ clips' = clips \ {"poor"}
  /\ Goto(q, "idle")
  /\ UNCHANGED <<image, scan, home, consent, templates, ood, listed, crossed, hurt>>

(* Clearing leaves finger scans where they are.                            *)
Clear(q) ==
  /\ pc[q] = "clear"
  /\ image' = FALSE /\ clips' = {}
  /\ Goto(q, "idle")
  /\ UNCHANGED <<scan, home, consent, templates, ood, listed, crossed, hurt>>

SetHome(q) ==
  /\ pc[q] = "home"
  /\ home' = TRUE
  /\ Goto(q, "idle")
  /\ UNCHANGED <<samples, consent, templates, ood, listed, crossed, hurt>>

-----------------------------------------------------------------------------
(* register_complete wants a home, ...                                     *)
StartEnrolment(q) ==
  /\ pc[q] = "complete"
  /\ Goto(q, IF home THEN "consent" ELSE "idle")
  /\ crossed' = (crossed \/ (home /\ \E r \in Request : Purging(r)))
  /\ UNCHANGED <<files, listed, hurt>>

(* ... records the consent given with it, ...                              *)
RecordConsent(q) ==
  /\ pc[q] = "consent"
  /\ consent' = TRUE
  /\ Goto(q, "list")
  /\ UNCHANGED <<samples, home, templates, ood, listed, crossed, hurt>>

(* ... and calls enroll_driver, which requires the record and enough       *)
(* samples ...                                                             *)
List(q) ==
  /\ pc[q] = "list"
  /\ listed' = [listed EXCEPT ![q] = clips]
  /\ Goto(q, IF consent /\ image /\ "good" \in clips THEN "voice" ELSE "idle")
  /\ hurt' = (hurt \/ \E r \in Request : pc[r] = "judge")
  /\ UNCHANGED <<files, crossed>>

(* ... and writes one file after the other.  A clip that has gone since    *)
(* ends it with an exception, and so does having no image left.            *)
WriteVoice(q) ==
  /\ pc[q] = "voice"
  /\ IF listed[q] \subseteq clips
       THEN /\ voice' = IF "poor" \in listed[q] THEN "tainted" ELSE "whole"
            /\ Goto(q, "face")
       ELSE voice' = voice /\ Goto(q, "idle")
  /\ UNCHANGED <<samples, home, consent, face, finger, ood, listed, crossed, hurt>>

WriteFace(q) ==
  /\ pc[q] = "face"
  /\ IF image THEN face' = "whole" /\ Goto(q, "finger")
              ELSE face' = face /\ Goto(q, "idle")
  /\ UNCHANGED <<samples, home, consent, voice, finger, ood, listed, crossed, hurt>>

(* Scans, if there are any, are embedded when both templates are written   *)
(* and the driver is locked already.                                       *)
WriteFinger(q) ==
  /\ pc[q] = "finger"
  /\ finger' = IF scan THEN "whole" ELSE finger
  /\ Goto(q, "seed")
  /\ UNCHANGED <<samples, home, consent, voice, face, ood, listed, crossed, hurt>>

WriteBaseline(q, from, written, to) ==
  /\ pc[q] = from
  /\ ood' = written
  /\ Goto(q, to)
  /\ UNCHANGED <<samples, home, consent, templates, listed, crossed, hurt>>

(* Replacing the face's baseline completes the set only if the voice's has *)
(* been replaced and neither has been taken away or seeded again since.    *)
WriteBaselines(q) ==
  \/ WriteBaseline(q, "seed", "neutral", "oodVoice")
  \/ WriteBaseline(q, "oodVoice", "voice", "oodFace")
  \/ WriteBaseline(q, "oodFace", IF ood = "voice" THEN "own" ELSE ood, "idle")

(* The enrolments of these requests stop where they are, perhaps within    *)
(* the write of a file.                                                    *)
Partial(who, labels, f) ==
  {f} \cup (IF \E q \in who : pc[q] \in labels THEN {"torn"} ELSE {})

Stop(who) ==
  /\ voice' \in Partial(who, {"voice"}, voice)
  /\ face' \in Partial(who, {"face"}, face)
  /\ finger' \in Partial(who, IF scan THEN {"finger"} ELSE {}, finger)
  /\ ood' \in Partial(who, Baselines, ood)
  /\ pc' = [q \in Request |-> IF q \in who THEN "idle" ELSE pc[q]]
  /\ UNCHANGED <<samples, home, consent, listed, crossed>>

(* An exception ends an enrolment with an error answer: a model that is not*)
(* installed (mean_embed_finger needs fingernet_lite_int8.onnx), samples of*)
(* which none can be embedded, a file that cannot be written.  Nothing that*)
(* was written is taken back.                                              *)
EnrolmentFails(q) ==
  /\ Enrolling(q) /\ (pc[q] = "finger" => scan)
  /\ Stop({q})
  /\ hurt' = (hurt \/ pc[q] \in {"finger"} \cup Baselines
                    \/ voice' # voice \/ face' # face)

-----------------------------------------------------------------------------
(* purge_driver removes the templates, the baselines, the profile with its *)
(* home, and last the consent.  It asks for no permission to write.        *)
(* Faulty variant: the face's file is missing from the list.               *)
PurgeVoice(q) ==
  /\ pc[q] = "idle"
  /\ voice' = "none" /\ finger' = "none"
  /\ Goto(q, "purgeOod")
  /\ crossed' = (crossed \/ \E r \in Request : Enrolling(r))
  /\ UNCHANGED <<samples, home, consent, face, ood, listed, hurt>>

PurgeTemplates(q) ==
  /\ pc[q] = "idle"
  /\ voice' = "none" /\ face' = "none" /\ finger' = "none"
  /\ Goto(q, "purgeOod")
  /\ crossed' = (crossed \/ \E r \in Request : Enrolling(r))
  /\ UNCHANGED <<samples, home, consent, ood, listed, hurt>>

PurgeOod(q) ==
  /\ pc[q] = "purgeOod"
  /\ ood' = "none"
  /\ Goto(q, "purgeProfile")
  /\ UNCHANGED <<samples, home, consent, templates, listed, crossed, hurt>>

PurgeProfile(q) ==
  /\ pc[q] = "purgeProfile"
  /\ home' = FALSE
  /\ Goto(q, "purgeConsent")
  /\ UNCHANGED <<samples, consent, templates, ood, listed, crossed, hurt>>

PurgeConsent(q) ==
  /\ pc[q] = "purgeConsent"
  /\ consent' = FALSE
  /\ Goto(q, "idle")
  /\ UNCHANGED <<samples, home, templates, ood, listed, crossed, hurt>>

(* The baselines to purge are those whose name ends in the driver's id: a  *)
(* purge of driver b takes those of driver a_b.                            *)
PurgeOfSuffix ==
  /\ ood' = "none"
  /\ hurt' = TRUE
  /\ UNCHANGED <<samples, home, consent, templates, pc, listed, crossed>>

(* The server dies.                                                        *)
Crash ==
  /\ \E q \in Request : pc[q] # "idle"
  /\ Stop(Request)
  /\ hurt' = (hurt \/ \E q \in Request : Enrolling(q) \/ pc[q] = "judge")

Next ==
  \/ \E q \in Request :
       \/ \E label \in {"image", "clip", "scan", "clear", "home", "complete"} :
            Admitted(q, label)
       \/ SaveImage(q) \/ SaveScan(q) \/ \E c \in Clip : SaveClip(q, c)
       \/ RemoveClip(q) \/ Clear(q) \/ SetHome(q)
       \/ StartEnrolment(q) \/ RecordConsent(q) \/ List(q)
       \/ WriteVoice(q) \/ WriteFace(q) \/ WriteFinger(q) \/ WriteBaselines(q)
       \/ EnrolmentFails(q)
       \/ PurgeTemplates(q) \/ PurgeOod(q) \/ PurgeProfile(q) \/ PurgeConsent(q)
  \/ PurgeOfSuffix
  \/ Crash

Spec == Init /\ [][Next]_vars
=============================================================================
