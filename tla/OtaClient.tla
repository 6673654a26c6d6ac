------------------------------ MODULE OtaClient ------------------------------
(***************************************************************************)
(* hardware/ota_client.py: apply_package and _rollback on the directories  *)
(* of an install dir.  The steps between which the client may die (power   *)
(* loss, an OSError that ends the call) are separate actions; a new call   *)
(* starts from whatever directories are there.                             *)
(*                                                                         *)
(* A directory holds a version, whole or in part: shutil.copy2 and rmtree  *)
(* go file by file, a rename is all or nothing.  The signature and digests *)
(* are checked before anything is touched; a package that fails them       *)
(* changes nothing and is left out.                                        *)
(***************************************************************************)
EXTENDS Integers

CONSTANTS
  Versions,   \* version ids of the signed packages
  Healthy     \* those that pass the health check

ASSUME HealthyAssumption == Healthy \subseteq Versions

VARIABLES
  pc,       \* where apply_package is, "idle" between calls
  target,   \* the version it was called with
  was,      \* history: what current held when it was called
  stage,    \* version -> the directory stage-<version>
  current, previous, failed,  \* the directories of those names
  last_rollback

ota_vars == <<pc, target, was, stage, current, previous, failed,
              last_rollback>>

-----------------------------------------------------------------------------
Absent == [version |-> "none", whole |-> FALSE]
Whole(v) == [version |-> v, whole |-> TRUE]
Part(v) == [version |-> v, whole |-> FALSE]
Dir == {Absent} \cup [version : Versions, whole : BOOLEAN]

OtaInit ==
  /\ pc = "idle" /\ target \in Versions /\ was = Absent
  /\ stage = [v \in Versions |-> Absent]
  /\ current = Absent /\ previous = Absent /\ failed = Absent
  /\ last_rollback = FALSE

(* apply_package of a package that verifies.                               *)
Apply(v) ==
  /\ pc = "idle"
  /\ pc' = "clear" /\ target' = v /\ was' = current
  /\ last_rollback' = FALSE
  /\ UNCHANGED <<stage, current, previous, failed>>

(* A staging directory left by an earlier call is removed first, ...       *)
ClearStage ==
  /\ pc = "clear"
  /\ stage' = [stage EXCEPT ![target] = Absent]
  /\ pc' = "stage"
  /\ UNCHANGED <<target, was, current, previous, failed, last_rollback>>

(* Faulty variant: files are copied into the directory current itself.     *)
StageInPlace ==
  /\ pc = "stage"
  /\ current' = Part(target)
  /\ pc' = "copied"
  /\ UNCHANGED <<target, was, stage, previous, failed, last_rollback>>

(* ... the payload is copied ...                                           *)
StagePart ==
  /\ pc = "stage"
  /\ stage' = [stage EXCEPT ![target] = Part(target)]
  /\ pc' = "copied"
  /\ UNCHANGED <<target, was, current, previous, failed, last_rollback>>

StageWhole ==
  /\ pc = "copied"
  /\ stage' = [stage EXCEPT ![target] = Whole(target)]
  /\ pc' = "drop"
  /\ UNCHANGED <<target, was, current, previous, failed, last_rollback>>

(* Faulty variant: a previous that was only removed in part is left there. *)
DropWholeOnly ==
  /\ pc = "drop" /\ ~previous.whole
  /\ pc' = "keep"
  /\ UNCHANGED <<target, was, stage, current, previous, failed,
                 last_rollback>>

(* ... previous is removed, file by file, ...                              *)
DropSome ==
  /\ pc = "drop" /\ previous.whole
  /\ previous' = Part(previous.version)
  /\ UNCHANGED <<pc, target, was, stage, current, failed, last_rollback>>

DropPrevious ==
  /\ pc = "drop" /\ ~previous.whole
  /\ previous' = Absent
  /\ pc' = "keep"
  /\ UNCHANGED <<target, was, stage, current, failed, last_rollback>>

(* Faulty variant: the version in use is deleted, not kept.                *)
KeepNothing ==
  /\ pc = "keep"
  /\ current' = Absent
  /\ pc' = "swap"
  /\ UNCHANGED <<target, was, stage, previous, failed, last_rollback>>

(* ... current, if there is one, becomes previous ...                      *)
KeepCurrent ==
  /\ pc = "keep"
  /\ previous' = current
  /\ current' = Absent
  /\ pc' = "swap"
  /\ UNCHANGED <<target, was, stage, failed, last_rollback>>

(* ... and the staged version becomes current.                             *)
Swap ==
  /\ pc = "swap"
  /\ current' = stage[target]
  /\ stage' = [stage EXCEPT ![target] = Absent]
  /\ pc' = "health"
  /\ UNCHANGED <<target, was, previous, failed, last_rollback>>

HealthPasses ==
  /\ pc = "health" /\ current.version \in Healthy
  /\ pc' = "idle"
  /\ UNCHANGED <<target, was, stage, current, previous, failed, last_rollback>>

(* _rollback without a previous version only logs an error.                *)
HealthFails ==
  /\ pc = "health" /\ current.version \notin Healthy
  /\ IF previous = Absent
       THEN pc' = "idle" /\ last_rollback' = TRUE
       ELSE pc' = "unfail" /\ UNCHANGED last_rollback
  /\ UNCHANGED <<target, was, stage, current, previous, failed>>

(* _rollback: an older failed version goes, the new one becomes it ...     *)
ClearFailed ==
  /\ pc = "unfail"
  /\ failed' = Absent
  /\ pc' = "setaside"
  /\ UNCHANGED <<target, was, stage, current, previous, last_rollback>>

SetAside ==
  /\ pc = "setaside"
  /\ failed' = current
  /\ current' = Absent
  /\ pc' = "restore"
  /\ UNCHANGED <<target, was, stage, previous, last_rollback>>

(* Faulty variant: the version just set aside is put back.                 *)
RestoreFailed ==
  /\ pc = "restore"
  /\ current' = failed /\ failed' = Absent
  /\ last_rollback' = TRUE
  /\ pc' = "idle"
  /\ UNCHANGED <<target, was, stage, previous>>

(* ... and previous is current again.                                      *)
Restore ==
  /\ pc = "restore"
  /\ current' = previous /\ previous' = Absent
  /\ last_rollback' = TRUE
  /\ pc' = "idle"
  /\ UNCHANGED <<target, was, stage, failed>>

(* The call ends where it is; nothing takes it up again.                   *)
Interrupted ==
  /\ pc # "idle"
  /\ pc' = "idle"
  /\ UNCHANGED <<target, was, stage, current, previous, failed,
                 last_rollback>>

Run ==
  \/ ClearStage \/ StagePart \/ StageWhole
  \/ DropSome \/ DropPrevious \/ KeepCurrent \/ Swap
  \/ HealthPasses \/ HealthFails
  \/ ClearFailed \/ SetAside \/ Restore

OtaNext ==
  \/ \E v \in Versions : Apply(v)
  \/ Run
  \/ Interrupted

OtaSpec == OtaInit /\ [][OtaNext]_ota_vars
=============================================================================
