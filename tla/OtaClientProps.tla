--------------------------- MODULE OtaClientProps ---------------------------
(* What the update client promises.                                        *)
EXTENDS OtaClient

(* Every directory holds a version or is missing; no rename finds its      *)
(* target in the way, and what becomes current is completely staged.       *)
OtaTypeOK ==
  /\ pc \in {"idle", "clear", "stage", "copied", "drop", "keep", "swap",
             "health", "unfail", "setaside", "restore"}
  /\ target \in Versions /\ was \in Dir
  /\ stage \in [Versions -> Dir]
  /\ {current, previous, failed} \subseteq Dir
  /\ last_rollback \in BOOLEAN
  /\ pc = "keep" => previous = Absent
  /\ pc = "swap" => current = Absent /\ stage[target] = Whole(target)
  /\ pc = "setaside" => failed = Absent
  /\ pc = "restore" => current = Absent

(* Wherever calls are interrupted, current is missing or a whole version,  *)
(* never one that was being copied or removed (ota_client.py:3, "applies   *)
(* atomically").                                                           *)
CurrentIsWhole == current = Absent \/ current.whole

(* A call that says it rolled back put back the version that was current   *)
(* when it started, if there was one, whatever earlier calls left behind.  *)
RollbackRestores ==
  pc = "idle" /\ last_rollback /\ was # Absent => current = was

(* While a call runs, a version that was current at its start is still on  *)
(* disk and whole, under one of the two names it can have.                 *)
OldVersionKept ==
  pc # "idle" /\ was # Absent => was \in {current, previous} /\ was.whole
=============================================================================
