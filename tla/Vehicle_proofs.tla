--------------------------- MODULE Vehicle_proofs ---------------------------
(***************************************************************************)
(* Proofs about the two programs that act on the vehicle's own hardware    *)
(* and software: the relay listener with its watchdog, for any timeout,    *)
(* and the update client, for any packages and any of them healthy, with   *)
(* every call interrupted wherever it may be.                              *)
(*                                                                         *)
(* NoStaleClose speaks of a listener at rest.  What carries it from one    *)
(* result to the next is that a closed relay is accounted for at every     *)
(* statement but the one that is about to open it, and that a process that *)
(* was killed with the relay closed has it noted as stuck.                 *)
(*                                                                         *)
(* The invariant of the update client says where, at each step of a call,  *)
(* the version that was current at its start is.                           *)
(***************************************************************************)
EXTENDS ActuationProps, OtaClientProps, TLAPS

(* The relay.                                                              *)

(* The relay is open, or the latest decision was ACCEPT, or the latest     *)
(* attempt to open it failed.                                              *)
Accounted == pin = "closed" /\ ~stuck => last = "ACCEPT"

IInv ==
  /\ TypeOK
  /\ main # "open" => Accounted
  /\ main \in {"close", "closed", "reopen"} => last = "ACCEPT"
  /\ ~alive /\ pin = "closed" => stuck

(* Whatever an attempt to open the relay meets, afterwards it is open or   *)
(* noted as stuck.                                                         *)
LEMMA OpenPinAccounts ==
  ASSUME NEW ok \in BOOLEAN, pin \in {"open", "closed"}, stuck \in BOOLEAN,
         OpenPin(ok)
  PROVE  /\ pin' \in {"open", "closed"} /\ stuck' \in BOOLEAN
         /\ pin' = "closed" => stuck'
<1>1. CASE gpio /\ ok
  BY <1>1 DEF OpenPin
<1>2. CASE ~(gpio /\ ok)
  <2>1. pin' \in {pin, "open"} /\ stuck' = (pin' = "closed")
    BY <1>2 DEF OpenPin
  <2> QED BY <2>1
<1> QED BY <1>1, <1>2

(* A heartbeat starts the count of an age the watchdog can see.            *)
LEMMA FreshAge == 0 \in 0..(Timeout + 1)
BY TimeoutAssumption

THEOREM Initially == Init => IInv
BY FreshAge DEF Init, IInv, TypeOK, Accounted

THEOREM Step == IInv /\ [Next]_vars => IInv'
<1> SUFFICES ASSUME IInv, [Next]_vars PROVE IInv'
  OBVIOUS
<1> USE DEF IInv, TypeOK, Accounted
<1>1. CASE Start
  BY <1>1, FreshAge DEF Start
<1>2. CASE Heartbeat
  BY <1>2, FreshAge DEF Heartbeat
<1>3. CASE Stop
  BY <1>3 DEF Stop
<1>4. ASSUME NEW d \in Decision, OnResult(d) PROVE IInv'
  BY <1>4, FreshAge DEF OnResult, Decision
<1>5. ASSUME NEW ok \in BOOLEAN, Close(ok) PROVE IInv'
  BY <1>5 DEF Close
<1>6. ASSUME NEW ok \in BOOLEAN, Open(ok) PROVE IInv'
  <2>1. OpenPin(ok) BY <1>6 DEF Open
  <2>2. /\ pin' \in {"open", "closed"} /\ stuck' \in BOOLEAN
        /\ pin' = "closed" => stuck'
    BY <2>1, OpenPinAccounts
  <2> QED BY <1>6, <2>2 DEF Open
<1>7. ASSUME NEW ok \in BOOLEAN, Release(ok) PROVE IInv'
  <2>1. OpenPin(ok) BY <1>7 DEF Release
  <2>2. /\ pin' \in {"open", "closed"} /\ stuck' \in BOOLEAN
        /\ pin' = "closed" => stuck'
    BY <2>1, OpenPinAccounts
  <2> QED BY <1>7, <2>2 DEF Release
<1>8. CASE NoteClosed
  BY <1>8 DEF NoteClosed
<1>9. CASE NoteOpened
  BY <1>9 DEF NoteOpened
<1>10. CASE Beat
  BY <1>10, FreshAge DEF Beat
<1>11. CASE WatchdogPoll
  BY <1>11 DEF WatchdogPoll
<1>12. ASSUME NEW ok \in BOOLEAN, WatchdogOpens(ok) PROVE IInv'
  <2>1. OpenPin(ok) BY <1>12 DEF WatchdogOpens
  <2>2. /\ pin' \in {"open", "closed"} /\ stuck' \in BOOLEAN
        /\ pin' = "closed" => stuck'
    BY <2>1, OpenPinAccounts
  <2> QED BY <1>12, <2>2 DEF WatchdogOpens
<1>13. CASE WatchdogNotes
  BY <1>13 DEF WatchdogNotes
<1>14. CASE WatchdogEnds
  BY <1>14 DEF WatchdogEnds
<1>15. CASE Tick
  BY <1>15, TimeoutAssumption DEF Tick
<1>16. CASE Kill
  BY <1>16 DEF Kill
<1>17. CASE Launch
  BY <1>17, FreshAge DEF Launch
<1>18. CASE UNCHANGED vars
  BY <1>18 DEF vars
<1> QED
  BY <1>1, <1>2, <1>3, <1>4, <1>5, <1>6, <1>7, <1>8, <1>9, <1>10, <1>11,
     <1>12, <1>13, <1>14, <1>15, <1>16, <1>17, <1>18 DEF Next, Watchdog

(* The inductive invariant holds in every state.                           *)
THEOREM Invariance == Spec => []IInv
BY Initially, Step, PTL DEF Spec

(* Listener, watchdog and relay are only ever in states they can be in.    *)
THEOREM TypeCorrect == Spec => []TypeOK
<1>1. IInv => TypeOK BY DEF IInv
<1> QED BY <1>1, Invariance, PTL

(* A listener at rest leaves the relay closed only for the latest ACCEPT,  *)
(* or because opening it failed.                                           *)
THEOREM NothingStale == Spec => []NoStaleClose
<1>1. IInv => NoStaleClose BY DEF IInv, Accounted, NoStaleClose
<1> QED BY <1>1, Invariance, PTL

-----------------------------------------------------------------------------
(* The directories of the update client.                                   *)

Before == {"clear", "stage", "copied", "drop", "keep"}
After == {"health", "unfail", "setaside"}

OtaIInv ==
  /\ OtaTypeOK
  /\ CurrentIsWhole
  /\ was = Absent \/ was.whole
  /\ pc \in Before => current = was
  /\ pc \in {"drop", "keep"} => stage[target] = Whole(target)
  /\ pc = "swap" => previous = was
  /\ pc \in After => previous = was /\ current = Whole(target)
  /\ pc \in {"unfail", "setaside", "restore"} => was # Absent
  /\ pc = "restore" => previous = was
  /\ pc # "idle" => ~last_rollback
  /\ RollbackRestores

(* The directory values.                                                   *)
LEMMA Dirs ==
  ASSUME NEW v \in Versions
  PROVE  /\ Absent \in Dir /\ Whole(v) \in Dir /\ Part(v) \in Dir
         /\ Whole(v).whole /\ ~Absent.whole
BY DEF Dir, Absent, Whole, Part

(* A part of a version is a directory value too.                           *)
LEMMA PartOf ==
  ASSUME NEW d \in Dir, d.whole
  PROVE  Part(d.version) \in Dir
BY DEF Dir, Absent, Part

LEMMA OtaInitIInv == OtaInit => OtaIInv
<1> SUFFICES ASSUME OtaInit PROVE OtaIInv
  OBVIOUS
<1>1. target \in Versions
  BY DEF OtaInit
<1> QED
  BY <1>1, Dirs DEF OtaInit, OtaIInv, OtaTypeOK, CurrentIsWhole, RollbackRestores,
                    Before, After

(* Each step of a call keeps the old version where OtaIInv says it is.        *)
LEMMA OtaNextIInv == OtaIInv /\ [OtaNext]_ota_vars => OtaIInv'
<1> SUFFICES ASSUME OtaIInv, [OtaNext]_ota_vars PROVE OtaIInv'
  OBVIOUS
<1> USE DEF OtaIInv, OtaTypeOK, CurrentIsWhole, RollbackRestores, Before, After
<1>1. ASSUME NEW v \in Versions, Apply(v)
      PROVE  OtaIInv'
  BY <1>1 DEF Apply
<1>2. CASE ClearStage
  BY <1>2, Dirs DEF ClearStage
<1>3. CASE StagePart
  BY <1>3, Dirs DEF StagePart
<1>4. CASE StageWhole
  BY <1>4, Dirs DEF StageWhole
<1>5. CASE DropSome
  BY <1>5, PartOf DEF DropSome
<1>6. CASE DropPrevious
  BY <1>6, Dirs DEF DropPrevious
<1>7. CASE KeepCurrent
  BY <1>7, Dirs DEF KeepCurrent
<1>8. CASE Swap
  BY <1>8, Dirs DEF Swap
<1>9. CASE HealthPasses
  BY <1>9 DEF HealthPasses
<1>10. CASE HealthFails
  BY <1>10 DEF HealthFails
<1>11. CASE ClearFailed
  BY <1>11, Dirs DEF ClearFailed
<1>12. CASE SetAside
  BY <1>12, Dirs DEF SetAside
<1>13. CASE Restore
  BY <1>13, Dirs DEF Restore
<1>14. CASE Interrupted
  BY <1>14 DEF Interrupted
<1>15. CASE UNCHANGED ota_vars
  BY <1>15 DEF ota_vars
<1> QED
  BY <1>1, <1>2, <1>3, <1>4, <1>5, <1>6, <1>7, <1>8, <1>9, <1>10, <1>11,
     <1>12, <1>13, <1>14, <1>15 DEF OtaNext, Run

THEOREM OtaInvariance == OtaSpec => []OtaIInv
<1> QED
  BY OtaInitIInv, OtaNextIInv, PTL DEF OtaSpec

(* Directories keep their types and no rename has its target in the way.   *)
THEOREM OtaTypeCorrect == OtaSpec => []OtaTypeOK
<1>1. OtaIInv => OtaTypeOK
  BY DEF OtaIInv
<1> QED
  BY <1>1, OtaInvariance, PTL

(* An interrupted update never leaves half a version as current.           *)
THEOREM Atomic == OtaSpec => []CurrentIsWhole
<1>1. OtaIInv => CurrentIsWhole
  BY DEF OtaIInv
<1> QED
  BY <1>1, OtaInvariance, PTL

(* A rollback that was completed restores what was current before.         *)
THEOREM RollsBack == OtaSpec => []RollbackRestores
<1>1. OtaIInv => RollbackRestores
  BY DEF OtaIInv
<1> QED
  BY <1>1, OtaInvariance, PTL

(* No step of a call loses the version it started from.                    *)
THEOREM KeepsOldVersion == OtaSpec => []OldVersionKept
<1>1. OtaIInv => OldVersionKept
  <2> SUFFICES ASSUME OtaIInv, pc # "idle", was # Absent
               PROVE  was \in {current, previous} /\ was.whole
    BY DEF OldVersionKept
  <2>1. pc \in Before \/ pc = "swap" \/ pc \in After \/ pc = "restore"
    BY DEF OtaIInv, OtaTypeOK, Before, After
  <2> QED
    BY <2>1 DEF OtaIInv
<1> QED
  BY <1>1, OtaInvariance, PTL
=============================================================================
