---------------------------- MODULE FraudLadder ----------------------------
(***************************************************************************)
(* driveauth/fraud_state.py: the fraud ladder of every driver and the one  *)
(* JSON file (store/fraud/ladder.json) all FraudStateMachine objects share.*)
(*                                                                         *)
(* An instance is one FraudStateMachine object: a process, or a DriveAuth  *)
(* that the dashboard rebuilt.  Its lock is held from the report to the    *)
(* end of _save, so an instance that is saving takes no other call.  The   *)
(* lock is not shared between instances and the file has none, so the      *)
(* read, the truncating open and the write of two saves interleave.        *)
(***************************************************************************)
EXTENDS DriveAuthTypes

CONSTANTS
  Instances,    \* FraudStateMachine objects on the store
  Drivers,      \* driver ids with a record in the file
  DriverOf,     \* the driver of each instance
  Window,       \* decay window, in clock ticks (decay_hours)
  CleanStreak,  \* clean authentications that relax the ladder (clean_streak)
  MaxTime,      \* bound: the clock stops here
  MaxReports    \* bound: confirmed-fraud reports of one driver

ASSUME DriverAssumption == DriverOf \in [Instances -> Drivers]
ASSUME WindowAssumption == Window \in Nat \ {0}
ASSUME CleanStreakAssumption == CleanStreak \in Nat \ {0}
ASSUME BoundAssumption == MaxTime \in Nat /\ MaxReports \in Nat

VARIABLES
  now,      \* time.time()
  mem,      \* instance -> the fields of the object
  pc,       \* instance -> what its _save does next, "idle" outside _save
  buf,      \* instance -> the merged records _save is about to write
  disk,     \* ladder.json: whether it parses, and its records
  reports   \* history: confirmed-fraud reports received for each driver

vars == <<now, mem, pc, buf, disk, reports>>

-----------------------------------------------------------------------------
(* The ladder of one driver.                                               *)

(* _flags is a list of distinct, increasing times: here the set of them.   *)
(* _clean_streak is only compared with CleanStreak, and saturates there.   *)
Ladder == [state : FraudState, flags : SUBSET Nat,
           clean_streak : 0..CleanStreak, confirmed_fraud : Nat]

Fresh == [state |-> "normal", flags |-> {},
          clean_streak |-> 0, confirmed_fraud |-> 0]

Live(flags, t) == {f \in flags : t - f < Window}

Several(S) == \E a, b \in S : a # b

(* The level that this much live evidence stands for.                      *)
Level(live, confirmed) ==
  IF confirmed >= 1 \/ Several(live) THEN "heightened"
  ELSE IF live # {} THEN "elevated" ELSE "normal"

(* Faulty variant: LOCKED is recomputed like any other state.              *)
RecomputeLocked(l, t) ==
  LET live == Live(l.flags, t)
  IN  [l EXCEPT !.flags = live, !.state = Level(live, l.confirmed_fraud)]

Recompute(l, t) ==
  LET live == Live(l.flags, t)
  IN  [l EXCEPT !.flags = live,
                !.state = IF l.state = "locked" THEN "locked"
                          ELSE Level(live, l.confirmed_fraud)]

(* _flags[1:]                                                              *)
DropOldest(S) == {t \in S : \E u \in S : u < t}

(* Faulty variant: the flag is added after the level is computed.          *)
SoftFlagLate(l, t) ==
  [Recompute(l, t) EXCEPT !.flags = @ \cup {t}, !.clean_streak = 0]

SoftFlag(l, t) ==
  Recompute([l EXCEPT !.flags = @ \cup {t}, !.clean_streak = 0], t)

ConfirmedFraud(l, t) ==
  LET hit == [l EXCEPT !.confirmed_fraud = @ + 1, !.clean_streak = 0]
  IN  IF hit.confirmed_fraud >= 2 THEN [hit EXCEPT !.state = "locked"]
      ELSE Recompute(hit, t)

(* Faulty variant: a streak relaxes any state but NORMAL.                  *)
RelaxesLocked(l) == l.state # "normal" /\ l.clean_streak + 1 >= CleanStreak

Relaxes(l) ==
  l.state \in {"elevated", "heightened"} /\ l.clean_streak + 1 >= CleanStreak

(* Faulty variant: relaxing does not stop at zero confirmed frauds.        *)
CleanBelowZero(l, t) ==
  IF Relaxes(l)
    THEN Recompute([l EXCEPT !.flags = DropOldest(@),
                             !.confirmed_fraud = @ - 1,
                             !.clean_streak = 0], t)
    ELSE [l EXCEPT !.clean_streak = IF @ < CleanStreak THEN @ + 1 ELSE @]

(* Faulty variant: relaxing removes a flag but forgives no fraud.          *)
CleanUnforgiving(l, t) ==
  IF Relaxes(l)
    THEN Recompute([l EXCEPT !.flags = DropOldest(@), !.clean_streak = 0], t)
    ELSE [l EXCEPT !.clean_streak = IF @ < CleanStreak THEN @ + 1 ELSE @]

Clean(l, t) ==
  IF Relaxes(l)
    THEN Recompute([l EXCEPT !.flags = DropOldest(@),
                             !.confirmed_fraud = IF @ > 0 THEN @ - 1 ELSE 0,
                             !.clean_streak = 0], t)
    ELSE [l EXCEPT !.clean_streak = IF @ < CleanStreak THEN @ + 1 ELSE @]

-----------------------------------------------------------------------------
(* The file.                                                               *)

Records == [Drivers -> Ladder]

(* A file that is missing or was just truncated, one that parses, and one  *)
(* in which two writes overlap and that parses no more.                    *)
Files == [content : {"none", "whole", "torn"}, recs : Records]

NoRecords == [d \in Drivers |-> Fresh]
NoFile == [content |-> "none", recs |-> NoRecords]
TornFile == [content |-> "torn", recs |-> NoRecords]
WholeFile(recs) == [content |-> "whole", recs |-> recs]

(* _load: any failure to read or to parse leaves the defaults in place.    *)
Load(i) == disk.recs[DriverOf[i]]

-----------------------------------------------------------------------------
Init ==
  /\ now = 0
  /\ mem = [i \in Instances |-> Fresh]
  /\ pc = [i \in Instances |-> "idle"]
  /\ buf = [i \in Instances |-> NoRecords]
  /\ disk = NoFile
  /\ reports = [d \in Drivers |-> 0]

(* Calls: each takes the lock, changes the fields and goes on to _save.    *)

RecordSoftFlag(i) ==
  /\ pc[i] = "idle"
  /\ now < MaxTime
  /\ mem' = [mem EXCEPT ![i] = SoftFlag(@, now)]
  /\ now' = now + 1
  /\ pc' = [pc EXCEPT ![i] = "read"]
  /\ UNCHANGED <<buf, disk, reports>>

RecordConfirmedFraud(i) ==
  /\ pc[i] = "idle"
  /\ reports[DriverOf[i]] < MaxReports
  /\ mem' = [mem EXCEPT ![i] = ConfirmedFraud(@, now)]
  /\ reports' = [reports EXCEPT ![DriverOf[i]] = @ + 1]
  /\ pc' = [pc EXCEPT ![i] = "read"]
  /\ UNCHANGED <<now, buf, disk>>

(* A clean authentication is saved only when it relaxes the ladder.        *)
RecordClean(i) ==
  /\ pc[i] = "idle"
  /\ mem' = [mem EXCEPT ![i] = Clean(@, now)]
  /\ pc' = [pc EXCEPT ![i] = IF Relaxes(mem[i]) THEN "read" ELSE "idle"]
  /\ UNCHANGED <<now, buf, disk, reports>>

Reset(i) ==
  /\ pc[i] = "idle"
  /\ mem' = [mem EXCEPT ![i] = Fresh]
  /\ pc' = [pc EXCEPT ![i] = "read"]
  /\ UNCHANGED <<now, buf, disk, reports>>

(* The state property forgets expired flags and keeps the state they led   *)
(* to; rigor, effective_state and effective_rigor all go through it.       *)
ReadState(i) ==
  /\ pc[i] = "idle"
  /\ mem' = [mem EXCEPT ![i].flags = Live(@, now)]
  /\ UNCHANGED <<now, pc, buf, disk, reports>>

(* Faulty variant: the file is written without the driver key.             *)
SaveReadUnkeyed(i) ==
  /\ pc[i] = "read"
  /\ buf' = [buf EXCEPT ![i] = [d \in Drivers |-> mem[i]]]
  /\ pc' = [pc EXCEPT ![i] = "truncate"]
  /\ UNCHANGED <<now, mem, disk, reports>>

(* _save: merge the own record into what the file holds ...                *)
SaveRead(i) ==
  /\ pc[i] = "read"
  /\ buf' = [buf EXCEPT ![i] = [disk.recs EXCEPT ![DriverOf[i]] = mem[i]]]
  /\ pc' = [pc EXCEPT ![i] = "truncate"]
  /\ UNCHANGED <<now, mem, disk, reports>>

(* ... open it for writing, which empties it ...                           *)
SaveTruncate(i) ==
  /\ pc[i] = "truncate"
  /\ disk' = NoFile
  /\ pc' = [pc EXCEPT ![i] = "flush"]
  /\ UNCHANGED <<now, mem, buf, reports>>

(* ... and write.  Over what another save wrote in between, the shorter of *)
(* the two leaves a tail of the longer and the file no longer parses.      *)
SaveFlush(i) ==
  /\ pc[i] = "flush"
  /\ \/ disk' = WholeFile(buf[i])
     \/ disk.content # "none" /\ disk' = TornFile
  /\ pc' = [pc EXCEPT ![i] = "idle"]
  /\ buf' = [buf EXCEPT ![i] = NoRecords]
  /\ UNCHANGED <<now, mem, reports>>

(* An OSError is logged and the call returns; the file stays as it is.     *)
SaveFail(i) ==
  /\ pc[i] \in {"truncate", "flush"}
  /\ pc' = [pc EXCEPT ![i] = "idle"]
  /\ buf' = [buf EXCEPT ![i] = NoRecords]
  /\ UNCHANGED <<now, mem, disk, reports>>

Save(i) == SaveRead(i) \/ SaveTruncate(i) \/ SaveFlush(i) \/ SaveFail(i)

(* The process dies, wherever it is, and a new object loads the file.      *)
Restart(i) ==
  /\ mem' = [mem EXCEPT ![i] = Load(i)]
  /\ pc' = [pc EXCEPT ![i] = "idle"]
  /\ buf' = [buf EXCEPT ![i] = NoRecords]
  /\ UNCHANGED <<now, disk, reports>>

Tick ==
  /\ now < MaxTime
  /\ now' = now + 1
  /\ UNCHANGED <<mem, pc, buf, disk, reports>>

Next ==
  \/ \E i \in Instances :
       \/ RecordSoftFlag(i)
       \/ RecordConfirmedFraud(i)
       \/ RecordClean(i)
       \/ Reset(i)
       \/ ReadState(i)
       \/ Save(i)
       \/ Restart(i)
  \/ Tick

Spec == Init /\ [][Next]_vars

(* A thread in _save holds the lock and runs on.  That clean               *)
(* authentications keep arriving is an assumption about the driver.        *)
FairSpec ==
  /\ Spec
  /\ \A i \in Instances : WF_vars(Save(i)) /\ WF_vars(RecordClean(i))
=============================================================================
