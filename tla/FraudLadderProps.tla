-------------------------- MODULE FraudLadderProps --------------------------
(* What driveauth/fraud_state.py promises of the ladder.                   *)
EXTENDS FraudLadder

(* The fields of every object, every buffered and every stored record have *)
(* the types fraud_state.py gives them.                                    *)
TypeOK ==
  /\ now \in Nat
  /\ mem \in [Instances -> Ladder]
  /\ pc \in [Instances -> {"idle", "read", "truncate", "flush"}]
  /\ buf \in [Instances -> Records]
  /\ disk \in Files
  /\ reports \in [Drivers -> Nat]

LockMatches(l) == l.state = "locked" <=> l.confirmed_fraud >= 2

(* A ladder is LOCKED exactly when it counts two confirmed frauds, in the  *)
(* object, in the buffer of a save and in the file, whatever reports,      *)
(* relaxations, merges of other drivers' records and restarts came before. *)
LockIffTwoConfirmed ==
  /\ \A i \in Instances : LockMatches(mem[i])
  /\ \A i \in Instances, d \in Drivers : LockMatches(buf[i][d])
  /\ \A d \in Drivers : LockMatches(disk.recs[d])

(* The state an authentication reads is never milder than the flags still  *)
(* inside the decay window and the confirmed frauds call for, although     *)
(* the state property forgets flags without recomputing the state.         *)
NeverUnderstated ==
  \A i \in Instances :
    Strictness[mem[i].state] >=
      Strictness[Level(Live(mem[i].flags, now), mem[i].confirmed_fraud)]

(* No driver is locked for somebody else's fraud, and no report counts     *)
(* twice: what an object or the file counts for a driver never exceeds the *)
(* reports made for that driver, although every save rewrites all records. *)
FraudIsEarned ==
  /\ \A i \in Instances : mem[i].confirmed_fraud <= reports[DriverOf[i]]
  /\ \A i \in Instances, d \in Drivers :
       buf[i][d].confirmed_fraud <= reports[d]
  /\ \A d \in Drivers : disk.recs[d].confirmed_fraud <= reports[d]

(* Within the life of an object only reset() leaves LOCKED: neither the    *)
(* decay of flags nor any streak of clean authentications does.            *)
LockedOnlyLeavesByReset ==
  [][\A i \in Instances :
       mem[i].state = "locked" =>
         mem'[i].state = "locked" \/ Reset(i) \/ Restart(i)]_vars

AnyRestart == \E i \in Instances : Restart(i)

(* A driver who is not locked is let off in the end: once objects stop     *)
(* being rebuilt, clean authentications bring every ladder back to NORMAL  *)
(* unless it is LOCKED.  A restart forgets the streak, which is never      *)
(* saved, so without that premise a ladder can stay up for ever.           *)
Relaxation ==
  <>[][~AnyRestart]_vars =>
    <>[](\A i \in Instances : mem[i].state \in {"normal", "locked"})

(* The payment gate sees a ladder as a state that reports move: each kind  *)
(* of report leads only where the gate expects it, and nothing but a       *)
(* report, a reset or a rebuilt object moves the state at all.             *)
StateMovesAsPromised ==
  [][\A i \in Instances :
       LET old == mem[i].state
           new == mem'[i].state
       IN  /\ RecordSoftFlag(i) => new \in AfterSoftFlag(old)
           /\ RecordConfirmedFraud(i) => new \in AfterConfirmedFraud(old)
           /\ RecordClean(i) => new \in AfterClean(old)
           /\ new # old =>
                \/ RecordSoftFlag(i) \/ RecordConfirmedFraud(i)
                \/ RecordClean(i) \/ Reset(i) \/ Restart(i)]_vars
=============================================================================
