------------------------- MODULE FraudLadder_proofs -------------------------
(***************************************************************************)
(* Proofs about the fraud ladder, for any instances, drivers, window,      *)
(* streak length and clock bound.                                          *)
(*                                                                         *)
(* Sound(l, r, t) says of one record all that the invariants say, so that  *)
(* each operation on a ladder needs one lemma.  The inductive invariant    *)
(* asks it of the objects, of the buffers of running saves and of the      *)
(* file alike: a restart turns a stored record into an object.             *)
(***************************************************************************)
EXTENDS FraudLadderProps, TLAPS

Justified(l, t) ==
  Strictness[l.state] >= Strictness[Level(Live(l.flags, t), l.confirmed_fraud)]

Sound(l, r, t) ==
  /\ l \in Ladder
  /\ LockMatches(l)
  /\ l.confirmed_fraud <= r
  /\ Justified(l, t)

IInv ==
  /\ now \in Nat
  /\ reports \in [Drivers -> Nat]
  /\ pc \in [Instances -> {"idle", "read", "truncate", "flush"}]
  /\ mem \in [Instances -> Ladder]
  /\ buf \in [Instances -> Records]
  /\ disk \in Files
  /\ \A i \in Instances : Sound(mem[i], reports[DriverOf[i]], now)
  /\ \A i \in Instances, d \in Drivers : Sound(buf[i][d], reports[d], now)
  /\ \A d \in Drivers : Sound(disk.recs[d], reports[d], now)

-----------------------------------------------------------------------------
(* Operators on one ladder.                                                *)

(* A streak that starts again is a legal streak.                           *)
LEMMA ZeroStreak == 0 \in 0..CleanStreak
BY CleanStreakAssumption

(* The fields of a record.                                                 *)
LEMMA LadderFields ==
  ASSUME NEW l \in Ladder
  PROVE  /\ l.state \in FraudState
         /\ l.flags \in SUBSET Nat
         /\ l.clean_streak \in 0..CleanStreak
         /\ l.confirmed_fraud \in Nat
BY DEF Ladder

(* The level for any evidence is one of the ladder's states, and is never  *)
(* LOCKED: only record_confirmed_fraud locks.                              *)
LEMMA LevelType ==
  ASSUME NEW live, NEW n \in Nat
  PROVE  Level(live, n) \in FraudState /\ Level(live, n) # "locked"
BY DEF Level, FraudState

(* Losing flags never calls for a stricter level.                          *)
LEMMA LevelMonotone ==
  ASSUME NEW S, NEW T \in SUBSET S, NEW n \in Nat
  PROVE  Strictness[Level(S, n)] >= Strictness[Level(T, n)]
<1>1. CASE n >= 1 \/ Several(S)
  <2>1. Level(S, n) = "heightened"
    BY <1>1 DEF Level
  <2>2. Level(T, n) \in {"normal", "elevated", "heightened"}
    BY DEF Level
  <2> QED
    BY <2>1, <2>2 DEF Strictness
<1>2. CASE ~(n >= 1 \/ Several(S))
  <2>1. ~Several(T)
    BY <1>2 DEF Several
  <2>2. S = {} => T = {}
    OBVIOUS
  <2>3. Level(S, n) = IF S # {} THEN "elevated" ELSE "normal"
    BY <1>2 DEF Level
  <2>4. Level(T, n) = IF T # {} THEN "elevated" ELSE "normal"
    BY <1>2, <2>1 DEF Level
  <2> QED
    BY <2>2, <2>3, <2>4 DEF Strictness
<1> QED
  BY <1>1, <1>2

(* The decay window only closes as the clock runs on.                      *)
LEMMA LiveShrinks ==
  ASSUME NEW S \in SUBSET Nat, NEW t \in Nat
  PROVE  /\ Live(S, t) \in SUBSET S
         /\ Live(S, t + 1) \in SUBSET Live(S, t)
         /\ Live(Live(S, t), t) = Live(S, t)
<1>1. Live(S, t) \in SUBSET S /\ Live(Live(S, t), t) = Live(S, t)
  BY DEF Live
<1>2. ASSUME NEW f \in Nat, (t + 1) - f < Window
      PROVE  t - f < Window
  BY <1>2, WindowAssumption
<1>3. Live(S, t + 1) \in SUBSET Live(S, t)
  BY <1>2 DEF Live
<1> QED
  BY <1>1, <1>3

(* A driver without any record is sound whatever was reported.             *)
LEMMA FreshSound ==
  ASSUME NEW r \in Nat, NEW t \in Nat
  PROVE  Sound(Fresh, r, t)
<1>1. Fresh \in Ladder
  BY ZeroStreak DEF Fresh, Ladder, FraudState
<1>2. LockMatches(Fresh) /\ Fresh.confirmed_fraud <= r
  BY DEF LockMatches, Fresh
<1>3. Live(Fresh.flags, t) = {}
  BY DEF Live, Fresh
<1>4. Level(Live(Fresh.flags, t), Fresh.confirmed_fraud) = "normal"
  BY <1>3 DEF Level, Several, Fresh
<1>5. Justified(Fresh, t)
  BY <1>4 DEF Justified, Strictness, Fresh
<1> QED
  BY <1>1, <1>2, <1>5 DEF Sound

(* _recompute makes any well typed record sound whose lock matches its     *)
(* count of confirmed frauds, and neither sets nor clears a lock.          *)
LEMMA RecomputeSound ==
  ASSUME NEW l \in Ladder, NEW r \in Nat, NEW t \in Nat,
         LockMatches(l), l.confirmed_fraud <= r
  PROVE  /\ Sound(Recompute(l, t), r, t)
         /\ Recompute(l, t).state = "locked" <=> l.state = "locked"
<1> DEFINE live == Live(l.flags, t)
           m == Recompute(l, t)
           lev == Level(live, l.confirmed_fraud)
<1>1. live \in SUBSET Nat /\ Live(live, t) = live
  BY LadderFields, LiveShrinks
<1>2. lev \in FraudState /\ lev # "locked"
  BY LadderFields, LevelType
<1>3. m = [l EXCEPT !.flags = live,
                    !.state = IF l.state = "locked" THEN "locked" ELSE lev]
  BY DEF Recompute
<1>4. m \in Ladder
  BY <1>1, <1>2, <1>3, LadderFields DEF Ladder
<1>5. /\ m.flags = live
      /\ m.confirmed_fraud = l.confirmed_fraud
      /\ m.state = IF l.state = "locked" THEN "locked" ELSE lev
  BY <1>3 DEF Ladder
<1>6. m.state = "locked" <=> l.state = "locked"
  BY <1>2, <1>5
<1>7. LockMatches(m)
  BY <1>5, <1>6 DEF LockMatches
<1>8. Justified(m, t)
  <2>1. Level(Live(m.flags, t), m.confirmed_fraud) = lev
    BY <1>1, <1>5
  <2>2. Strictness["locked"] >= Strictness[lev]
    BY <1>2 DEF Strictness, FraudState
  <2>3. Strictness[lev] >= Strictness[lev]
    BY <1>2 DEF Strictness, FraudState
  <2> QED
    BY <1>5, <2>1, <2>2, <2>3 DEF Justified
<1> QED
  BY <1>4, <1>5, <1>6, <1>7, <1>8 DEF Sound

(* record_soft_flag.                                                       *)
LEMMA SoftFlagSound ==
  ASSUME NEW r \in Nat, NEW t \in Nat, NEW l, Sound(l, r, t)
  PROVE  /\ Sound(SoftFlag(l, t), r, t)
         /\ l.state = "locked" => SoftFlag(l, t).state = "locked"
<1> DEFINE m == [l EXCEPT !.flags = @ \cup {t}, !.clean_streak = 0]
<1>1. l \in Ladder
  BY DEF Sound
<1>2. l.flags \cup {t} \in SUBSET Nat
  BY <1>1, LadderFields
<1>3. m \in Ladder
  BY <1>1, <1>2, ZeroStreak DEF Ladder
<1>4. m.state = l.state /\ m.confirmed_fraud = l.confirmed_fraud
  BY <1>1 DEF Ladder
<1>5. LockMatches(m) /\ m.confirmed_fraud <= r
  BY <1>4 DEF Sound, LockMatches
<1>6. SoftFlag(l, t) = Recompute(m, t)
  BY DEF SoftFlag
<1> HIDE DEF m
<1> QED
  BY <1>3, <1>4, <1>5, <1>6, RecomputeSound

(* record_confirmed_fraud counts the one report it was called for.         *)
LEMMA ConfirmedFraudSound ==
  ASSUME NEW r \in Nat, NEW t \in Nat, NEW l, Sound(l, r, t)
  PROVE  /\ Sound(ConfirmedFraud(l, t), r + 1, t)
         /\ l.state = "locked" => ConfirmedFraud(l, t).state = "locked"
<1> DEFINE hit == [l EXCEPT !.confirmed_fraud = @ + 1, !.clean_streak = 0]
           locked == [hit EXCEPT !.state = "locked"]
<1>1. l \in Ladder
  BY DEF Sound
<1>2. l.confirmed_fraud + 1 \in Nat
  BY <1>1, LadderFields
<1>3. hit \in Ladder
  BY <1>1, <1>2, ZeroStreak DEF Ladder
<1>4. hit.state = l.state /\ hit.confirmed_fraud = l.confirmed_fraud + 1
  BY <1>1 DEF Ladder
<1>5. hit.confirmed_fraud <= r + 1
  BY <1>1, <1>4, LadderFields DEF Sound
<1>6. ConfirmedFraud(l, t) =
        IF hit.confirmed_fraud >= 2 THEN locked ELSE Recompute(hit, t)
  BY DEF ConfirmedFraud
<1>7. CASE hit.confirmed_fraud >= 2
  <2>1. locked \in Ladder
    BY <1>3 DEF Ladder, FraudState
  <2>2. locked.state = "locked" /\ locked.confirmed_fraud = hit.confirmed_fraud
    BY <1>3 DEF Ladder
  <2>3. LockMatches(locked)
    BY <1>7, <2>2 DEF LockMatches
  <2>4. Level(Live(locked.flags, t), locked.confirmed_fraud) \in FraudState
    BY <2>1, LadderFields, LevelType
  <2>5. Justified(locked, t)
    BY <2>2, <2>4 DEF Justified, Strictness, FraudState
  <2> QED
    BY <1>5, <1>6, <1>7, <2>1, <2>2, <2>3, <2>5 DEF Sound
<1>8. CASE ~(hit.confirmed_fraud >= 2)
  <2>1. l.confirmed_fraud < 2 /\ l.state # "locked"
    BY <1>1, <1>4, <1>8, LadderFields DEF Sound, LockMatches
  <2>2. LockMatches(hit)
    BY <1>4, <1>8, <2>1 DEF LockMatches
  <2>3. Sound(Recompute(hit, t), r + 1, t)
    <3> HIDE DEF hit
    <3> QED
      BY <1>3, <1>5, <2>2, RecomputeSound
  <2> QED
    BY <1>6, <1>8, <2>1, <2>3
<1> QED
  BY <1>7, <1>8

(* record_clean: the only operation that takes a confirmed fraud back, and *)
(* it does so only below LOCKED.                                           *)
LEMMA CleanSound ==
  ASSUME NEW r \in Nat, NEW t \in Nat, NEW l, Sound(l, r, t)
  PROVE  /\ Sound(Clean(l, t), r, t)
         /\ l.state = "locked" => Clean(l, t).state = "locked"
<1>1. l \in Ladder
  BY DEF Sound
<1>2. CASE Relaxes(l)
  <2> DEFINE less == IF l.confirmed_fraud > 0 THEN l.confirmed_fraud - 1 ELSE 0
             m == [l EXCEPT !.flags = DropOldest(@),
                            !.confirmed_fraud = IF @ > 0 THEN @ - 1 ELSE 0,
                            !.clean_streak = 0]
  <2>1. less \in Nat /\ less <= l.confirmed_fraud
    BY <1>1, LadderFields
  <2>2. DropOldest(l.flags) \in SUBSET Nat
    BY <1>1, LadderFields DEF DropOldest
  <2>3. m \in Ladder
    BY <1>1, <2>1, <2>2, ZeroStreak DEF Ladder
  <2>4. m.state = l.state /\ m.confirmed_fraud = less
    BY <1>1 DEF Ladder
  <2>5. l.state # "locked"
    BY <1>2 DEF Relaxes
  <2>6. LockMatches(m) /\ m.confirmed_fraud <= r
    BY <1>1, <2>1, <2>4, <2>5, LadderFields DEF Sound, LockMatches
  <2>7. Clean(l, t) = Recompute(m, t)
    BY <1>2 DEF Clean
  <2> HIDE DEF m
  <2> QED
    BY <2>3, <2>5, <2>6, <2>7, RecomputeSound
<1>3. CASE ~Relaxes(l)
  <2> DEFINE n == IF l.clean_streak < CleanStreak
                    THEN l.clean_streak + 1 ELSE l.clean_streak
             m == [l EXCEPT !.clean_streak = n]
  <2>1. Clean(l, t) = m
    BY <1>3 DEF Clean
  <2>2. n \in 0..CleanStreak
    BY <1>1, LadderFields, CleanStreakAssumption
  <2>3. m \in Ladder
    BY <1>1, <2>2 DEF Ladder
  <2>4. /\ m.state = l.state /\ m.flags = l.flags
        /\ m.confirmed_fraud = l.confirmed_fraud
    BY <1>1 DEF Ladder
  <2> HIDE DEF m
  <2> QED
    BY <2>1, <2>3, <2>4 DEF Sound, LockMatches, Justified
<1> QED
  BY <1>2, <1>3

(* The state property: forgetting expired flags asks for nothing stricter. *)
LEMMA DecaySound ==
  ASSUME NEW r \in Nat, NEW t \in Nat, NEW l, Sound(l, r, t)
  PROVE  /\ Sound([l EXCEPT !.flags = Live(@, t)], r, t)
         /\ [l EXCEPT !.flags = Live(@, t)].state = l.state
<1> DEFINE m == [l EXCEPT !.flags = Live(@, t)]
<1>1. l \in Ladder
  BY DEF Sound
<1>2. Live(l.flags, t) \in SUBSET Nat /\ Live(Live(l.flags, t), t) = Live(l.flags, t)
  BY <1>1, LadderFields, LiveShrinks
<1>3. m \in Ladder
  BY <1>1, <1>2 DEF Ladder
<1>4. /\ m.state = l.state /\ m.flags = Live(l.flags, t)
      /\ m.confirmed_fraud = l.confirmed_fraud
  BY <1>1 DEF Ladder
<1> HIDE DEF m
<1>5. Sound(m, r, t)
  BY <1>2, <1>3, <1>4 DEF Sound, LockMatches, Justified
<1> QED
  BY <1>4, <1>5 DEF m

(* A sound record stays sound as the clock runs and reports come in.       *)
LEMMA LaterSound ==
  ASSUME NEW r \in Nat, NEW t \in Nat, NEW l, Sound(l, r, t)
  PROVE  Sound(l, r, t + 1) /\ Sound(l, r + 1, t)
<1>1. l \in Ladder /\ l.flags \in SUBSET Nat /\ l.confirmed_fraud \in Nat
  BY LadderFields DEF Sound
<1> DEFINE old == Level(Live(l.flags, t), l.confirmed_fraud)
           new == Level(Live(l.flags, t + 1), l.confirmed_fraud)
<1>2. Live(l.flags, t + 1) \in SUBSET Live(l.flags, t)
  BY <1>1, LiveShrinks
<1>3. Strictness[old] >= Strictness[new]
  BY <1>1, <1>2, LevelMonotone
<1>4. old \in FraudState /\ new \in FraudState /\ l.state \in FraudState
  BY <1>1, LadderFields, LevelType
<1>5. Justified(l, t + 1)
  BY <1>3, <1>4 DEF Sound, Justified, Strictness, FraudState
<1> QED
  BY <1>1, <1>5 DEF Sound

-----------------------------------------------------------------------------
(* The whole store.                                                        *)

(* A restart or a failed read starts from defaults, and they are sound.    *)
LEMMA NoRecordsSound ==
  ASSUME NEW t \in Nat, NEW R \in [Drivers -> Nat]
  PROVE  /\ Fresh \in Ladder
         /\ NoRecords \in Records
         /\ NoFile \in Files /\ TornFile \in Files
         /\ NoFile.recs = NoRecords /\ TornFile.recs = NoRecords
         /\ \A d \in Drivers : Sound(NoRecords[d], R[d], t)
<1>1. Fresh \in Ladder
  BY ZeroStreak DEF Fresh, Ladder, FraudState
<1>2. NoRecords \in Records
  BY <1>1 DEF NoRecords, Records
<1>3. NoFile \in Files /\ TornFile \in Files
  BY <1>2 DEF NoFile, TornFile, Files
<1>4. \A d \in Drivers : Sound(NoRecords[d], R[d], t)
  BY FreshSound DEF NoRecords
<1> QED
  BY <1>1, <1>2, <1>3, <1>4 DEF NoFile, TornFile

LEMMA InitIInv == Init => IInv
<1> SUFFICES ASSUME Init PROVE IInv
  OBVIOUS
<1>1. reports \in [Drivers -> Nat] /\ now \in Nat
  BY DEF Init
<1>2. \A i \in Instances : DriverOf[i] \in Drivers
  BY DriverAssumption
<1>3. /\ mem \in [Instances -> Ladder] /\ buf \in [Instances -> Records]
      /\ disk \in Files
  BY <1>1, NoRecordsSound DEF Init
<1>4. \A i \in Instances : Sound(mem[i], reports[DriverOf[i]], now)
  BY <1>1, <1>2, FreshSound DEF Init
<1>5. \A i \in Instances, d \in Drivers : Sound(buf[i][d], reports[d], now)
  BY <1>1, NoRecordsSound DEF Init
<1>6. \A d \in Drivers : Sound(disk.recs[d], reports[d], now)
  BY <1>1, NoRecordsSound DEF Init
<1> QED
  BY <1>1, <1>3, <1>4, <1>5, <1>6 DEF IInv, Init

(* Replacing one object by a sound one keeps all objects sound.            *)
LEMMA MemUpdate ==
  ASSUME IInv, NEW i \in Instances, NEW l, Sound(l, reports[DriverOf[i]], now),
         mem' = [mem EXCEPT ![i] = l]
  PROVE  /\ mem' \in [Instances -> Ladder]
         /\ \A j \in Instances : Sound(mem'[j], reports[DriverOf[j]], now)
<1>1. l \in Ladder
  BY DEF Sound
<1> QED
  BY <1>1 DEF IInv

(* Every step of an object, of its save or of the clock preserves IInv.    *)
LEMMA NextIInv == IInv /\ [Next]_vars => IInv'
<1> SUFFICES ASSUME IInv, [Next]_vars PROVE IInv'
  OBVIOUS
<1>t. now \in Nat /\ reports \in [Drivers -> Nat]
  BY DEF IInv
<1>d. \A i \in Instances : DriverOf[i] \in Drivers /\ reports[DriverOf[i]] \in Nat
  BY <1>t, DriverAssumption
<1>1. ASSUME NEW i \in Instances, RecordSoftFlag(i) PROVE IInv'
  <2>1. Sound(SoftFlag(mem[i], now), reports[DriverOf[i]], now)
    BY <1>t, <1>d, SoftFlagSound DEF IInv
  <2>2. mem' = [mem EXCEPT ![i] = SoftFlag(mem[i], now)]
    BY <1>1 DEF RecordSoftFlag
  <2>3. /\ mem' \in [Instances -> Ladder]
        /\ \A j \in Instances : Sound(mem'[j], reports[DriverOf[j]], now)
    BY <2>1, <2>2, MemUpdate
  <2>4. /\ now' = now + 1 /\ UNCHANGED <<buf, disk, reports>>
        /\ pc' \in [Instances -> {"idle", "read", "truncate", "flush"}]
    BY <1>1 DEF RecordSoftFlag, IInv
  <2>5. \A j \in Instances : Sound(mem'[j], reports'[DriverOf[j]], now')
    BY <2>3, <2>4, <1>t, <1>d, LaterSound
  <2>6. \A j \in Instances, d \in Drivers : Sound(buf'[j][d], reports'[d], now')
    BY <2>4, <1>t, LaterSound DEF IInv
  <2>7. \A d \in Drivers : Sound(disk'.recs[d], reports'[d], now')
    BY <2>4, <1>t, LaterSound DEF IInv
  <2> QED
    BY <2>3, <2>4, <2>5, <2>6, <2>7 DEF IInv
<1>2. ASSUME NEW i \in Instances, RecordConfirmedFraud(i) PROVE IInv'
  <2> DEFINE me == DriverOf[i]
             l == ConfirmedFraud(mem[i], now)
  <2>1. Sound(l, reports[me] + 1, now)
    BY <1>t, <1>d, ConfirmedFraudSound DEF IInv
  <2>2. /\ mem' = [mem EXCEPT ![i] = l]
        /\ reports' = [reports EXCEPT ![me] = @ + 1]
        /\ UNCHANGED <<now, buf, disk>>
        /\ pc' \in [Instances -> {"idle", "read", "truncate", "flush"}]
    BY <1>2 DEF RecordConfirmedFraud, IInv
  <2>3. l \in Ladder
    BY <2>1 DEF Sound
  <2> HIDE DEF l
  <2>4. reports' \in [Drivers -> Nat] /\ mem' \in [Instances -> Ladder]
    BY <2>2, <2>3, <1>t, <1>d DEF IInv
  <2>5. \A d \in Drivers : reports'[d] = reports[d] \/ reports'[d] = reports[d] + 1
    BY <2>2, <1>t
  <2>6. \A j \in Instances : Sound(mem'[j], reports'[DriverOf[j]], now)
    <3> SUFFICES ASSUME NEW j \in Instances
                 PROVE  Sound(mem'[j], reports'[DriverOf[j]], now)
      OBVIOUS
    <3>1. CASE j = i
      BY <2>1, <2>2, <3>1, <1>t, <1>d DEF IInv
    <3>2. CASE j # i
      BY <2>2, <2>5, <3>2, <1>t, <1>d, LaterSound DEF IInv
    <3> QED
      BY <3>1, <3>2
  <2>7. \A j \in Instances, d \in Drivers : Sound(buf'[j][d], reports'[d], now)
    BY <2>2, <2>5, <1>t, LaterSound DEF IInv
  <2>8. \A d \in Drivers : Sound(disk'.recs[d], reports'[d], now)
    BY <2>2, <2>5, <1>t, LaterSound DEF IInv
  <2> QED
    BY <2>2, <2>4, <2>6, <2>7, <2>8 DEF IInv
<1>3. ASSUME NEW i \in Instances, RecordClean(i) PROVE IInv'
  <2>1. Sound(Clean(mem[i], now), reports[DriverOf[i]], now)
    BY <1>t, <1>d, CleanSound DEF IInv
  <2>2. /\ mem' = [mem EXCEPT ![i] = Clean(mem[i], now)]
        /\ UNCHANGED <<now, buf, disk, reports>>
        /\ pc' \in [Instances -> {"idle", "read", "truncate", "flush"}]
    BY <1>3 DEF RecordClean, IInv
  <2> QED
    BY <2>1, <2>2, MemUpdate DEF IInv
<1>4. ASSUME NEW i \in Instances, Reset(i) PROVE IInv'
  <2>1. Sound(Fresh, reports[DriverOf[i]], now)
    BY <1>t, <1>d, FreshSound
  <2>2. /\ mem' = [mem EXCEPT ![i] = Fresh]
        /\ UNCHANGED <<now, buf, disk, reports>>
        /\ pc' \in [Instances -> {"idle", "read", "truncate", "flush"}]
    BY <1>4 DEF Reset, IInv
  <2> QED
    BY <2>1, <2>2, MemUpdate DEF IInv
<1>5. ASSUME NEW i \in Instances, ReadState(i) PROVE IInv'
  <2> DEFINE l == [mem[i] EXCEPT !.flags = Live(@, now)]
  <2>1. Sound(l, reports[DriverOf[i]], now)
    BY <1>t, <1>d, DecaySound DEF IInv
  <2>2. /\ mem' = [mem EXCEPT ![i] = l]
        /\ UNCHANGED <<now, pc, buf, disk, reports>>
    BY <1>5 DEF ReadState, IInv
  <2> HIDE DEF l
  <2> QED
    BY <2>1, <2>2, MemUpdate DEF IInv
<1>6. ASSUME NEW i \in Instances, SaveRead(i) PROVE IInv'
  <2> DEFINE b == [disk.recs EXCEPT ![DriverOf[i]] = mem[i]]
  <2>1. /\ buf' = [buf EXCEPT ![i] = b]
        /\ UNCHANGED <<now, mem, disk, reports>>
        /\ pc' \in [Instances -> {"idle", "read", "truncate", "flush"}]
    BY <1>6 DEF SaveRead, IInv
  <2>2. disk.recs \in [Drivers -> Ladder] /\ mem[i] \in Ladder
    BY DEF IInv, Files, Records
  <2>3. b \in Records
    BY <2>2, <1>d DEF Records
  <2>4. \A d \in Drivers : Sound(b[d], reports[d], now)
    BY <2>2 DEF IInv
  <2> HIDE DEF b
  <2>5. buf' \in [Instances -> Records]
    BY <2>1, <2>3 DEF IInv
  <2>6. \A j \in Instances, d \in Drivers : Sound(buf'[j][d], reports[d], now)
    BY <2>1, <2>4 DEF IInv
  <2> QED
    BY <2>1, <2>5, <2>6 DEF IInv
<1>b. ASSUME NEW i \in Instances, buf' = [buf EXCEPT ![i] = NoRecords]
      PROVE  /\ buf' \in [Instances -> Records]
             /\ \A j \in Instances, d \in Drivers : Sound(buf'[j][d], reports[d], now)
  <2>1. NoRecords \in Records /\ \A d \in Drivers : Sound(NoRecords[d], reports[d], now)
    BY <1>t, NoRecordsSound
  <2> QED
    BY <1>b, <2>1 DEF IInv
<1>7. ASSUME NEW i \in Instances, SaveTruncate(i) PROVE IInv'
  <2>1. /\ disk' = NoFile
        /\ UNCHANGED <<now, mem, buf, reports>>
        /\ pc' \in [Instances -> {"idle", "read", "truncate", "flush"}]
    BY <1>7 DEF SaveTruncate, IInv
  <2>2. disk' \in Files /\ \A d \in Drivers : Sound(disk'.recs[d], reports[d], now)
    BY <2>1, <1>t, NoRecordsSound
  <2> QED
    BY <2>1, <2>2 DEF IInv
<1>8. ASSUME NEW i \in Instances, SaveFlush(i) PROVE IInv'
  <2>1. /\ disk' = WholeFile(buf[i]) \/ disk' = TornFile
        /\ UNCHANGED <<now, mem, reports>>
        /\ pc' \in [Instances -> {"idle", "read", "truncate", "flush"}]
    BY <1>8 DEF SaveFlush, IInv
  <2>2. disk' \in Files /\ \A d \in Drivers : Sound(disk'.recs[d], reports[d], now)
    <3>1. CASE disk' = WholeFile(buf[i])
      BY <3>1 DEF WholeFile, Files, IInv
    <3>2. CASE disk' = TornFile
      BY <3>2, <1>t, NoRecordsSound
    <3> QED
      BY <2>1, <3>1, <3>2
  <2>3. /\ buf' \in [Instances -> Records]
        /\ \A j \in Instances, d \in Drivers : Sound(buf'[j][d], reports[d], now)
    BY <1>8, <1>b DEF SaveFlush
  <2> QED
    BY <2>1, <2>2, <2>3 DEF IInv
<1>9. ASSUME NEW i \in Instances, SaveFail(i) PROVE IInv'
  <2>1. /\ UNCHANGED <<now, mem, disk, reports>>
        /\ pc' \in [Instances -> {"idle", "read", "truncate", "flush"}]
    BY <1>9 DEF SaveFail, IInv
  <2>2. /\ buf' \in [Instances -> Records]
        /\ \A j \in Instances, d \in Drivers : Sound(buf'[j][d], reports[d], now)
    BY <1>9, <1>b DEF SaveFail
  <2> QED
    BY <2>1, <2>2 DEF IInv
<1>10. ASSUME NEW i \in Instances, Restart(i) PROVE IInv'
  <2>1. Sound(Load(i), reports[DriverOf[i]], now)
    BY <1>d DEF Load, IInv
  <2>2. /\ mem' = [mem EXCEPT ![i] = Load(i)]
        /\ UNCHANGED <<now, disk, reports>>
        /\ pc' \in [Instances -> {"idle", "read", "truncate", "flush"}]
    BY <1>10 DEF Restart, IInv
  <2>3. /\ buf' \in [Instances -> Records]
        /\ \A j \in Instances, d \in Drivers : Sound(buf'[j][d], reports[d], now)
    BY <1>10, <1>b DEF Restart
  <2>4. /\ mem' \in [Instances -> Ladder]
        /\ \A j \in Instances : Sound(mem'[j], reports[DriverOf[j]], now)
    BY <2>1, <2>2, MemUpdate
  <2> QED
    BY <2>2, <2>3, <2>4 DEF IInv
<1>11. ASSUME Tick PROVE IInv'
  <2>1. now' = now + 1 /\ UNCHANGED <<mem, pc, buf, disk, reports>>
    BY <1>11 DEF Tick
  <2>2. \A j \in Instances : Sound(mem'[j], reports'[DriverOf[j]], now')
    BY <2>1, <1>t, <1>d, LaterSound DEF IInv
  <2>3. \A j \in Instances, d \in Drivers : Sound(buf'[j][d], reports'[d], now')
    BY <2>1, <1>t, LaterSound DEF IInv
  <2>4. \A d \in Drivers : Sound(disk'.recs[d], reports'[d], now')
    BY <2>1, <1>t, LaterSound DEF IInv
  <2> QED
    BY <2>1, <2>2, <2>3, <2>4 DEF IInv
<1>12. CASE UNCHANGED vars
  BY <1>12 DEF vars, IInv
<1> QED
  BY <1>1, <1>2, <1>3, <1>4, <1>5, <1>6, <1>7, <1>8, <1>9, <1>10, <1>11, <1>12
     DEF Next, Save

(* The inductive invariant holds in every reachable state.                 *)
THEOREM Invariance == Spec => []IInv
<1> QED
  BY InitIInv, NextIInv, PTL DEF Spec

(* The objects, the buffers and the file are well typed at all times: in   *)
(* particular confirmed_fraud never drops below zero.                      *)
THEOREM TypeCorrect == Spec => []TypeOK
<1>1. IInv => TypeOK
  BY DEF IInv, TypeOK
<1> QED
  BY <1>1, Invariance, PTL

(* LOCKED and two confirmed frauds go together in memory, in every buffer  *)
(* and on disk, for any number of drivers, objects and restarts.           *)
THEOREM LockCorrect == Spec => []LockIffTwoConfirmed
<1>1. IInv => LockIffTwoConfirmed
  BY DEF IInv, LockIffTwoConfirmed, Sound
<1> QED
  BY <1>1, Invariance, PTL

(* The state read by an authentication is as strict as the live evidence.  *)
THEOREM StrictEnough == Spec => []NeverUnderstated
<1>1. IInv => NeverUnderstated
  BY DEF IInv, NeverUnderstated, Sound, Justified
<1> QED
  BY <1>1, Invariance, PTL

(* Nothing counts against a driver that was not reported for that driver.  *)
THEOREM NoBorrowedFraud == Spec => []FraudIsEarned
<1>1. IInv => FraudIsEarned
  BY DEF IInv, FraudIsEarned, Sound
<1> QED
  BY <1>1, Invariance, PTL

(* Only reset() takes a living object out of LOCKED.                       *)
THEOREM LockHolds == Spec => LockedOnlyLeavesByReset
<1>1. ASSUME IInv, [Next]_vars, NEW i \in Instances, mem[i].state = "locked"
      PROVE  mem'[i].state = "locked" \/ Reset(i) \/ Restart(i)
  <2>1. /\ now \in Nat /\ reports[DriverOf[i]] \in Nat
        /\ Sound(mem[i], reports[DriverOf[i]], now)
    BY <1>1, DriverAssumption DEF IInv
  <2>2. mem \in [Instances -> Ladder]
    BY <1>1 DEF IInv
  <2>3. ASSUME NEW j \in Instances, RecordSoftFlag(j)
        PROVE  mem'[i].state = "locked"
    BY <1>1, <2>1, <2>2, <2>3, SoftFlagSound DEF RecordSoftFlag
  <2>4. ASSUME NEW j \in Instances, RecordConfirmedFraud(j)
        PROVE  mem'[i].state = "locked"
    BY <1>1, <2>1, <2>2, <2>4, ConfirmedFraudSound DEF RecordConfirmedFraud
  <2>5. ASSUME NEW j \in Instances, RecordClean(j)
        PROVE  mem'[i].state = "locked"
    BY <1>1, <2>1, <2>2, <2>5, CleanSound DEF RecordClean
  <2>6. ASSUME NEW j \in Instances, ReadState(j)
        PROVE  mem'[i].state = "locked"
    <3>1. mem' = [mem EXCEPT ![j] = [mem[j] EXCEPT !.flags = Live(@, now)]]
      BY <2>6 DEF ReadState
    <3>2. CASE j = i
      BY <1>1, <2>1, <2>2, <3>1, <3>2, DecaySound
    <3>3. CASE j # i
      BY <1>1, <2>2, <3>1, <3>3
    <3> QED
      BY <3>2, <3>3
  <2>7. ASSUME NEW j \in Instances, Reset(j) \/ Restart(j)
        PROVE  mem'[i].state = "locked" \/ Reset(i) \/ Restart(i)
    <3>1. CASE j = i
      BY <2>7, <3>1
    <3>2. CASE j # i
      BY <1>1, <2>2, <2>7, <3>2 DEF Reset, Restart
    <3> QED
      BY <3>1, <3>2
  <2>8. ASSUME NEW j \in Instances, Save(j)
        PROVE  mem'[i].state = "locked"
    BY <1>1, <2>8 DEF Save, SaveRead, SaveTruncate, SaveFlush, SaveFail
  <2>9. CASE Tick \/ UNCHANGED vars
    BY <1>1, <2>9 DEF Tick, vars
  <2> QED
    BY <1>1, <2>3, <2>4, <2>5, <2>6, <2>7, <2>8, <2>9 DEF Next
<1>2. IInv /\ [Next]_vars =>
        [\A i \in Instances :
           mem[i].state = "locked" =>
             mem'[i].state = "locked" \/ Reset(i) \/ Restart(i)]_vars
  BY <1>1
<1> QED
  BY <1>2, Invariance, PTL DEF Spec, LockedOnlyLeavesByReset
-----------------------------------------------------------------------------
(* How reports move the state.                                             *)

(* Below LOCKED, _recompute sets the level of the live evidence.           *)
LEMMA RecomputedState ==
  ASSUME NEW l \in Ladder, NEW t \in Nat, l.state # "locked"
  PROVE  Recompute(l, t).state = Level(Live(l.flags, t), l.confirmed_fraud)
BY DEF Recompute, Ladder

(* record_soft_flag leads to ELEVATED or HEIGHTENED, since the flag it     *)
(* adds is inside the decay window.                                        *)
LEMMA SoftFlagMoves ==
  ASSUME NEW r \in Nat, NEW t \in Nat, NEW l, Sound(l, r, t)
  PROVE  SoftFlag(l, t).state \in AfterSoftFlag(l.state)
<1> DEFINE m == [l EXCEPT !.flags = @ \cup {t}, !.clean_streak = 0]
<1>1. l \in Ladder
  BY DEF Sound
<1>2. l.flags \cup {t} \in SUBSET Nat
  BY <1>1, LadderFields
<1>3. m \in Ladder
  BY <1>1, <1>2, ZeroStreak DEF Ladder
<1>4. m.state = l.state /\ m.flags = l.flags \cup {t}
  BY <1>1 DEF Ladder
<1>5. SoftFlag(l, t) = Recompute(m, t)
  BY DEF SoftFlag
<1>6. CASE l.state = "locked"
  BY <1>6, SoftFlagSound DEF AfterSoftFlag
<1>7. CASE l.state # "locked"
  <2>1. t \in Live(m.flags, t)
    BY <1>4, WindowAssumption DEF Live
  <2>2. Level(Live(m.flags, t), m.confirmed_fraud) \in {"elevated", "heightened"}
    BY <2>1 DEF Level
  <2> HIDE DEF m
  <2>3. SoftFlag(l, t).state = Level(Live(m.flags, t), m.confirmed_fraud)
    BY <1>3, <1>4, <1>5, <1>7, RecomputedState
  <2> QED
    BY <1>7, <2>2, <2>3 DEF AfterSoftFlag
<1> QED
  BY <1>6, <1>7

(* record_confirmed_fraud leads to HEIGHTENED or LOCKED.                   *)
LEMMA ConfirmedFraudMoves ==
  ASSUME NEW r \in Nat, NEW t \in Nat, NEW l, Sound(l, r, t)
  PROVE  ConfirmedFraud(l, t).state \in AfterConfirmedFraud(l.state)
<1> DEFINE hit == [l EXCEPT !.confirmed_fraud = @ + 1, !.clean_streak = 0]
           locked == [hit EXCEPT !.state = "locked"]
<1>1. l \in Ladder /\ l.confirmed_fraud \in Nat /\ l.confirmed_fraud + 1 \in Nat
  BY LadderFields DEF Sound
<1>2. hit \in Ladder
  BY <1>1, ZeroStreak DEF Ladder
<1>3. hit.state = l.state /\ hit.confirmed_fraud = l.confirmed_fraud + 1
  BY <1>1 DEF Ladder
<1>4. locked.state = "locked"
  BY <1>2 DEF Ladder
<1>5. ConfirmedFraud(l, t) =
        IF hit.confirmed_fraud >= 2 THEN locked ELSE Recompute(hit, t)
  BY DEF ConfirmedFraud
<1> HIDE DEF hit, locked
<1>6. CASE hit.confirmed_fraud >= 2
  BY <1>4, <1>5, <1>6 DEF AfterConfirmedFraud
<1>7. CASE ~(hit.confirmed_fraud >= 2)
  <2>1. l.state # "locked"
    BY <1>1, <1>3, <1>7 DEF Sound, LockMatches
  <2>2. hit.confirmed_fraud >= 1
    BY <1>1, <1>3
  <2>3. Level(Live(hit.flags, t), hit.confirmed_fraud) = "heightened"
    BY <2>2 DEF Level
  <2>4. Recompute(hit, t).state = "heightened"
    BY <1>2, <1>3, <2>1, <2>3, RecomputedState
  <2> QED
    BY <1>5, <1>7, <2>1, <2>4 DEF AfterConfirmedFraud
<1> QED
  BY <1>6, <1>7

(* record_clean never makes the state stricter: what it recomputes has     *)
(* fewer flags and frauds than the evidence the state already covers.      *)
LEMMA CleanMoves ==
  ASSUME NEW r \in Nat, NEW t \in Nat, NEW l, Sound(l, r, t)
  PROVE  Clean(l, t).state \in AfterClean(l.state)
<1>1. l \in Ladder /\ l.state \in FraudState /\ l.flags \in SUBSET Nat
      /\ l.confirmed_fraud \in Nat
  BY LadderFields DEF Sound
<1>2. CASE Relaxes(l)
  <2> DEFINE less == IF l.confirmed_fraud > 0 THEN l.confirmed_fraud - 1 ELSE 0
             m == [l EXCEPT !.flags = DropOldest(@),
                            !.confirmed_fraud = IF @ > 0 THEN @ - 1 ELSE 0,
                            !.clean_streak = 0]
             S == Live(l.flags, t)
             T == Live(DropOldest(l.flags), t)
  <2>1. less \in Nat /\ (less >= 1 => l.confirmed_fraud >= 1)
    BY <1>1
  <2>2. DropOldest(l.flags) \in SUBSET l.flags
    BY DEF DropOldest
  <2>3. m \in Ladder
    BY <1>1, <2>1, <2>2, ZeroStreak DEF Ladder
  <2>4. m.state = l.state /\ m.flags = DropOldest(l.flags)
        /\ m.confirmed_fraud = less
    BY <1>1 DEF Ladder
  <2>5. l.state # "locked"
    BY <1>2 DEF Relaxes
  <2>6. Clean(l, t) = Recompute(m, t)
    BY <1>2 DEF Clean
  <2> HIDE DEF m, less
  <2>7. Clean(l, t).state = Level(T, less)
    BY <2>3, <2>4, <2>5, <2>6, RecomputedState
  <2>8. T \in SUBSET S
    BY <2>2 DEF Live
  <2>9. Strictness[Level(S, less)] >= Strictness[Level(T, less)]
    BY <2>1, <2>8, LevelMonotone
  <2>10. Strictness[Level(S, l.confirmed_fraud)] >= Strictness[Level(S, less)]
    <3>1. Level(S, less) \in {"normal", "elevated", "heightened"}
      BY DEF Level
    <3>2. CASE l.confirmed_fraud >= 1
      <4>1. Level(S, l.confirmed_fraud) = "heightened"
        BY <3>2 DEF Level
      <4> QED
        BY <3>1, <4>1 DEF Strictness
    <3>3. CASE ~(l.confirmed_fraud >= 1)
      <4>1. Level(S, less) = Level(S, l.confirmed_fraud)
        BY <2>1, <3>3 DEF Level
      <4> QED
        BY <3>1, <4>1 DEF Strictness
    <3> QED
      BY <3>2, <3>3
  <2>11. Strictness[l.state] >= Strictness[Level(S, l.confirmed_fraud)]
    BY DEF Sound, Justified
  <2>12. /\ Level(T, less) \in FraudState
         /\ Level(S, less) \in FraudState
         /\ Level(S, l.confirmed_fraud) \in FraudState
    BY <1>1, <2>1, LevelType
  <2>13. \A s \in FraudState : Strictness[s] \in Nat
    BY DEF Strictness, FraudState
  <2>14. Strictness[Level(T, less)] <= Strictness[l.state]
    BY <1>1, <2>9, <2>10, <2>11, <2>12, <2>13
  <2> QED
    BY <2>5, <2>7, <2>12, <2>14 DEF AfterClean
<1>3. CASE ~Relaxes(l)
  <2>1. Clean(l, t).state = l.state
    BY <1>1, <1>3 DEF Clean, Ladder
  <2>2. Strictness[l.state] <= Strictness[l.state]
    BY <1>1 DEF Strictness, FraudState
  <2> QED
    BY <1>1, <2>1, <2>2 DEF AfterClean
<1> QED
  BY <1>2, <1>3

(* The payment gate may treat the ladder as a state that reports move.     *)
THEOREM StateMoves == Spec => StateMovesAsPromised
<1> DEFINE
      Moves(i) ==
        /\ RecordSoftFlag(i) => mem'[i].state \in AfterSoftFlag(mem[i].state)
        /\ RecordConfirmedFraud(i) =>
             mem'[i].state \in AfterConfirmedFraud(mem[i].state)
        /\ RecordClean(i) => mem'[i].state \in AfterClean(mem[i].state)
        /\ mem'[i].state # mem[i].state =>
             \/ RecordSoftFlag(i) \/ RecordConfirmedFraud(i)
             \/ RecordClean(i) \/ Reset(i) \/ Restart(i)
<1>1. ASSUME IInv, [Next]_vars, NEW i \in Instances
      PROVE  Moves(i)
  <2>1. /\ now \in Nat /\ reports[DriverOf[i]] \in Nat
        /\ Sound(mem[i], reports[DriverOf[i]], now)
    BY <1>1, DriverAssumption DEF IInv
  <2>2. mem \in [Instances -> Ladder]
    BY <1>1 DEF IInv
  <2>3. RecordSoftFlag(i) => mem'[i].state \in AfterSoftFlag(mem[i].state)
    BY <2>1, <2>2, SoftFlagMoves DEF RecordSoftFlag
  <2>4. RecordConfirmedFraud(i) =>
          mem'[i].state \in AfterConfirmedFraud(mem[i].state)
    BY <2>1, <2>2, ConfirmedFraudMoves DEF RecordConfirmedFraud
  <2>5. RecordClean(i) => mem'[i].state \in AfterClean(mem[i].state)
    BY <2>1, <2>2, CleanMoves DEF RecordClean
  <2>6. ASSUME NEW j \in Instances, j # i,
               RecordSoftFlag(j) \/ RecordConfirmedFraud(j) \/ RecordClean(j)
                 \/ Reset(j) \/ Restart(j) \/ ReadState(j)
        PROVE  mem'[i] = mem[i]
    BY <2>2, <2>6 DEF RecordSoftFlag, RecordConfirmedFraud, RecordClean,
                      Reset, Restart, ReadState
  <2>7. ASSUME ReadState(i)
        PROVE  mem'[i].state = mem[i].state
    <3>1. mem' = [mem EXCEPT ![i] = [mem[i] EXCEPT !.flags = Live(@, now)]]
      BY <2>7 DEF ReadState
    <3> QED
      BY <2>1, <2>2, <3>1, DecaySound
  <2>8. ASSUME NEW j \in Instances, Save(j)
        PROVE  mem' = mem
    BY <2>8 DEF Save, SaveRead, SaveTruncate, SaveFlush, SaveFail
  <2>9. ASSUME Tick \/ UNCHANGED vars
        PROVE  mem' = mem
    BY <2>9 DEF Tick, vars
  <2>10. mem'[i].state # mem[i].state =>
           \/ RecordSoftFlag(i) \/ RecordConfirmedFraud(i)
           \/ RecordClean(i) \/ Reset(i) \/ Restart(i)
    BY <1>1, <2>6, <2>7, <2>8, <2>9 DEF Next
  <2> QED
    BY <2>3, <2>4, <2>5, <2>10
<1>2. IInv /\ [Next]_vars => [\A i \in Instances : Moves(i)]_vars
  BY <1>1
<1>3. Spec => [][\A i \in Instances : Moves(i)]_vars
  BY <1>2, Invariance, PTL DEF Spec
<1> QED
  BY <1>3 DEF StateMovesAsPromised
=============================================================================
