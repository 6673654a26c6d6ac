---------------------------- MODULE ProfileStore ----------------------------
(***************************************************************************)
(* driveauth/profile_store.py: one driver's statistics in a JSON file that *)
(* the ProfileStore objects of several processes share.                    *)
(*                                                                         *)
(* A mutation reloads the file, changes the object's copy and replaces the *)
(* file.  All of it is under a lock per path that only one process knows,  *)
(* so mutations in different processes interleave between the reload and   *)
(* the replacement.  Others, such as a purge of the driver's data, take no *)
(* lock at all.                                                            *)
(***************************************************************************)
EXTENDS Integers

CONSTANTS
  Object, Process,
  MinTxns,       \* BOOTSTRAP_MIN_TXNS
  MinAge,        \* BOOTSTRAP_MIN_DAYS, in clock ticks
  StaleAfter,    \* PROFILE_STALE_DAYS, in clock ticks
  MaxClock,      \* bound on the clock
  MaxTxns,       \* bound on the transactions of one history
  MaxHistories   \* bound on resets and purges

ASSUME ProfileAssumption ==
  MinTxns \in Nat \ {0} /\ MinAge \in Nat /\ StaleAfter \in Nat
ASSUME ProfileBoundAssumption ==
  MaxClock \in Nat \ {0} /\ MaxTxns \in Nat /\ MaxHistories \in Nat \ {0}

VARIABLES
  host,     \* the process each object lives in
  now,      \* time.time(); it may be set back
  mem,      \* _p of each object
  file,     \* the profile in the file, or NoFile
  stage,    \* whether an object is between its reload and its replacement
  seeding,  \* transactions seed_mature has still to record
  truth,    \* history: what was recorded in each history
  spoilt,   \* history: why the file may have lost something
  purged    \* history: the histories that were purged

storeVars == <<host, now, mem, file, stage, seeding, truth, spoilt, purged>>

-----------------------------------------------------------------------------
(* A profile is the count and time of its transactions and when it began.  *)
(* The amounts and the home, which no maturity depends on, are left out.   *)
(* "of" is the history it belongs to; a reset or a purge begins a new one. *)
Profile == [count : Nat, last : Nat, created : Int, of : Nat \ {0}]
NoFile == [missing |-> TRUE]

Histories == DOMAIN truth
Current == CHOOSE h \in Histories : \A g \in Histories : g <= h
Fresh(h) == [count |-> 0, last |-> 0, created |-> now, of |-> h]

NoTruth == [count |-> 0, last |-> 0, begun |-> now, seeded |-> FALSE]
WithHistory(t) == [h \in Histories \cup {Current + 1} |->
                     IF h \in Histories THEN truth[h] ELSE t]

StoreInit ==
  /\ host \in [Object -> Process]
  /\ now = 1
  /\ truth = [h \in {1} |-> NoTruth]
  /\ mem = [o \in Object |-> Fresh(1)]
  /\ file = NoFile
  /\ stage = [o \in Object |-> "idle"]
  /\ seeding = [o \in Object |-> 0]
  /\ spoilt = FALSE /\ purged = {}

(* _load keeps the object's copy when the file is missing or unreadable.   *)
Loaded(o, readable) == IF file = NoFile \/ ~readable THEN mem[o] ELSE file

(* _file_lock_for: the objects of a process take turns.                    *)
LockFree(o) ==
  \A p \in Object : host[p] = host[o] => stage[p] = "idle"
Overlaps(o) == \E p \in Object : stage[p] = "write"

AddTxn(p) == [p EXCEPT !.count = @ + 1, !.last = now]

(* _mutate as far as the change to the object's copy ...                   *)
Mutate(o, p, readable) ==
  /\ LockFree(o)
  /\ mem' = [mem EXCEPT ![o] = p]
  /\ stage' = [stage EXCEPT ![o] = "write"]
  /\ spoilt' = (spoilt \/ Overlaps(o) \/ ~readable)
  /\ UNCHANGED <<host, now, file, purged>>

RecordOn(o, p, readable) ==
  /\ truth[p.of].count < MaxTxns
  /\ Mutate(o, AddTxn(p), readable)
  /\ truth' = [truth EXCEPT ![p.of].count = @ + 1,
                            ![p.of].last = IF now > @ THEN now ELSE @]
  /\ seeding' = [seeding EXCEPT ![o] = IF @ > 0 THEN @ - 1 ELSE 0]

(* Faulty variant: the object's copy is taken to be up to date.            *)
RecordWithoutReload(o, readable) == RecordOn(o, mem[o], readable)

Record(o, readable) == RecordOn(o, Loaded(o, readable), readable)

(* record_location and set_home write back all that they reloaded.         *)
RecordLocation(o, readable) ==
  /\ seeding[o] = 0
  /\ Mutate(o, Loaded(o, readable), readable)
  /\ UNCHANGED <<truth, seeding>>

SeedTxns == MinTxns

(* seed_mature backdates the profile, then records SeedTxns transactions.  *)
Seed(o, readable) ==
  LET created == now - MinAge - 1 IN
  /\ seeding[o] = 0 /\ Current < MaxHistories
  /\ Mutate(o, [Loaded(o, readable) EXCEPT !.count = 0, !.last = 0,
                  !.created = created, !.of = Current + 1], readable)
  /\ truth' = WithHistory([NoTruth EXCEPT !.begun = created, !.seeded = TRUE])
  /\ seeding' = [seeding EXCEPT ![o] = SeedTxns]

(* reset_bootstrap does not reload.                                        *)
ResetBootstrap(o) ==
  /\ seeding[o] = 0 /\ Current < MaxHistories
  /\ Mutate(o, Fresh(Current + 1), TRUE)
  /\ truth' = WithHistory(NoTruth)
  /\ UNCHANGED seeding

(* ... and _write_unlocked: a temporary file takes the file's place at     *)
(* once, or an exception is logged.                                        *)
Write(o, ok) ==
  /\ stage[o] = "write"
  /\ file' = IF ok THEN mem[o] ELSE file
  /\ stage' = [stage EXCEPT ![o] = "idle"]
  /\ spoilt' = (spoilt \/ ~ok)
  /\ UNCHANGED <<host, now, mem, seeding, truth, purged>>

(* purge_driver_profile unlinks the file, without the lock.                *)
Purge ==
  /\ Current < MaxHistories
  /\ file # NoFile
  /\ file' = NoFile
  /\ purged' = purged \cup Histories
  /\ truth' = WithHistory(NoTruth)
  /\ UNCHANGED <<host, now, mem, stage, seeding, spoilt>>

(* A new object, or a process that dies anywhere and starts again.         *)
Opened == IF file = NoFile THEN Fresh(Current) ELSE file

BeginNow ==
  truth' = IF file = NoFile /\ now < truth[Current].begun
             THEN [truth EXCEPT ![Current].begun = now] ELSE truth

Open(o) ==
  /\ stage[o] = "idle" /\ seeding[o] = 0
  /\ mem' = [mem EXCEPT ![o] = Opened]
  /\ BeginNow
  /\ UNCHANGED <<host, now, file, stage, seeding, spoilt, purged>>

Restart(p) ==
  LET mine == {o \in Object : host[o] = p} IN
  /\ mem' = [o \in Object |-> IF o \in mine THEN Opened ELSE mem[o]]
  /\ stage' = [o \in Object |-> IF o \in mine THEN "idle" ELSE stage[o]]
  /\ seeding' = [o \in Object |-> IF o \in mine THEN 0 ELSE seeding[o]]
  /\ spoilt' = (spoilt \/ \E o \in mine : stage[o] = "write")
  /\ BeginNow
  /\ UNCHANGED <<host, now, file, purged>>

SetClock ==
  /\ now' \in 1..MaxClock
  /\ UNCHANGED <<host, mem, file, stage, seeding, truth, spoilt, purged>>

StoreNext ==
  \/ \E o \in Object :
       \/ \E readable \in BOOLEAN :
            Record(o, readable) \/ RecordLocation(o, readable) \/ Seed(o, readable)
       \/ ResetBootstrap(o)
       \/ \E ok \in BOOLEAN : Write(o, ok)
       \/ Open(o)
  \/ \E p \in Process : Restart(p)
  \/ Purge
  \/ SetClock

StoreSpec == StoreInit /\ [][StoreNext]_storeVars

-----------------------------------------------------------------------------
(* is_mature, from the object's copy, and the epoch the payment gate keeps *)
(* beside a decision (api.py).                                             *)
Recent(p) == p.last # 0 /\ now - p.last <= StaleAfter

(* Faulty variant: history counts however old it is.                       *)
MatureOnCount(p) == p.count >= MinTxns /\ now - p.created >= MinAge

Mature(p) ==
  /\ p.count >= MinTxns
  /\ Recent(p)
  /\ now - p.created >= MinAge

(* Faulty variant: the time of the last transaction alone.                 *)
EpochOfTime(p) == p.last

Epoch(p) == p.count + p.last
=============================================================================
