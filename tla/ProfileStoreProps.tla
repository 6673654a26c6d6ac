------------------------- MODULE ProfileStoreProps -------------------------
(* What the profile of a driver promises those who go by its maturity.     *)
EXTENDS ProfileStore

(* Every copy is a profile of a history that was begun.                    *)
StoreTypeOK ==
  /\ host \in [Object -> Process]
  /\ now \in Nat \ {0}
  /\ mem \in [Object -> Profile] /\ file \in Profile \cup {NoFile}
  /\ stage \in [Object -> {"idle", "write"}]
  /\ seeding \in [Object -> 0..MinTxns]
  /\ spoilt \in BOOLEAN /\ purged \subseteq Histories
  /\ \A o \in Object : mem[o].of \in Histories
  /\ file # NoFile => file.of \in Histories

(* The file has every transaction of its history unless mutations of two   *)
(* processes overlapped, a read or a write of the file failed, or a process*)
(* died before its write, or a purge took it away: the reload under the    *)
(* per-path lock is enough for any number of objects of one process        *)
(* (profile_store.py:31, "dashboard mock vs live auth both touch           *)
(* profiles/").                                                            *)
LostOnlyBySharing ==
  ~spoilt /\ file # NoFile /\ (\A o \in Object : stage[o] = "idle")
    => file.count = truth[file.of].count \/ file.of \in purged

(* An object that calls the driver mature goes by transactions that were   *)
(* made: enough of them in the history it knows, the latest not stale, in a*)
(* profile begun long enough ago or seeded.  No lost update, failed save,  *)
(* restart, reset elsewhere or clock set back makes the history more than  *)
(* it was (profile_store.py:153).                                          *)
MatureIsEarned ==
  \A o \in Object : Mature(mem[o]) =>
    LET t == truth[mem[o].of] IN
    /\ t.count >= MinTxns
    /\ now - t.last <= StaleAfter
    /\ now - t.begun >= MinAge

(* A transaction changes the epoch of the object that records it, so that a*)
(* decision cached before it is not reused (api.py:508), unless the clock  *)
(* was set back, the history began anew, or something was lost or purged:  *)
(* nothing other objects of the process record makes up for the count.     *)
EpochMoves ==
  [][~spoilt => \A o \in Object : Record(o, TRUE)
       => \/ Epoch(mem'[o]) # Epoch(mem[o])
          \/ now < mem[o].last
          \/ mem'[o].of # mem[o].of \/ mem[o].of \in purged]_storeVars
=============================================================================
