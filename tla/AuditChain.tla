----------------------------- MODULE AuditChain -----------------------------
(***************************************************************************)
(* driveauth/audit_log.py: the hash-chained JSON-lines file of decisions.  *)
(*                                                                         *)
(* An AuditLog object reads the last hash when it is made and goes by its  *)
(* own copy after that.  Its lock makes its appends one after another; it  *)
(* is not shared, so two objects on one path (a dashboard that rebuilt its *)
(* DriveAuth, a second process) each chain on from what they wrote last.   *)
(*                                                                         *)
(* An entry stands for its text: its id for entry_hash, which no two       *)
(* entries share.  A line that does not parse is Junk.  The remote sink,   *)
(* whose failures are swallowed, is left out.                              *)
(***************************************************************************)
EXTENDS Integers, Sequences

CONSTANTS
  Writers,     \* AuditLog objects on the path
  MaxEntries   \* bound: entries ever made

ASSUME MaxAssumption == MaxEntries \in Nat

VARIABLES
  file,      \* the lines of driveauth_events.jsonl
  ended,     \* whether the last line has its newline
  open,      \* the objects in use
  last_hash, \* object -> _last_hash
  issued,    \* entries made so far; the id of the latest
  returned,  \* history: the entries log_decision returned
  cuts,      \* history: appends that were cut short
  shared     \* history: an object was made beside another or could not read

vars == <<file, ended, open, last_hash, issued, returned, cuts, shared>>

-----------------------------------------------------------------------------
GENESIS == 0
Junk == [id |-> 0, prev |-> 0]
Entry == [id : Nat \ {0}, prev : Nat]

(* verify_chain, over read_all_entries(strict=True).                       *)
VerifyChain(f) ==
  \A k \in 1..Len(f) :
    /\ f[k] # Junk
    /\ f[k].prev = IF k = 1 THEN GENESIS ELSE f[k - 1].id

(* _tail_hash: a last line that does not parse counts as no line.          *)
TailHash(f) == IF f = <<>> THEN GENESIS ELSE f[Len(f)].id

(* What read_all_entries shows of the entries made: unparseable lines are  *)
(* left out.                                                               *)
Shown(f) == {f[k].id : k \in 1..Len(f)} \ {Junk.id}

(* Faulty variant: the file is opened for writing, not for appending.      *)
ExtendTruncates(f, line) == <<line>>

(* open(path, "a") and write: after a line without its newline the new     *)
(* text lands on that same line.                                           *)
Extend(f, line) ==
  IF ended \/ f = <<>> THEN Append(f, line) ELSE [f EXCEPT ![Len(f)] = Junk]

(* Faulty variant: _last_hash is updated before prev_hash is set.          *)
NewEntrySelf(w) == [id |-> issued + 1,
                    prev |-> IF w \in open THEN issued + 1 ELSE GENESIS]

(* prev_hash and entry_hash of the next entry of an object.                *)
NewEntry(w) == [id |-> issued + 1, prev |-> last_hash[w]]

-----------------------------------------------------------------------------
Init ==
  /\ file = <<>> /\ ended = TRUE
  /\ open = {}
  /\ last_hash = [w \in Writers |-> GENESIS]
  /\ issued = 0
  /\ returned = {} /\ cuts = 0 /\ shared = FALSE

(* Faulty variant: an object starts a chain of its own.                    *)
OpenAtGenesis(w, readable) ==
  /\ w \notin open
  /\ open' = open \cup {w}
  /\ last_hash' = [last_hash EXCEPT ![w] = GENESIS]
  /\ shared' = (shared \/ open # {} \/ ~readable)
  /\ UNCHANGED <<file, ended, issued, returned, cuts>>

(* AuditLog(path): an OSError while reading counts as an empty file.       *)
Open(w, readable) ==
  /\ w \notin open
  /\ open' = open \cup {w}
  /\ last_hash' = [last_hash EXCEPT
                     ![w] = IF readable THEN TailHash(file) ELSE GENESIS]
  /\ shared' = (shared \/ open # {} \/ ~readable)
  /\ UNCHANGED <<file, ended, issued, returned, cuts>>

(* The object is dropped or its process ends.                              *)
Close(w) ==
  /\ w \in open
  /\ open' = open \ {w}
  /\ UNCHANGED <<file, ended, last_hash, issued, returned, cuts, shared>>

(* Faulty variant: the line is written without its newline.                *)
LogUnended(w) ==
  /\ w \in open /\ issued < MaxEntries
  /\ file' = Extend(file, NewEntry(w)) /\ ended' = FALSE
  /\ issued' = issued + 1
  /\ last_hash' = [last_hash EXCEPT ![w] = issued']
  /\ returned' = returned \cup {issued'}
  /\ UNCHANGED <<open, cuts, shared>>

(* log_decision.                                                           *)
Log(w) ==
  /\ w \in open /\ issued < MaxEntries
  /\ file' = Extend(file, NewEntry(w)) /\ ended' = TRUE
  /\ issued' = issued + 1
  /\ last_hash' = [last_hash EXCEPT ![w] = issued']
  /\ returned' = returned \cup {issued'}
  /\ UNCHANGED <<open, cuts, shared>>

(* log_decision on a full disk, or in a process that dies: a part of the   *)
(* line gets into the file, or all of it but the newline; the object, if   *)
(* it lives on, keeps the hash it had.                                     *)
LogCut(w) ==
  /\ w \in open /\ issued < MaxEntries
  /\ \E line \in {Junk, NewEntry(w)} : file' = Extend(file, line)
  /\ ended' = FALSE
  /\ issued' = issued + 1 /\ cuts' = cuts + 1
  /\ UNCHANGED <<open, last_hash, returned, shared>>

Next ==
  \E w \in Writers :
    \/ \E readable \in BOOLEAN : Open(w, readable)
    \/ Close(w)
    \/ Log(w)
    \/ LogCut(w)

Spec == Init /\ [][Next]_vars
=============================================================================
