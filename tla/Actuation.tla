----------------------------- MODULE Actuation -----------------------------
(***************************************************************************)
(* hardware/actuation.py: the listener that closes a relay on ACCEPT and   *)
(* the watchdog that opens it when heartbeats stop, on a GPIORelay.        *)
(*                                                                         *)
(* The decision loop ("main") and the watchdog are threads of one process  *)
(* and call set_closed without a lock.  A set_closed first drives the pin  *)
(* and then sets the flag closed; driving it may raise, before or after    *)
(* the pin has changed.  The pin is hardware and outlives the process.     *)
(***************************************************************************)
EXTENDS Integers

CONSTANT Timeout   \* timeout_s, in clock ticks

ASSUME TimeoutAssumption == Timeout \in Nat \ {0}

VARIABLES
  alive,    \* whether the process runs
  main,     \* where the decision loop is; "off" before start and after stop
  wd,       \* where the watchdog thread is
  halt,     \* its stop event
  gpio,     \* whether setup succeeded: _gpio is not None
  pin,      \* the relay
  flag,     \* GPIORelay.closed
  age,      \* time since the last heartbeat, cut off after Timeout
  last,     \* history: the latest decision, "none" before one and after stop
  stuck     \* history: since the relay last opened, the latest attempt to
            \* open it failed, or the process was killed before making one

vars == <<alive, main, wd, halt, gpio, pin, flag, age, last, stuck>>

-----------------------------------------------------------------------------
Decision == {"ACCEPT", "STEP_UP_REQUIRED", "REJECT"}

Init ==
  /\ alive = TRUE /\ main = "off" /\ wd = "off" /\ halt = FALSE
  /\ gpio = FALSE /\ pin = "open" /\ flag = FALSE
  /\ age = 0 /\ last = "none" /\ stuck = FALSE

(* set_closed(False) drives the pin.  Without GPIO it does nothing to it.  *)
OpenPin(ok) ==
  IF gpio /\ ok THEN pin' = "open" /\ stuck' = FALSE
  ELSE /\ pin' \in (IF gpio THEN {pin, "open"} ELSE {pin})
       /\ stuck' = (pin' = "closed")

(* ActuationListener.start: setup, which opens the relay if it succeeds,   *)
(* and the watchdog.  (A start that finds the thread of an earlier watchdog*)
(* still busy opening the relay adds a second one, which does the same.)   *)
Start ==
  /\ alive /\ main = "off" /\ wd = "off"
  /\ gpio' \in BOOLEAN
  /\ pin' = IF gpio' THEN "open" ELSE pin
  /\ stuck' = (pin' = "closed")
  /\ flag' = FALSE /\ age' = 0 /\ halt' = FALSE
  /\ wd' = "poll" /\ main' = "idle"
  /\ UNCHANGED <<alive, last>>

(* heartbeat, called by the host while no result is being handled.         *)
Heartbeat ==
  /\ main = "idle"
  /\ age' = 0
  /\ UNCHANGED <<alive, main, wd, halt, gpio, pin, flag, last, stuck>>

(* on_result: a heartbeat, ...                                             *)
OnResult(d) ==
  /\ main = "idle"
  /\ age' = 0 /\ last' = d
  /\ main' = IF d = "ACCEPT" THEN "close" ELSE "open"
  /\ UNCHANGED <<alive, wd, halt, gpio, pin, flag, stuck>>

(* ... on ACCEPT set_closed(True), and if that raises set_closed(False);   *)
(* without GPIO it raises nothing and clears the flag ...                  *)
Close(ok) ==
  /\ main = "close"
  /\ IF ~gpio THEN pin' = pin /\ main' = "opened"
     ELSE IF ok THEN pin' = "closed" /\ main' = "closed"
     ELSE pin' \in {pin, "closed"} /\ main' = "reopen"
  /\ UNCHANGED <<alive, wd, halt, gpio, flag, age, last, stuck>>

NoteClosed ==
  /\ main = "closed"
  /\ flag' = TRUE /\ main' = "beat"
  /\ UNCHANGED <<alive, wd, halt, gpio, pin, age, last, stuck>>

(* Faulty variant: STEP_UP_REQUIRED leaves the relay as it is.             *)
OpenOnReject(ok) ==
  /\ main \in {"open", "reopen"}
  /\ IF last = "STEP_UP_REQUIRED" THEN UNCHANGED <<pin, stuck>> ELSE OpenPin(ok)
  /\ main' = IF ok \/ ~gpio \/ main = "reopen" THEN "opened" ELSE "beat"
  /\ UNCHANGED <<alive, wd, halt, gpio, flag, age, last>>

(* ... on anything else set_closed(False).  After a failed close the flag  *)
(* is cleared even if opening failed too.                                  *)
Open(ok) ==
  /\ main \in {"open", "reopen"}
  /\ OpenPin(ok)
  /\ main' = IF ok \/ ~gpio \/ main = "reopen" THEN "opened" ELSE "beat"
  /\ UNCHANGED <<alive, wd, halt, gpio, flag, age, last>>

NoteOpened ==
  /\ main = "opened"
  /\ flag' = FALSE /\ main' = "beat"
  /\ UNCHANGED <<alive, wd, halt, gpio, pin, age, last, stuck>>

(* ... and another heartbeat.                                              *)
Beat ==
  /\ main = "beat"
  /\ age' = 0 /\ main' = "idle"
  /\ UNCHANGED <<alive, wd, halt, gpio, pin, flag, last, stuck>>

(* ActuationListener.stop: the watchdog is told to end and joined for two  *)
(* seconds, whether or not it does, ...                                    *)
Stop ==
  /\ main = "idle"
  /\ halt' = TRUE /\ main' = "release"
  /\ UNCHANGED <<alive, wd, gpio, pin, flag, age, last, stuck>>

(* Faulty variant: stop opens the relay but does not clean up.             *)
ReleaseOnly(ok) ==
  /\ main = "release"
  /\ OpenPin(ok)
  /\ flag' = FALSE /\ last' = "none"
  /\ main' = "off"
  /\ UNCHANGED <<alive, wd, halt, gpio, age>>

(* ... and set_closed(False) is tried, and tried again by cleanup.         *)
Release(ok) ==
  /\ main = "release"
  /\ OpenPin(ok)
  /\ flag' = FALSE /\ gpio' = FALSE /\ last' = "none"
  /\ main' = "off"
  /\ UNCHANGED <<alive, wd, halt, age>>

(* Faulty variant: the watchdog goes by the flag, which trails the pin.    *)
WatchdogFlagged ==
  /\ wd = "poll" /\ ~halt
  /\ age > Timeout /\ flag
  /\ wd' = "force"
  /\ UNCHANGED <<alive, main, halt, gpio, pin, flag, age, last, stuck>>

(* ActuationWatchdog._run: after each poll the age is looked at, and a     *)
(* stale one makes it force the relay open, poll after poll.               *)
WatchdogPoll ==
  /\ wd = "poll" /\ ~halt
  /\ age > Timeout
  /\ wd' = "force"
  /\ UNCHANGED <<alive, main, halt, gpio, pin, flag, age, last, stuck>>

WatchdogOpens(ok) ==
  /\ wd = "force"
  /\ OpenPin(ok)
  /\ wd' = IF ok \/ ~gpio THEN "note" ELSE "poll"
  /\ UNCHANGED <<alive, main, halt, gpio, flag, age, last>>

WatchdogNotes ==
  /\ wd = "note"
  /\ flag' = FALSE /\ wd' = "poll"
  /\ UNCHANGED <<alive, main, halt, gpio, pin, age, last, stuck>>

WatchdogEnds ==
  /\ wd = "poll" /\ halt
  /\ wd' = "off"
  /\ UNCHANGED <<alive, main, halt, gpio, pin, flag, age, last, stuck>>

Watchdog == WatchdogPoll \/ WatchdogNotes \/ WatchdogEnds
            \/ \E ok \in BOOLEAN : WatchdogOpens(ok)

Tick ==
  /\ alive /\ age <= Timeout
  /\ age' = age + 1
  /\ UNCHANGED <<alive, main, wd, halt, gpio, pin, flag, last, stuck>>

(* kill -9, and a new process.                                             *)
Kill ==
  /\ alive
  /\ alive' = FALSE /\ main' = "off" /\ wd' = "off"
  /\ stuck' = (pin = "closed")
  /\ UNCHANGED <<halt, gpio, pin, flag, age, last>>

Launch ==
  /\ ~alive
  /\ alive' = TRUE
  /\ gpio' = FALSE /\ flag' = FALSE /\ halt' = FALSE
  /\ age' = 0 /\ last' = "none"
  /\ UNCHANGED <<main, wd, pin, stuck>>

Next ==
  \/ Start \/ Heartbeat \/ Stop
  \/ \E d \in Decision : OnResult(d)
  \/ \E ok \in BOOLEAN : Close(ok) \/ Open(ok) \/ Release(ok)
  \/ NoteClosed \/ NoteOpened \/ Beat
  \/ Watchdog
  \/ Tick
  \/ Kill \/ Launch

Spec == Init /\ [][Next]_vars

(* The watchdog thread is scheduled, and a relay that fails to answer does *)
(* not fail every time.  Nothing is assumed of the decision loop, which    *)
(* may hang anywhere, nor of a killed process being launched again.        *)
FairSpec == Spec /\ WF_vars(Watchdog) /\ SF_vars(WatchdogOpens(TRUE))
=============================================================================
