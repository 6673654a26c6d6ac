--------------------------- MODULE ActuationProps ---------------------------
(* What the relay listener and its watchdog promise.                       *)
EXTENDS Actuation

(* The threads are where they can be; a process that is not running has    *)
(* none, and a listener that is off holds no GPIO.                         *)
TypeOK ==
  /\ alive \in BOOLEAN /\ halt \in BOOLEAN /\ gpio \in BOOLEAN
  /\ main \in {"off", "idle", "close", "closed", "open", "reopen", "opened",
               "beat", "release"}
  /\ wd \in {"off", "poll", "force", "note"}
  /\ pin \in {"open", "closed"} /\ flag \in BOOLEAN
  /\ age \in 0..(Timeout + 1)
  /\ last \in Decision \cup {"none"}
  /\ stuck \in BOOLEAN
  /\ ~alive => main = "off" /\ wd = "off"
  /\ alive /\ main = "off" => ~gpio /\ ~flag

(* Between results, and after stop, the relay is closed only if the latest *)
(* decision was ACCEPT, unless the latest attempt to open it failed: no    *)
(* older ACCEPT, late watchdog or half-done close keeps it closed          *)
(* (actuation.py:4, "only closes on a freshly-computed ACCEPT").           *)
NoStaleClose ==
  main \in {"off", "idle"} /\ pin = "closed" /\ ~stuck => last = "ACCEPT"

(* While the process lives, a relay left closed by a decision loop that    *)
(* stopped beating is opened, even if opening it fails at first.           *)
StaleOpens ==
  (alive /\ gpio /\ wd # "off" /\ pin = "closed" /\ age > Timeout)
    ~> (pin = "open" \/ age <= Timeout \/ ~alive \/ halt)
=============================================================================
