-------------------------- MODULE FingerDaemonProps --------------------------
(***************************************************************************)
(* What the fingerprint daemon promises.                                   *)
(***************************************************************************)
EXTENDS FingerDaemon

Serving == {g \in Starts : sv[g].at # "off"}

(* As long as no stop has given up on a thread in service, one thread at   *)
(* most drives the sensor, and a daemon that was stopped, or whose start   *)
(* failed, has released it, serves nobody and has left no socket that      *)
(* takes clients, however start, stop and reconnects interleave.           *)
OneServer ==
  ~abandoned =>
    /\ Cardinality(Serving) <= 1
    /\ op = "idle" /\ thread = 0 =>
         Serving = {} /\ ~open /\ path \in {0, Stale}

(* Every client that asks is answered or turned away: neither a client     *)
(* before it that gave up, nor a stop, a sensor that fails or a thread     *)
(* that outlived its stop leaves it waiting.                               *)
ClientAnswered ==
  \A c \in Clients : cl[c] = "waiting" ~> cl[c] # "waiting"
=============================================================================
