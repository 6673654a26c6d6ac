---------------------------- MODULE FingerDaemon ----------------------------
(***************************************************************************)
(* hardware/finger_daemon.py: a daemon that owns the fingerprint sensor    *)
(* and answers SCAN requests on a Unix socket, one client at a time, with  *)
(* FingerMatcher as its client.                                            *)
(*                                                                         *)
(* One thread owns the object and calls start and stop.  Each start makes  *)
(* a socket and a serving thread, both named by the number of the start.   *)
(* A serving thread reads _stop, _server and _sensor of the object anew,   *)
(* so one that outlives its stop works with what a later start has set.    *)
(* The sensor adapter (finger_uart.py, gt511c3.py) is an open port that    *)
(* yields a scan or nothing within its timeout.  The backlog of the socket *)
(* is not exceeded.                                                        *)
(***************************************************************************)
EXTENDS Naturals, Sequences, FiniteSets, SequencesExt

CONSTANTS Clients,    \* threads that scan: FingerMatcher, dashboard pings
          MaxStarts   \* bound: starts of the daemon

ASSUME StartsAssumption == MaxStarts \in Nat

VARIABLES
  op,         \* the statement of start or stop the owner is at
  starts,     \* starts that came to the serving thread so far
  stopping,   \* the event _stop
  thread,     \* _thread: the number of a start, or 0
  server,     \* _server: likewise
  sensor_ok,  \* _sensor_ok
  open,       \* whether the adapter holds the port open
  path,       \* whose socket the path names; Stale: nobody's; 0: no file
  queue,      \* start -> clients its socket has not accepted yet
  sv,         \* start -> its serving thread: where it is, and its client
  cl,         \* client -> what has become of its request
  abandoned   \* history: a stop gave up waiting for the serving thread

owner == <<op, starts, stopping, thread, server, path, abandoned>>
port == <<sensor_ok, open>>
daemonVars == <<owner, port, queue, sv, cl>>

-----------------------------------------------------------------------------
Starts == 1..MaxStarts
Stale == MaxStarts + 1
Off == [at |-> "off", conn |-> "none"]

(* In service, a thread may stay longer than the three seconds of a join.  *)
InService == {"read", "check", "capture", "retry", "again", "send"}

Init ==
  /\ op = "idle" /\ starts = 0 /\ stopping = FALSE
  /\ thread = 0 /\ server = 0 /\ path \in {0, Stale}
  /\ sensor_ok = FALSE /\ open = FALSE
  /\ queue = [g \in Starts |-> <<>>] /\ sv = [g \in Starts |-> Off]
  /\ cl = [c \in Clients |-> "idle"] /\ abandoned = FALSE

(* A connection that is closed unanswered ends the request of a client     *)
(* that still waits.                                                       *)
Refused(clients) ==
  [c \in Clients |->
     IF c \in clients /\ cl[c] = "waiting" THEN "nothing" ELSE cl[c]]

-----------------------------------------------------------------------------
ThreadAlive == \E g \in Starts : g = thread /\ sv[g].at # "off"

(* Faulty variant: the thread of the last start is not asked after.        *)
StartAgain ==
  /\ op = "idle" /\ starts < MaxStarts
  /\ stopping' = FALSE /\ op' = "opening"
  /\ UNCHANGED <<starts, thread, server, path, abandoned, port, queue, sv, cl>>

(* start: nothing to do while the thread of the last start lives.          *)
Start ==
  /\ op = "idle" /\ starts < MaxStarts /\ ~ThreadAlive
  /\ stopping' = FALSE /\ op' = "opening"
  /\ UNCHANGED <<starts, thread, server, path, abandoned, port, queue, sv, cl>>

(* The sensor opens, or start refuses to listen.                           *)
OpenSensor ==
  /\ op = "opening"
  /\ \E ok \in BOOLEAN :
       /\ open' = ok /\ sensor_ok' = ok
       /\ op' = IF ok THEN "listening" ELSE "idle"
  /\ UNCHANGED <<starts, stopping, thread, server, path, abandoned,
                 queue, sv, cl>>

(* A file in the way is unlinked, the socket bound, the thread started.    *)
Listen ==
  /\ op = "listening"
  /\ LET g == starts + 1
     IN  /\ starts' = g /\ server' = g /\ thread' = g /\ path' = g
         /\ sv' = [sv EXCEPT ![g].at = "accept"]
  /\ op' = "idle"
  /\ UNCHANGED <<stopping, abandoned, port, queue, cl>>

(* Clearing the path, binding or listening fails.                          *)
ListenFails ==
  /\ op = "listening"
  /\ open' = FALSE /\ sensor_ok' = FALSE /\ op' = "idle"
  /\ path' \in {path, 0}
  /\ UNCHANGED <<starts, stopping, thread, server, abandoned, queue, sv, cl>>

(* stop: the event is set and the thread joined, for three seconds.        *)
Stop ==
  /\ op = "idle" /\ ~stopping
  /\ stopping' = TRUE /\ op' = "joining"
  /\ UNCHANGED <<starts, thread, server, path, abandoned, port, queue, sv, cl>>

Join ==
  /\ op = "joining"
  /\ \/ ~ThreadAlive /\ UNCHANGED abandoned
     \/ ThreadAlive /\ sv[thread].at \in InService /\ abandoned' = TRUE
  /\ thread' = 0 /\ op' = "closing"
  /\ UNCHANGED <<starts, stopping, server, path, port, queue, sv, cl>>

(* The socket is closed, with the connections it has not accepted.         *)
CloseServer ==
  /\ op = "closing"
  /\ server' = 0 /\ op' = "releasing"
  /\ cl' = Refused(UNION {ToSet(queue[g]) : g \in Starts \cap {server}})
  /\ queue' = [g \in Starts |-> IF g = server THEN <<>> ELSE queue[g]]
  /\ UNCHANGED <<starts, stopping, thread, path, abandoned, port, sv>>

ReleaseSensor ==
  /\ op = "releasing"
  /\ open' = FALSE /\ op' = "unlinking"
  /\ UNCHANGED <<starts, stopping, thread, server, path, abandoned,
                 sensor_ok, queue, sv, cl>>

Unlink ==
  /\ op = "unlinking"
  /\ sensor_ok' = FALSE /\ path' = 0 /\ op' = "idle"
  /\ UNCHANGED <<starts, stopping, thread, server, abandoned, open,
                 queue, sv, cl>>

(* The process ends, by an interrupt after its stop or by a crash; the     *)
(* next one makes a new object and finds the file where it was.            *)
ProcessEnds ==
  /\ starts > 0
  /\ op' = "idle" /\ stopping' = FALSE /\ thread' = 0 /\ server' = 0
  /\ path' = IF path = 0 THEN 0 ELSE Stale
  /\ sensor_ok' = FALSE /\ open' = FALSE
  /\ cl' = Refused(Clients)
  /\ queue' = [g \in Starts |-> <<>>] /\ sv' = [g \in Starts |-> Off]
  /\ abandoned' = FALSE
  /\ UNCHANGED starts

-----------------------------------------------------------------------------
(* _serve_loop: a thread leaves when it sees the event, or dies reading    *)
(* accept of a server that is None.                                        *)
Leave(g) ==
  /\ sv[g].at = "accept" /\ (stopping \/ server = 0)
  /\ sv' = [sv EXCEPT ![g].at = "off"]
  /\ UNCHANGED <<owner, port, queue, cl>>

Accept(g) ==
  /\ sv[g].at = "accept" /\ ~stopping /\ server # 0
  /\ queue[server] # <<>>
  /\ sv' = [sv EXCEPT ![g] = [at |-> "read", conn |-> Head(queue[server])]]
  /\ queue' = [queue EXCEPT ![server] = Tail(@)]
  /\ UNCHANGED <<owner, port, cl>>

(* The finally clause: the connection is closed on every way out.          *)
Hangup(g) == sv' = [sv EXCEPT ![g] = [at |-> "accept", conn |-> "none"]]

(* _handle_client: a connection closed without a line asks for nothing.    *)
Read(g) ==
  /\ sv[g].at = "read"
  /\ IF cl[sv[g].conn] = "ping"
     THEN Hangup(g) /\ cl' = [cl EXCEPT ![sv[g].conn] = "gone"]
     ELSE sv' = [sv EXCEPT ![g].at = "check"] /\ UNCHANGED cl
  /\ UNCHANGED <<owner, port, queue>>

(* Faulty variant: a failed reconnect returns without closing the          *)
(* connection.                                                             *)
ReconnectHolds(g, next) ==
  \E ok \in BOOLEAN :
    /\ open' = ok /\ sensor_ok' = ok
    /\ IF ok THEN sv' = [sv EXCEPT ![g].at = next] ELSE Hangup(g)
    /\ UNCHANGED <<owner, queue, cl>>

(* reconnect_sensor: the port is closed and opened again.                  *)
Reconnect(g, next) ==
  \E ok \in BOOLEAN :
    /\ open' = ok /\ sensor_ok' = ok
    /\ IF ok THEN sv' = [sv EXCEPT ![g].at = next] /\ UNCHANGED cl
       ELSE Hangup(g) /\ cl' = Refused({sv[g].conn})
    /\ UNCHANGED <<owner, queue>>

Check(g) ==
  /\ sv[g].at = "check"
  /\ \/ /\ sensor_ok
        /\ sv' = [sv EXCEPT ![g].at = "capture"]
        /\ UNCHANGED <<owner, port, queue, cl>>
     \/ ~sensor_ok /\ Reconnect(g, "capture")

(* capture_image: a scan only from an open port, and nothing when it fails *)
(* or no finger comes in time.  Nothing is tried once more.                *)
Capture(g) ==
  /\ sv[g].at = "capture"
  /\ \/ open /\ sv' = [sv EXCEPT ![g].at = "send"]
     \/ sv' = [sv EXCEPT ![g].at = "retry"]
  /\ UNCHANGED <<owner, port, queue, cl>>

Retry(g) == sv[g].at = "retry" /\ Reconnect(g, "again")

CaptureAgain(g) ==
  /\ sv[g].at = "again"
  /\ \/ /\ open /\ sv' = [sv EXCEPT ![g].at = "send"]
        /\ UNCHANGED cl
     \/ Hangup(g) /\ cl' = Refused({sv[g].conn})
  /\ UNCHANGED <<owner, port, queue>>

(* The scan of a client that has given up goes nowhere.                    *)
Send(g) ==
  /\ sv[g].at = "send"
  /\ cl' = [cl EXCEPT ![sv[g].conn] = IF @ = "waiting" THEN "image" ELSE @]
  /\ Hangup(g)
  /\ UNCHANGED <<owner, port, queue>>

Serve(g) ==
  Leave(g) \/ Accept(g) \/ Read(g) \/ Check(g) \/ Capture(g) \/ Retry(g)
    \/ CaptureAgain(g) \/ Send(g)

-----------------------------------------------------------------------------
(* Whether a connection of the client is still with the daemon.            *)
Held(c) ==
  \E g \in Starts : sv[g].conn = c \/ c \in ToSet(queue[g])

(* FingerMatcher.capture_and_score connects and asks for a scan;           *)
(* _finger_daemon_reachable of the dashboard connects and hangs up.        *)
Connect(c) ==
  /\ cl[c] \in {"idle", "image", "nothing", "gone"} /\ ~Held(c)
  /\ path \in Starts /\ path = server
  /\ cl' = [cl EXCEPT ![c] = "waiting"] \/ cl' = [cl EXCEPT ![c] = "ping"]
  /\ queue' = [queue EXCEPT ![server] = Append(@, c)]
  /\ UNCHANGED <<owner, port, sv>>

(* Five seconds without a byte: the matcher has no score, but its request  *)
(* stays with the daemon.                                                  *)
GiveUp(c) ==
  /\ cl[c] = "waiting"
  /\ cl' = [cl EXCEPT ![c] = "gone"]
  /\ UNCHANGED <<owner, port, queue, sv>>

-----------------------------------------------------------------------------
StopStep == Join \/ CloseServer \/ ReleaseSensor \/ Unlink

Next ==
  \/ Start \/ OpenSensor \/ Listen \/ ListenFails \/ Stop \/ StopStep
  \/ ProcessEnds
  \/ \E g \in Starts : Serve(g)
  \/ \E c \in Clients : Connect(c) \/ GiveUp(c)

Spec == Init /\ [][Next]_daemonVars

(* Threads run on: every wait in _handle_client and in a capture has a     *)
(* timeout, and stop waits only for its join.                              *)
Fairness ==
  /\ WF_daemonVars(StopStep)
  /\ \A g \in Starts : WF_daemonVars(Serve(g))

FairSpec == Spec /\ Fairness
=============================================================================
