--------------------------- MODULE DashboardServer ---------------------------
(***************************************************************************)
(* The DriveAuth objects of the dashboard (dashboard/app.py, state.py):    *)
(* one cached object, keyed by driver and by whether its matchers are      *)
(* mocks, and the requests that put their inputs into it before it decides.*)
(*                                                                         *)
(* standalone_auth is a coroutine that awaits only its uploads: from       *)
(* get_auth to the answer no other coroutine runs.  authenticate, the      *)
(* context endpoint and the status endpoints are plain functions and run   *)
(* in threads of their own beside it.                                      *)
(*                                                                         *)
(* Each input of an object is marked with the request that set it: "live", *)
(* the thread of a request, or "past", once that request has decided.  The *)
(* decision itself is BiometricLadder, its audit entry AuditChain; maturity*)
(* and fraud reports are left to ProfileStore and DriveAuthGate.           *)
(***************************************************************************)
EXTENDS Naturals, FiniteSets

CONSTANTS Manuals,     \* threads that run /api/authenticate or /api/context
          Objects,     \* DriveAuth objects, enough for all that hold one
          None,        \* Python's None
          MaxRequests  \* bound: standalone, manual and context requests

ASSUME ServerAssumption ==
  /\ MaxRequests \in Nat
  /\ Manuals \cap {"live", "past"} = {} /\ None \notin Objects
  /\ Cardinality(Objects) >= Cardinality(Manuals) + 2

VARIABLES
  want_mock,  \* DRIVEAUTH_USE_MOCK
  slot,       \* DashboardState.auth: an object, or None
  objs,       \* the DriveAuth objects
  live,       \* the standalone request on the event loop
  mn,         \* thread -> where it is, its object, what its request sends
  forked,     \* history: an object appended after an entry it did not know
  overtaken,  \* history: an object was loaded while another was in use
  requests    \* how many requests there have been

serverVars == <<want_mock, slot, objs, live, mn, forked, overtaken, requests>>

-----------------------------------------------------------------------------
Drivers == {"default", "other"}
Key(driver, mock) == [driver |-> driver, mock |-> mock]

Scores ==   \* mock matchers and behavioral monitor; fingerprint_available
  {"matchers", "reader"}
Context ==  \* _risk_ctx: speed, ignition, tunnel, accuracy; distance and
            \* trusted zone; the coordinates
  {"motion", "zone", "gps"}
Inputs == Scores \cup Context \cup {"frame"}  \* inject_bgr

(* What a request sends: the coordinates only if it has both; a standalone *)
(* one sends distance and zone along with them, and a face if it has one;  *)
(* a manual one sends scores to mocks, else fingerprint_available or not.  *)
StandaloneSends ==
  {Scores \cup {"motion"} \cup face \cup gps :
     face \in {{}, {"frame"}}, gps \in {{}, {"zone", "gps"}}}
ContextSends == {Context, Context \ {"gps"}}
ManualSends ==
  {context \cup scores :
     context \in ContextSends,
     scores \in IF want_mock THEN {Scores} ELSE {{}, {"reader"}}}

(* Faulty variant: an AuditLog is opened without reading the tail.         *)
LoadedWithoutTail(key) ==
  [key |-> key, by |-> [i \in Inputs |-> "past"], otp |-> "lane",
   fresh |-> FALSE, crowded |-> FALSE]

Loaded(key) ==
  [key |-> key,
   by |-> [i \in Inputs |-> "past"],  \* who set each input
   otp |-> "lane",     \* _ladder_otp: the lane, or the stand-in of a demo
   fresh |-> TRUE,     \* AuditLog._last_hash is that of the last entry
   crowded |-> FALSE]  \* history: two requests have used it at once

NoObject == [Loaded(Key("default", TRUE)) EXCEPT !.fresh = FALSE]
NoLive == [at |-> "idle", obj |-> None, sent |-> {}]
NoManual ==
  [at |-> "idle", obj |-> None, sent |-> {}, demo |-> FALSE, prev |-> "lane"]

Init ==
  /\ want_mock \in BOOLEAN
  /\ slot = None /\ objs = [o \in Objects |-> NoObject]
  /\ live = NoLive
  /\ mn = [m \in Manuals |-> NoManual]
  /\ forked = FALSE /\ overtaken = FALSE /\ requests = 0

(* The objects requests hold.                                              *)
InUse == ({live.obj} \cup {mn[m].obj : m \in Manuals}) \ {None}

(* An object that is neither held nor cached is gone.                      *)
Collected(f, kept) == [o \in Objects |-> IF o \in kept THEN f[o] ELSE NoObject]

(* who sets inputs of the object r; only what is sent is replaced.         *)
Sets(r, who, inputs) ==
  [r EXCEPT !.by = [i \in Inputs |-> IF i \in inputs THEN who ELSE r.by[i]]]

(* who has decided: what it has set stays on the objects.                  *)
Past(f, who) ==
  [o \in Objects |->
     [f[o] EXCEPT !.by =
        [i \in Inputs |-> IF f[o].by[i] = who THEN "past" ELSE f[o].by[i]]]]

-----------------------------------------------------------------------------
(* get_auth under the lock of the state: the cached object if its key is   *)
(* the one asked for, else a new one in its place.                         *)
Hit(key) == slot # None /\ objs[slot].key = key

Load(key) ==
  /\ \E o \in Objects \ InUse :
       /\ slot' = o
       /\ objs' = Collected([objs EXCEPT ![o] = Loaded(key)], InUse \cup {o})
  /\ overtaken' = (overtaken \/ InUse # {})

(* By a request that keeps the object while it decides.                    *)
GetAuth(key) ==
  IF Hit(key)
  THEN /\ objs' = [objs EXCEPT ![slot].crowded = @ \/ slot \in InUse]
       /\ UNCHANGED <<slot, overtaken>>
  ELSE Load(key)

Starts == requests < MaxRequests /\ requests' = requests + 1

(* An object is asked to decide, and AuditLog.log_decision chains on from  *)
(* its own last hash; or there is an exception, and no entry.              *)
Decides(o, who) ==
  \/ /\ forked' = (forked \/ ~objs[o].fresh)
     /\ objs' = Past([p \in Objects |-> [objs[p] EXCEPT !.fresh = (p = o)]], who)
  \/ objs' = Past(objs, who) /\ UNCHANGED forked

-----------------------------------------------------------------------------
(* standalone_auth; a request refused for its uploads touches no object.   *)
LiveAuth ==
  /\ live.at = "idle" /\ Starts
  /\ \E driver \in Drivers, sent \in StandaloneSends :
       /\ GetAuth(Key(driver, FALSE))
       /\ live' = [at |-> "scores", obj |-> slot', sent |-> sent]
  /\ UNCHANGED <<want_mock, mn, forked>>

LiveAt(at) == live' = [live EXCEPT !.at = at]

(* The object turns out to have mock matchers: it stays in the slot.       *)
NotLive ==
  /\ live.at = "scores"
  /\ live' = NoLive
  /\ UNCHANGED <<want_mock, slot, objs, mn, forked, overtaken, requests>>

(* _apply_finger_manual and the behavioral monitor.                        *)
ApplyScores ==
  /\ live.at = "scores"
  /\ objs' = [objs EXCEPT ![live.obj] = Sets(@, "live", live.sent \cap Scores)]
  /\ LiveAt("inputs")
  /\ UNCHANGED <<want_mock, slot, mn, forked, overtaken, requests>>

(* inject_bgr and update_vehicle_context.                                  *)
ApplyInputs ==
  /\ live.at = "inputs"
  /\ objs' = [objs EXCEPT ![live.obj] = Sets(@, "live", live.sent \ Scores)]
  /\ LiveAt("decide")
  /\ UNCHANGED <<want_mock, slot, mn, forked, overtaken, requests>>

LiveDecides ==
  /\ live.at = "decide"
  /\ Decides(live.obj, "live")
  /\ live' = [live EXCEPT !.at = "answer", !.sent = {}]
  /\ UNCHANGED <<want_mock, slot, mn, overtaken, requests>>

LiveAnswers ==
  /\ live.at = "answer"
  /\ live' = NoLive
  /\ objs' = Collected(objs, {slot} \cup {mn[m].obj : m \in Manuals})
  /\ UNCHANGED <<want_mock, slot, mn, forked, overtaken, requests>>

Standalone ==
  LiveAuth \/ NotLive \/ ApplyScores \/ ApplyInputs \/ LiveDecides
    \/ LiveAnswers

-----------------------------------------------------------------------------
(* authenticate, in the thread m; and update_context.                      *)
MnAt(m, at) == mn' = [mn EXCEPT ![m].at = at]

ManualAuth(m) ==
  /\ mn[m].at = "idle" /\ Starts
  /\ GetAuth(Key("default", want_mock))
  /\ \E demo \in BOOLEAN, sent \in ManualSends :
       mn' = [mn EXCEPT ![m] = [at |-> "scores", obj |-> slot', sent |-> sent,
                                demo |-> demo, prev |-> "lane"]]
  /\ UNCHANGED <<want_mock, live, forked>>

(* The thread is done with its object.                                     *)
Leave(m, f) ==
  /\ mn' = [mn EXCEPT ![m] = NoManual]
  /\ objs' = Collected(f, {live.obj, slot} \cup {mn[k].obj : k \in Manuals \ {m}})
  /\ UNCHANGED <<want_mock, slot, live, forked, overtaken, requests>>

(* _apply_mock_scores, and fingerprint_available if the request names it.  *)
ManualScores(m) ==
  /\ mn[m].at = "scores"
  /\ objs' = [objs EXCEPT ![mn[m].obj] = Sets(@, m, mn[m].sent \cap Scores)]
  /\ MnAt(m, "save_otp")
  /\ UNCHANGED <<want_mock, slot, live, forked, overtaken, requests>>

(* The mock scores are in, but seed_baselines raises.                      *)
ScoresFail(m) ==
  /\ mn[m].at = "scores" /\ want_mock
  /\ Leave(m, [objs EXCEPT ![mn[m].obj] = Sets(@, "past", Scores)])

SaveOtp(m) ==
  /\ mn[m].at = "save_otp"
  /\ mn' = [mn EXCEPT ![m] = [@ EXCEPT !.prev = objs[mn[m].obj].otp,
                                       !.at = "set_otp"]]
  /\ UNCHANGED <<want_mock, slot, objs, live, forked, overtaken, requests>>

(* The stand-in, for a demo, and update_vehicle_context without what is    *)
(* null.                                                                   *)
SetOtp(m) ==
  /\ mn[m].at = "set_otp"
  /\ LET r == Sets(objs[mn[m].obj], m, mn[m].sent \ Scores)
     IN  objs' = [objs EXCEPT ![mn[m].obj] =
                   [r EXCEPT !.otp = IF mn[m].demo THEN "demo" ELSE r.otp]]
  /\ MnAt(m, "decide")
  /\ UNCHANGED <<want_mock, slot, live, forked, overtaken, requests>>

ManualDecides(m) ==
  /\ mn[m].at = "decide"
  /\ Decides(mn[m].obj, m)
  /\ mn' = [mn EXCEPT ![m] = [@ EXCEPT !.at = "restore", !.sent = {}]]
  /\ UNCHANGED <<want_mock, slot, live, overtaken, requests>>

(* Faulty variant: the stand-in is left installed.                         *)
RestoreNothing(m) == mn[m].at = "restore" /\ Leave(m, objs)

(* The finally clause, after an exception too.                             *)
Restore(m) ==
  /\ mn[m].at = "restore"
  /\ Leave(m, [objs EXCEPT ![mn[m].obj].otp =
                IF mn[m].demo THEN mn[m].prev ELSE @])

(* update_context: it sets the context of the mock object while requests   *)
(* may be using it (the mocks' behavioral monitor takes no data).          *)
ContextAuth(m) ==
  /\ mn[m].at = "idle" /\ Starts
  /\ GetAuth(Key("default", TRUE))
  /\ mn' = [mn EXCEPT ![m] = [NoManual EXCEPT !.at = "context", !.obj = slot']]
  /\ UNCHANGED <<want_mock, live, forked>>

SetContext(m) ==
  /\ mn[m].at = "context"
  /\ \E sent \in ContextSends :
       Leave(m, [objs EXCEPT ![mn[m].obj] = Sets(@, "past", sent)])

Manual(m) ==
  ManualAuth(m) \/ ManualScores(m) \/ ScoresFail(m) \/ SaveOtp(m) \/ SetOtp(m)
    \/ ManualDecides(m) \/ Restore(m) \/ ContextAuth(m) \/ SetContext(m)

-----------------------------------------------------------------------------
(* The status, audit, fraud and profile endpoints ask for an object of one *)
(* key or the other, and set none of the inputs above.                     *)
Poll ==
  /\ \E mock \in {TRUE, want_mock} :
       ~Hit(Key("default", mock)) /\ Load(Key("default", mock))
  /\ UNCHANGED <<want_mock, live, mn, forked, requests>>

(* DashboardState.clear, of reset_auth; its get_auth is a Poll.            *)
Clear ==
  /\ slot # None /\ slot' = None
  /\ objs' = Collected(objs, InUse)
  /\ UNCHANGED <<want_mock, live, mn, forked, overtaken, requests>>

Next == Standalone \/ (\E m \in Manuals : Manual(m)) \/ Poll \/ Clear

Spec == Init /\ [][Next]_serverVars
=============================================================================
