# Drive_auth_edge in TLA+

Drive_auth_edge authenticates the driver of a car before a spoken payment goes
through: it probes voice, face and a stage-3 lane (finger or a Bluetooth OTP),
raises its demands with a fraud ladder, falls back to a mobile OTP or a PIN,
keeps an audit trail, drives a relay, and updates itself. This directory models
the parts of it whose correctness depends on order, interleaving, failure or
history. TLC checks them on small instances; TLAPS proves their safety for every
value of the constants.

`PROJECT.json` maps every definition to the lines it translates, lists the
runs, and for each property names a faulty variant of the code ("Faulty
variant" in the modules) under which TLC finds it violated.

## The system and its parts

How the parts call each other:

    speech worker --intercept--> DriveAuth (api.py) --authenticate--> DecisionEngine
    LLM tools --require_auth-->     |   |   |                          |  |
    phone app --mark_not_mine-->    |   |   +--> OTPStepUp, Fallback   |  +--> matchers, quality, OOD
    dashboard --/api/fraud/*--------|---|----> FraudStateMachine <-----+  +--> EscalationPolicy, PolicyEngine
                                    |   +----> AuditLog                +-----> ProfileStore (maturity)
                                    +--------> ProfileStore
    DriveAuthResult --on_result--> ActuationListener --> relay <-- ActuationWatchdog
    matchers: FingerMatcher --socket--> FingerDaemon --> sensor
              LadderOTPLane --> BluetoothOTPDelivery --> BleGattServer --> phone
    browser --standalone_auth, authenticate, status--> DashboardState --> one cached DriveAuth
    browser --register endpoints--> enrollment, consent, purge --> the driver's files
    OTAClient: on its own, on the directories of the installation

| Part | State it keeps | Operations | What is hard | What makes it correct |
|---|---|---|---|---|
| Fraud ladder, `driveauth/fraud_state.py` | state, flag times, clean streak, confirmed frauds; one JSON file for all drivers | soft flag, confirmed fraud, clean, reset, read (forgets expired flags), save, load | decay without recomputing; saves of several objects interleave in one file without a lock; a crash inside a save | locked exactly at two confirmed frauds and until reset; never milder than the live evidence; nobody pays for another's fraud; relaxes in the end |
| Decision engine, `decision_engine.py`, `escalation.py`, `policy_engine.py` | none between calls; per call the results, probes made, stage 3 reached | `authenticate`: prologue, probe loop or parallel capture, policy | hanging probes and late threads; mock sensors; two accounts of the same facts, the ladder's and the policy's | forced stage 3 is a real match; enough modalities measured; always an answer, and one the tier and rigor allow |
| Payment gate, `driveauth/api.py`, `step_up_otp.py`, `step_up_fallback.py` | cached decision with time and epochs, pending step-up and its count, OTP challenge | `intercept`, `require_auth`, `authenticate`, `_handle_reauth`, `mark_not_mine`, `new_session` | attributes without a lock, used from several threads; OTP expiry between two tests; fallbacks chained to each other | a reused decision is still good; attempts are bounded; the code asked for is the pending payment's; LOCKED stops payments; a step-up ends |
| Audit log, `driveauth/audit_log.py` | the file, the last hash in each object | open, log, verify, read | two objects on one path; an append cut short | the chain verifies after orderly use; a broken one stays broken; damage is bounded |
| OTA client, `hardware/ota_client.py` | directories `current`, `previous`, `failed`, staging | apply, roll back | power loss between any two steps, then another update | current is whole; a rollback restores; the version in use is kept while a call runs |
| Actuation, `hardware/actuation.py` | relay pin, `closed` flag, last heartbeat | start, on_result, heartbeat, stop; watchdog poll | two threads drive one pin; writes fail on either side of the effect; kill -9 | no stale close; a stale relay is opened |
| Profile store, `driveauth/profile_store.py` | a copy of the driver's statistics in each object; one JSON file shared by processes | record, seed, reset, open, `is_mature`; purge from outside | the lock is known to one process only; a copy outlives its file; wall-clock times | nothing is lost within a process; maturity rests on a history that was; the epoch tells of every transaction |
| Enrolment, consent and purge, `enrollment.py`, `consent.py`, `purge.py`, register endpoints of `dashboard/app.py` | images, clips and finger scans, home, consent record, templates, OOD baselines: all files | upload, clear, home, complete, purge | requests at once without a lock; file after file; a failure or a crash anywhere | no template without consent; a driver who cannot be enrolled again can authenticate |
| Finger daemon, `hardware/finger_daemon.py`, its client `matchers/finger.py` | socket, serving thread, event, open port | start, stop, serve, reconnect; connect, give up | a serving thread that outlives the stop that gave up on it; clients that leave | one thread drives the sensor; every client is answered or turned away |
| OTP lane, `hardware/ladder_otp.py`, `bluetooth_otp.py`, `ble_gatt_server.py`, the companion page | active server, last acknowledgement, challenge; on the phone the code shown | probe, push, notify, write, acknowledge, verify | a probe that outlives its timeout; a late acknowledgement; a delivery that arrives but is reported as failed | a match is for the probe's own code; phone, challenge and acknowledgement agree on the order of codes |
| Dashboard server, `dashboard/app.py`, `state.py` | one cached DriveAuth object and what requests put into it | standalone and manual authentication, context, status polls, reset | inputs in a shared object before the decision; one slot for several keys | a decision rests on what its own request sent; one writer of the audit chain |
| Standalone session and intent, `driveauth/standalone_session.py`, `intent.py` | none between calls; the page holds the dialogue | transcribe, merge slots | none in Python | not modelled |
| Dashboard pages, fleet server | forms and buttons in the browser; files | render, poll | answers that overtake each other in the page | not modelled |
| Matchers, scoring, keys, configuration, capture hardware, scripts | mostly none | numeric or I/O | hang, crash | their outcomes are inputs of the models |

## The modules

| Module | What it is |
|---|---|
| `DriveAuthTypes` | the rigor table, tiers, decisions, and what a report may do to a ladder's state: shared by the three modules below |
| `FraudLadder`, `FraudLadderProps`, `FraudLadder_proofs` | the ladder with its file; its properties; proofs |
| `AuthContract` | the abstract specification of one `authenticate` call: asked about a tier under a fraud state, it gives one decision that these allow |
| `BiometricLadder`, `BiometricLadderProps`, `BiometricLadder_proofs` | the engine, which implements `AuthContract` |
| `DriveAuthGate`, `DriveAuthGateProps`, `DriveAuthGate_proofs` | the payment gate. It composes the others through what they promise: an engine call answers with a member of `Outcomes` (what `KeepsContract` says, checked and proved of the engine), and a report moves the ladder to a member of `AfterSoftFlag`, `AfterConfirmedFraud` or `AfterClean` (what `StateMovesAsPromised` says, checked and proved of the ladder) |
| `AuditChain`, `AuditChainProps`, `AuditChain_proofs` | the audit log |
| `OtaClient`, `OtaClientProps`, `Vehicle_proofs` | the update client |
| `Actuation`, `ActuationProps`, `Vehicle_proofs` | listener, watchdog and relay |
| `ProfileStore`, `ProfileStoreProps`, `DriverFiles_proofs` | the objects of several processes over one profile file |
| `Registration`, `RegistrationProps`, `DriverFiles_proofs` | the register endpoints over one driver's files |
| `FingerDaemon`, `FingerDaemonProps`, `Stage3_proofs` | the finger daemon and its clients |
| `LadderOtp`, `LadderOtpProps`, `Stage3_proofs` | the OTP lane from the probe to the phone and back |
| `DashboardServer`, `DashboardServerProps`, `DashboardServer_proofs` | the cached object and the requests that use it |
| `MC*` | constants and symmetries for TLC |

A proof module extends the modules it is about, so that where two of them share
one (`Vehicle_proofs`, `DriverFiles_proofs`, `Stage3_proofs`) the second
component's behaviour has names of its own: `OtaInit`, `OtaNext`, `OtaSpec`;
`StoreInit`, `StoreNext`, `StoreSpec`; `OtpInit`, `OtpNext`, `OtpSpec`.

### FraudLadder

`mem[i]` is the fields of a `FraudStateMachine`, `disk` the file, `pc[i]` and
`buf[i]` where its `_save` is and what it is about to write. A report runs
under the object's lock, so it is one action up to the save; the save is three
(read and merge, truncate, write), since objects share no lock. `SaveFail` is an
OSError, which the code logs; `Restart` a process that dies anywhere and an
object that loads what is there. The flag list is the set of its times, which
are distinct because `RecordSoftFlag` moves the clock; the clean streak
saturates where the code stops telling values apart. BOOTSTRAP is not a ladder
state but an overlay, `EffectiveState`.

### BiometricLadder

One call after another. `Begin` reads the tier and rigor, `Probe` is one round
of the loop, `CaptureAll` the parallel path with `LateCapture` for threads that
return after their join timed out, `Policy` is `PolicyEngine.decide` with its
returns in order. A score is its distance above the modality's own bar in steps
of the trust margin (0.05), as far as the largest margin; only the comparison
with the raised bar matters. Risk and fused trust are drawn in `Policy`.
What IR liveness, PAD and quality do inside a face probe ends in "no score" or
in a borderline PAD score, and both are drawn.

### DriveAuthGate

Each thread has a `pc` at the statements where another thread can come in: after
the engine decided, between storing the result and storing the epochs, before
`_post_decision`, between a report to the ladder and `_bump_fraud_epoch`,
between the two reads of `_last_result`. `serial` says whether the host lets one
call finish before the next; both hosts are in the run, and the properties that
the code keeps only for a serialised host say so. `asof` and `epoch` in a call
and a result are what the properties compare; the code has no such fields.
`AuditFails` is the exception of an audit write, after caching. Locked
utterances and non-payments with nothing pending change nothing and are left
out, as is an exception out of the engine.

### AuditChain, OtaClient, Actuation

`AuditChain` has an entry stand for its text and a line that does not parse be
`Junk`; `LogCut` is an append of which a part, or all but the newline, gets into
the file. `OtaClient` has an action for each step between which
`apply_package` and `_rollback` can end, and `Interrupted` between any two; a
copy and an `rmtree` go through a partial directory, a rename does not.
`Actuation` splits `set_closed` into pin and flag, lets a GPIO write raise on
either side of its effect, and has `Kill` leave the pin as it is. The
watchdog's test of the heartbeat and its opening of the relay are separate steps.

### ProfileStore

`mem[o]` is `_p` of an object, `file` the JSON file. `_mutate` is two actions:
`Mutate` reloads and changes the copy, `Write` replaces the file. `LockFree` is
`_file_lock_for`, a lock per path within one process; `host` says which objects
share one. `Seed` backdates the profile and leaves its transactions to `Record`
as the code does; `ResetBootstrap` does not reload; `Purge` unlinks without the
lock. A profile carries the number of the history it belongs to, and `truth`
what was recorded in each history; the code has neither, the properties compare
with them. `SetClock` sets the wall clock forth and back.

### Registration

Each request has a `pc` at the points where another one can come in: an upload
after its check of the lock and after its file is on disk, an enrolment between
consent, listing, the three templates and the baselines, a purge between its
files. Uploads run on the event loop and give way only while their body is
awaited; the others are threads. `EnrolmentFails` is any exception out of
`enroll_driver`, at any of its steps: it ends the request with an error answer
and takes nothing back. A file is `torn` when its writer stopped within it, and
a template `tainted` when a clip went into it that the quality gate rejects.
`scan` is set by an upload and by nothing taken away: neither `register_clear`
nor a purge removes finger scans. `crossed` and `hurt` record what the
properties exempt.

### FingerDaemon

`op` is where `start` or `stop` is, `sv[g]` where the serving thread of the g-th
start is, with its client. As in the code a serving thread reads the event, the
server and the sensor anew at each step, so that one left over from an earlier
start goes on with the socket of a later one. `Join` ends when the thread has, or after
three seconds if it may be in service that long; only the latter sets
`abandoned`. `GiveUp` is the five-second timeout of `FingerMatcher`, whose
request stays with the daemon.

### LadderOtp

A probe checks the pairing, clears the last acknowledgement, notifies (or writes
the legacy characteristic), activates its challenge, and is answered from what
the phone shows. `air` and `acks` are what is under way in either direction, lost
when the link is. `LegacyWrite` may take effect and still report a failure. The
engine's timeout is that two probes may run at once, noted in `overlapped`.

### DashboardServer

`slot` is `DashboardState.auth` with its key, `objs` the objects that are cached
or in use. Each object has for every input who set it last (`by`): the thread of
a request that is still to decide, or `"past"`. The inputs are those that
requests send or leave out together: matchers and behavioral monitor, the
reader's presence, speed and the like, distance and zone, the coordinates, the
frame. `sent` is what a request sends, and `Sets` replaces that and nothing else,
as `update_vehicle_context` does: a request without a GPS fix leaves the
coordinates of the one before. `standalone_auth` awaits nothing between
`get_auth` and its answer, so standalone requests follow each other; manual ones
run in threads beside them, statement by statement, and so does `/api/context`
(`ContextAuth`, `SetContext`), which writes into the cached mock object and
decides nothing. `Decides` is `authenticate` by what it leaves: an audit entry,
of which matters whether the object knew the last one, or an exception; either
way what was sent is now past. `Poll` is a status, audit, fraud or profile
endpoint: it sets no input, but replaces the cached object when it asks for
another key.

## What the runs check

Passing runs:

| Run | Shows | Bounds, and why they are enough |
|---|---|---|
| `fraud_ladder` | the ladder's invariants, that only a reset leaves LOCKED, that states move as the gate expects, and `Relaxation`: clean authentications bring every unlocked ladder to NORMAL once objects stop being rebuilt | two objects of two drivers (all interference is pairwise, through the file), window and streak 2, clock to 2, two fraud reports per driver (the lock needs two). The safety part is proved without bounds |
| `biometric_ladder` | `RealStage3Match`, `EnoughMeasured`, `StepUpOnlyWithoutStage3`, the refinement `KeepsContract`, and `CallAnswered` | none on calls: a call returns to the initial state. Scores 0, 1, 2, 4 lie on both sides of every bar for margins 0 to 3; all lane orders, tiers and fraud states |
| `gate` | `ReuseIsSound` and `LockStopsPayments` for serialised hosts, `AttemptsBounded`, `ChallengeIsForPending` and `StepUpEnds` for all | two engine calls (one where threads interleave), not counting rechecks, and one fraud report; STEP_UP_RETRIES 2 and OTP_MAX_TRIES 3 are the shipped values. A reuse needs a decision, a report and a request; a step-up one decision and up to three answers |
| `audit_chain` | `OrderlyVerifies`, `BrokenStaysBroken`, `DamageBounded` | two objects, five entries: a fork, a cut line, its loss and an entry after it |
| `ota_client` | `CurrentIsWhole`, `RollbackRestores`, `OldVersionKept` | three versions, two of them healthy; any number of updates and interruptions |
| `actuation` | `NoStaleClose`, `StaleOpens` | timeout 2 ticks; any number of results, failures and restarts |
| `profile_store` | `LostOnlyBySharing`, `MatureIsEarned`, `EpochMoves` | two objects, in one process or two (all interference is pairwise, through the file), clock to 2, two transactions of a history, two histories; MinTxns 2, MinAge 1 and StaleAfter 0 let a profile become mature and stale again |
| `registration` | `ConsentKept`, `LockedIsUsable` | two requests at once, any number after each other, each free to fail. Proved without bounds |
| `finger_daemon` | `OneServer`, `ClientAnswered` | two clients, so that one waits behind another; three starts, so that a leftover thread meets a later socket and a later thread. `OneServer` is proved without bounds |
| `ladder_otp` | `LaneInOrder` | two probe threads, three codes (one late, one current, one next), two messages under way, one try |
| `dashboard_server` | `OwnInputs`, `OneAuditWriter` | two threads that run manual or context requests beside the standalone one, three requests of any kind, any number of polls and resets; an object for each holder and one cached. Three requests are a user of an object, one before it and one beside it; both properties are proved without bounds |

Several properties name what they exempt, because the code does not keep them
there. Most exemptions are history variables, set by the actions in question
and by nothing else:

| Property | Does not speak of | Because |
|---|---|---|
| `ReuseIsSound`, `LockStopsPayments` | hosts that do not serialise their calls | the cache has no lock |
| `OrderlyVerifies` | objects open at once on one path, cut appends | each chains on from its own hash |
| `LostOnlyBySharing` | `spoilt`: mutations of two processes overlapped, a read or write failed, a process died before its write; purged histories | the lock is per process, errors are logged, a copy outlives its file |
| `EpochMoves` | a clock set back, a history begun anew, purged or `spoilt` | a count plus a time |
| `ConsentKept` | `crossed`: an enrolment and a purge at once | neither takes a lock |
| `LockedIsUsable` | `crossed`, and `hurt`: a purge of a driver whose id ends this one's, an enrolment beside a clip being judged, a crash in either, an enrolment that fails within a template or after both | see the divergences below |
| `OneServer` | `abandoned`: a stop gave up waiting for its thread | the thread goes on; `ClientAnswered` has no exemption |
| `LaneInOrder` | `overlapped`: a probe began while another ran; for the acknowledgement, `crossed`: an older one was still to come | probes that time out go on; the acknowledgement event is cleared once, at the push |
| `OwnInputs` | `crowded` objects, used by two requests at once, context requests included; inputs that a request does not send | inputs are attributes of the object, and only what is sent is replaced |
| `OneAuditWriter` | `overtaken`: an object was loaded while another was in use | one slot, several keys |

Runs that do not check deadlock are those in which the system may stop: in
`gate` and `gate_stale` a host whose calls are used up, in `finger_daemon` a
daemon that is stopped and whose starts are used up, in `ladder_otp` and
`dashboard_server` likewise codes and requests.

A run that ends in a violation, of something the repository says of itself:

| Run | The repository says | The program does |
|---|---|---|
| `gate_stale` | `require_auth` reuses an ACCEPT only while the fraud epoch is unchanged (`api.py:484`) | the epochs are read after the decision: a report during `authenticate` is taken for one before it, and the ACCEPT is reused |

Other divergences met while modelling, found by reading or by TLC on a module
here, without a run of their own. Between what the repository says and does:

- A lock ends by "reset only" (`README.md:261`); a crash between truncating and
  writing `ladder.json` loses it (`fraud_state.py:86`).
- "Suspicion always wins over mere novelty" (`fraud_state.py:169`); the first
  soft flag takes an immature driver from the bootstrap rigor to the elevated
  one, which forces no stage 3 (`fraud_state.py:184`).
- "min_modalities counts confident matches" (`tests/test_production.py:203`); it
  counts modalities with a score, mismatches included (`decision_engine.py:722`).
- The update client keeps the previous version for rollback (`ota_client.py:3`);
  an interrupted update followed by an unhealthy one leaves no healthy version
  (`ota_client.py:122`).
- The watchdog opens the relay after kill -9 (`actuation.py:7`); it is a thread
  of the killed process (`actuation.py:203`). `StaleOpens` is about a process
  that lives.
- Nothing is left after a purge (`docs/biometric-data-policy.md:37`); an object
  that still has the profile writes it back with its next transaction
  (`profile_store.py:95`, `:147`), and the PIN is unlinked under `.pin` while
  enrolment writes `.enc` (`purge.py:90`).
- A missing OOD baseline fails closed (`docs/security-assumptions.md:38`,
  `ood_detector.py:3`); it lowers the confidence, which the ladder does not ask
  for when it accepts.
- A finger scan is for "optional enroll" (`app.py:1312`), and drivers without
  one are a "scoping decision" (`docs/security-assumptions.md:232`); an
  uploaded scan that cannot be embedded, as when `fingernet_lite_int8.onnx` is
  not installed, makes the enrolment fail after voice and face are written
  (`enrollment.py:299`, `:497`). The driver is locked, without baselines, and
  after a purge the scan, which nothing removes, fails the next enrolment too.
- "Drop null GPS so RiskContext keeps Optional defaults cleanly" (`app.py:1750`);
  the context is the cached object's, and what a request does not send is what
  an earlier one sent (`api.py:414`), so a decision may go by an old location
  (`profile_store.py:214`). A standalone request without a fix keeps distance
  and zone as well (`app.py:1669`).
- A payment starts with voice only, and each rung is unlocked by the one before
  (`docs/standalone.md:106`); the answer to an authorisation under way unlocks
  for a clip recorded since (`standalone_ui.py:604`).

In the order of steps:

- `fraud_state.py:91` compares wall-clock times: a clock set back keeps flags.
- `decision_engine.py:360` reads the effective state again for the result, after
  the rigor; a report in between makes the two differ. `:304` and `:383` read
  the OTP lane twice.
- `step_up_otp.py:149` counts a try without a lock: two answers at once may use
  one.
- `finger_daemon.py:115`: a serving thread that outlives its stop opens the
  sensor again, and beside the thread of the next start serves its socket.
- `purge.py:56` takes the baselines of every driver whose id ends in `_` and
  the purged one.
- `enrollment.py:503`: templates come before baselines and neutral baselines
  before the driver's own; a crash in between leaves a driver who is locked and
  without baselines of their own. A torn template counts as enrolled.
- `app.py:1271`: a clip is on disk before it is judged.
- `app.py`: a poll for mock matchers evicts the live object and the other way
  round; loading an object as mature seeds its profile again after
  `/api/profile/bootstrap`; two demo requests at once leave the stand-in of the
  OTP lane for good; a manual request on a live object goes by the finger score
  and the frame of an earlier request.

And smaller ones:

- A non-payment utterance during a step-up is an attempt at its code or PIN:
  `intercept` looks at `_pending` (`api.py:557`) before the comment at
  `api.py:560` ("Non-payment commands must NEVER invoke payment auth").
- The recheck of a step-up caches an ACCEPT that is in no audit entry
  (`api.py:706`), against `audit_log.py:1`, "for every authentication decision".
- After a partial write the lenient reader loses the next entry as well, which
  lands on the same line; `audit_log.py:194` speaks of "intact neighbors".
- `README.md:231` has a mock finger on a high-value payment end in REJECT; with
  nothing else reached the policy gives STEP_UP_REQUIRED
  (`policy_engine.py:138`).
- An OTP that could not be delivered counts as a reached stage 3
  (`decision_engine.py:448`), so the driver is rejected rather than offered the
  mobile step-up.
- On a first install that fails its health check `last_rollback` is set though
  nothing was rolled back (`ota_client.py:135`, `:144`).

## Fairness

- `FraudLadder`: weak fairness of `Save`, a thread that holds the lock and runs
  on; and of `RecordClean`, an assumption about the driver and not about the
  code: `Relaxation` is about a driver who keeps authenticating cleanly.
- `BiometricLadder`: weak fairness of `Step`. Each probe is joined with
  `CAPTURE_JOIN_TIMEOUT_S`, so the calling thread always comes back.
- `DriveAuthGate`: weak fairness of each thread's statements, since nothing in
  them waits; strong fairness of `Answer`: a driver who is asked keeps
  talking, and the worker serves other calls in between.
- `Actuation`: weak fairness of the watchdog thread, strong fairness of a
  successful opening: a relay does not fail at every attempt for ever. Nothing
  is assumed of the decision loop or of a relaunch.
- `FingerDaemon`: weak fairness of the steps of `stop` and of each serving
  thread: reads from a client, captures and joins have timeouts, and nothing
  else waits. Nothing is assumed of clients or of the owner's calls.
- The other modules state no liveness and assume no fairness.

## What is proved

TLAPS checks the proofs for every value of the constants that satisfies the
named assumptions of the modules (`DriverAssumption`, `WindowAssumption`,
`CleanStreakAssumption`, `BoundAssumption`; `ScoresAssumption`,
`OrdersAssumption`; `PaymentsAssumption`, `RetriesAssumption`, `TriesAssumption`;
`MaxAssumption`; `HealthyAssumption`; `TimeoutAssumption`; `ProfileAssumption`,
`ProfileBoundAssumption`; `StartsAssumption`; `OtpAssumption`;
`ServerAssumption`, which gives every holder an object to load). Every
invariant and action property the passing runs check is stated by one of the
theorems, and so is the refinement.

- `FraudLadder_proofs`: `TypeCorrect`, `LockCorrect`, `StrictEnough`,
  `NoBorrowedFraud`, `LockHolds`, `StateMoves`. The inductive invariant asks of
  every record, in an object, in the buffer of a running save and in the file,
  that it has its type, is locked exactly at two confirmed frauds, counts no
  more of them than were reported for its driver, and is as strict as its live
  evidence. The invariants alone are not inductive: a restart turns a stored
  record into an object, so what is asked of objects must hold of every record
  that can be loaded, and a save merges records that other saves wrote. One
  lemma per operation on a ladder (`RecomputeSound`, `SoftFlagSound`,
  `ConfirmedFraudSound`, `CleanSound`, `DecaySound`) carries the argument, and
  the steps of a save only move records between copies.
- `BiometricLadder_proofs`: `LadderTypes`, `RealMatch`, `Enough`, `StepUps`,
  `Implements`. The policy sees a proposal, `stage3` and the scores, the
  properties ask for the probes behind them. The invariant connects the two:
  a score is there only of a modality that was probed, `stage3` says what was
  reached, whatever was proposed cleared its bar, and as stage 3 comes only
  after voice and face (`VoiceAndFaceFirst`), what is proposed when it is forced
  is a stage-3 lane (`Laddered`); the parallel capture proposes nothing, and a
  late result takes no finger away (`CapturedAll`); a decision is `Decide` of
  what is still there (`Decided`). `AcceptHasReason` then reads the conditions
  of an ACCEPT off the policy, and `MeasuredCount` turns its sum into the
  cardinality of the measured modalities. `Implements` is the refinement of
  `AuthContract`: `Begin` is its `Ask`, `Policy` its `Answer`, `Return` its
  `Take`, and every other step stutters; `DecideAllowed` says that the policy
  never leaves `Outcomes`.
- `DriveAuthGate_proofs`: `GateTypes`, `ReuseSound`, `AttemptsCount`,
  `RightChallenge`, `NoneUnderLock`. The step-up properties hold on every host,
  because only the speech worker touches the step-up: the invariant says, for
  the statement it is at, whether the attempt in hand is counted already
  (`Attempts`). Those of the cache and of LOCKED need that a serialised host
  has nobody else between two statements of a call (`Alone`), that a payment
  under way was let in unlocked (`Unlocked`), and what a cached decision and
  the epochs beside it owe to the report count when each was taken
  (`CacheInv`).
- `AuditChain_proofs`: `FileTypes`, `OrderlyCorrect`, `EvidenceStays`,
  `DamageCounted`. The chain alone is not inductive. What is: as long as use was
  orderly, the chain verifies, the last line is ended, at most one object is
  open, and its hash is the tail of the file. That no append mends a chain needs
  only that an append leaves the earlier lines or makes the last one junk. For
  the damage, the entries the reader does not return, and one more while the
  last line is not ended, are at most the cuts (`Damage`): the entry of an
  unended line is already lost, or the next append loses it.
- `Vehicle_proofs`: `TypeCorrect`, `NothingStale` of the relay; `OtaTypeCorrect`,
  `Atomic`, `RollsBack`, `KeepsOldVersion` of the update client. `NoStaleClose`
  speaks of a listener at rest; inductive is that a closed relay is accounted
  for (by the latest ACCEPT or a failed opening) at every statement but the one
  about to open it, that the closing statements are only reached on ACCEPT, and
  that a process killed with the relay closed has it noted as stuck. The
  update client's invariant follows the version found as current through the
  directories, step by step: still current until it is kept, previous after
  that, and current again after a rollback.
- `DriverFiles_proofs`: `Consents`, `Usable` of enrolment. The properties speak
  of files at rest, the invariant of requests on their way: enrolments and
  purges do not meet; an enrolment past its check has found the consent; a
  purge under way has taken the templates already, and the consent goes last;
  the voice template is there before the face; no enrolment lists a clip that
  will be removed; and as long as a locked driver lacks baselines and nothing
  was hurt, some enrolment is still to write them: one that fails at that point
  is what `hurt` records.
  `StoreTypes`, `NothingLost`, `EarnedMaturity`, `EpochChanges` of the profile.
  No copy, in an object or in the file, has more transactions, a later last one
  or an earlier beginning than its history (`Backs`); this survives everything,
  lost updates and a clock set back included, and is all that maturity needs.
  Nothing is lost because, until something is `spoilt`, at most one object is
  between its reload and its write, and it has all of its history
  (`AllRecorded`); the epoch moves because no idle object has more of a history
  than the file has (`FileIsAhead`). All mutations share one step lemma
  (`MutatedStep`), all that reopens a copy another (`ReopenedStep`).
- `Stage3_proofs`: `OneServes` of the finger daemon. That there is one serving
  thread is not inductive; that whoever serves is the thread `start` knows of
  is, with what each statement of `stop` has released already. It uses the
  cardinality of subsets of a singleton from `FiniteSetTheorems`.
  `LaneKeepsOrder` of the OTP lane: while probes take turns, the one that runs
  has the newest code (`OneByOne`), and what the phone shows or is about to
  receive is no newer than the challenge, was reported as failed, or is the code
  that becomes the challenge next (`OtpOrder`). The acknowledgement needs no
  turns: as long as nothing crossed the latest push, all that is under way is
  that push (`AckOrder`).
- `DashboardServer_proofs`: `ServerTypes`, `OwnsInputs`, `WritesAlone`. An
  object that is not crowded has one holder (`OneHolder`); each statement of
  that holder leaves what its later ones rely on (`LiveOwn`, `ManualOwn`): the
  inputs it has sent so far are its own, and the lane a demo will put back is
  the real one; and an object nobody holds has the real lane (`NobodysOwn`).
  For the audit chain: until an object is loaded beside one in use, all that
  are held or cached are one, and it knows the last entry (`OneObject`). The
  types need the assumption on `Objects`: a new object is none that is in use.

Only model-checked: liveness (`Relaxation`, `CallAnswered`, `StepUpEnds`,
`StaleOpens`, `ClientAnswered`), which is out of the prover's reach as ENABLED
is.

## What is not modelled

- Scoring (matchers, fusion, risk, quality, OOD): numerical and stateless; the
  models take its outcomes as inputs. Numbers in floating point have no faithful
  counterpart in TLA+.
- Keys, secrets and manifests: calls to cryptographic libraries. Hashes and
  signatures are taken to have no collisions, the audit chain's hash is an
  identity.
- Configuration, telemetry, capture drivers: input and output. A probe that
  hangs or gives nothing is in `BiometricLadder`.
- Standalone session and intent: functions of one utterance that call speech and
  language services; they keep nothing between calls.
- Dashboard pages and the fleet server: HTML and JavaScript inside Python files,
  and views over files. The standalone page keeps the dialogue; as a client of
  `DashboardServer` it multiplies the states beyond what TLC finishes.
- Scripts, the demo and examples: tools beside the program.

Pages, scripts, numeric code and I/O are most of the lines of the repository,
which is why the modules map about a tenth of them: what keeps state that
several actors share, or that must survive a failure, is modelled.

Within the modelled parts `PROJECT.json` names what is left out of each.

## Plan

1. Done: the fraud ladder, the engine and its contract, the gate, the audit log,
   the update client, the relay, the profile store, enrolment and purge, the
   finger daemon, the OTP lane and the dashboard server, each with the proofs
   of its safety.
2. Proofs to come: the composition of gate and engine as a theorem, with the
   contract's steps in place of the gate's own choice of an answer; lemmas that
   order the rigor table by strictness.
3. Modules to come, if they earn their place: the risk bands and the fusion as
   operators over small integers, checked against a reference; the profile
   store composed with the gate in place of the gate's counter.
