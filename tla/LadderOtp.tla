----------------------------- MODULE LadderOtp -----------------------------
(***************************************************************************)
(* The OTP lane of stage 3: LadderOTPLane.probe (hardware/ladder_otp.py)   *)
(* sends a code through BluetoothOTPDelivery (hardware/bluetooth_otp.py)   *)
(* and the GATT server of the car (hardware/ble_gatt_server.py) to the     *)
(* companion page on the phone (companion/ble_otp_pwa/app.js), which shows *)
(* it and writes an acknowledgement back.                                  *)
(*                                                                         *)
(* The engine runs every probe in a thread of its own and stops waiting    *)
(* for it after six seconds, so that a probe may still be running when the *)
(* next one starts (decision_engine.py:165).  Codes are numbered in the    *)
(* order they are drawn.  The contact is registered.  MAP delivery always  *)
(* declines and changes nothing.                                           *)
(***************************************************************************)
EXTENDS Naturals, Sequences, FiniteSets, SequencesExt

CONSTANTS Probes,        \* threads that run probes
          LadderTries,   \* OTP_MAX_TRIES
          MaxCodes,      \* bound: codes drawn
          MaxAir         \* bound: notifications or acknowledgements under way

ASSUME OtpAssumption ==
  LadderTries \in Nat \ {0} /\ MaxCodes \in Nat /\ MaxAir \in Nat \ {0}

VARIABLES
  running,    \* the GATT server runs and is the active one
  phone,      \* the phone that is connected
  heard,      \* whether it has subscribed to the OTP characteristic
  air,        \* notifications under way to the phone
  shown,      \* the code the driver's phone shows, 0 before the first
  acks,       \* acknowledgements under way to the car
  last_ack,   \* _last_ack: a code, or 0 for None
  ack_event,  \* _ack_event
  otp,        \* _active, the challenge of the lane
  pr,         \* probe thread -> where it is, its code and its score
  codes,      \* codes drawn so far
  pushed,     \* history: the code pushed last
  failed,     \* history: codes whose delivery was reported as failed
  overlapped, \* history: two probes have run at the same time
  crossed     \* history: an acknowledgement of an older code was still to
              \* come when the code pushed last was pushed

radio == <<running, phone, heard, air, shown, acks>>
ackVars == <<last_ack, ack_event>>
otpVars == <<radio, ackVars, otp, pr, codes, pushed, failed, overlapped,
             crossed>>

-----------------------------------------------------------------------------
NoChallenge == [code |-> 0, tries |-> 0, lapsed |-> FALSE]
Resting == [at |-> "idle", code |-> 0, score |-> "none", of |-> 0]

OtpInit ==
  /\ running \in BOOLEAN
  /\ phone = "none" /\ heard = FALSE /\ air = <<>> /\ shown = 0
  /\ acks = <<>> /\ last_ack = 0 /\ ack_event = FALSE
  /\ otp = NoChallenge /\ pr = [p \in Probes |-> Resting]
  /\ codes = 0 /\ pushed = 0 /\ failed = {}
  /\ overlapped = FALSE /\ crossed = FALSE

At(p, at) == pr' = [pr EXCEPT ![p].at = at]

(* A probe ends with a score, or none; of: the challenge it was scored on. *)
Ends(p, score, of) ==
  pr' = [pr EXCEPT ![p] = [@ EXCEPT !.at = "idle", !.score = score, !.of = of]]

-----------------------------------------------------------------------------
(* LadderOTPLane.probe and OTPStepUp.send: a new code is drawn.            *)
Begin(p) ==
  /\ pr[p].at = "idle" /\ codes < MaxCodes
  /\ codes' = codes + 1
  /\ pr' = [pr EXCEPT ![p] =
              [Resting EXCEPT !.at = "check", !.code = codes + 1]]
  /\ overlapped' = (overlapped \/ \E q \in Probes : pr[q].at # "idle")
  /\ UNCHANGED <<radio, ackVars, otp, pushed, failed, crossed>>

(* deliver: only to the registered phone, and only while it is connected.  *)
CheckPaired(p) ==
  /\ pr[p].at = "check"
  /\ IF phone = "own" THEN At(p, "push") ELSE Ends(p, "unavailable", 0)
  /\ failed' = IF phone = "own" THEN failed ELSE failed \cup {pr[p].code}
  /\ UNCHANGED <<radio, ackVars, otp, codes, pushed, overlapped, crossed>>

(* push_payload forgets the last acknowledgement ...                       *)
ClearAck(p) ==
  /\ pr[p].at = "push" /\ running
  /\ last_ack' = 0 /\ ack_event' = FALSE
  /\ At(p, "notify")
  /\ UNCHANGED <<radio, otp, codes, pushed, failed, overlapped, crossed>>

OnAir(code) == IF heard THEN Append(air, code) ELSE air

(* ... and notifies: nobody need have subscribed for it to report success. *)
Notify(p) ==
  /\ pr[p].at = "notify"
  /\ \/ /\ running /\ Len(air) < MaxAir
        /\ air' = OnAir(pr[p].code)
        /\ At(p, "activate") /\ UNCHANGED failed
     \/ /\ UNCHANGED air
        /\ Ends(p, "unavailable", 0) /\ failed' = failed \cup {pr[p].code}
  /\ pushed' = pr[p].code
  /\ crossed' = (acks # <<>> \/ air # <<>> \/ ack_event)
  /\ UNCHANGED <<running, phone, heard, shown, acks, ackVars, otp, codes,
                 overlapped>>

(* Without a server the code is written to a characteristic of the phone;  *)
(* the write may fail, or reach the phone and only its reply be lost.      *)
LegacyWrite(p) ==
  /\ pr[p].at = "push" /\ ~running
  /\ \/ /\ phone = "own" /\ shown' = pr[p].code
        /\ \/ At(p, "activate") /\ UNCHANGED failed
           \/ Ends(p, "unavailable", 0) /\ failed' = failed \cup {pr[p].code}
     \/ /\ UNCHANGED shown
        /\ Ends(p, "unavailable", 0) /\ failed' = failed \cup {pr[p].code}
  /\ UNCHANGED <<running, phone, heard, air, acks, ackVars, otp, codes,
                 pushed, overlapped, crossed>>

(* Faulty variant: a challenge that still runs is kept.                    *)
ActivateFirst(p) ==
  /\ pr[p].at = "activate"
  /\ otp' = IF otp # NoChallenge /\ ~otp.lapsed THEN otp
            ELSE [code |-> pr[p].code, tries |-> LadderTries, lapsed |-> FALSE]
  /\ At(p, "answer")
  /\ UNCHANGED <<radio, ackVars, codes, pushed, failed, overlapped, crossed>>

(* OTPStepUp._activate: the challenge replaces the one before.             *)
Activate(p) ==
  /\ pr[p].at = "activate"
  /\ otp' = [code |-> pr[p].code, tries |-> LadderTries, lapsed |-> FALSE]
  /\ At(p, "answer")
  /\ UNCHANGED <<radio, ackVars, codes, pushed, failed, overlapped, crossed>>

(* Without a code_provider nobody answers, and the challenge stays.        *)
NoAnswer(p) ==
  /\ pr[p].at = "answer"
  /\ Ends(p, "none", 0)
  /\ UNCHANGED <<radio, ackVars, otp, codes, pushed, failed, overlapped,
                 crossed>>

(* OTPStepUp.verify of the code the provider read off the phone.           *)
Answer(p) ==
  /\ pr[p].at = "answer"
  /\ IF otp.lapsed \/ otp.tries = 0
     THEN otp' = NoChallenge /\ Ends(p, "mismatch", 0)
     ELSE IF shown = otp.code
     THEN otp' = NoChallenge /\ Ends(p, "match", otp.code)
     ELSE otp' = [otp EXCEPT !.tries = @ - 1] /\ Ends(p, "mismatch", 0)
  /\ UNCHANGED <<radio, ackVars, codes, pushed, failed, overlapped, crossed>>

Expire ==
  /\ otp # NoChallenge /\ ~otp.lapsed
  /\ otp' = [otp EXCEPT !.lapsed = TRUE]
  /\ UNCHANGED <<radio, ackVars, pr, codes, pushed, failed, overlapped,
                 crossed>>

-----------------------------------------------------------------------------
(* The page: connecting subscribes it, a lost link loses what was under    *)
(* way to it, and what it shows stays.                                     *)
PhoneMoves ==
  /\ phone' \in {"none", "own", "other"} \ {phone}
  /\ heard' \in (IF phone' = "own" THEN BOOLEAN ELSE {FALSE})
  /\ air' = <<>>
  /\ UNCHANGED <<running, shown, acks, ackVars, otp, pr, codes, pushed,
                 failed, overlapped, crossed>>

(* onOtpNotify shows the code; sendAck writes the acknowledgement, if the  *)
(* page found the characteristic and the write succeeds.                   *)
Receive ==
  /\ air # <<>>
  /\ shown' = Head(air) /\ air' = Tail(air)
  /\ \/ Len(acks) < MaxAir /\ acks' = Append(acks, Head(air))
     \/ UNCHANGED acks
  /\ UNCHANGED <<running, phone, heard, ackVars, otp, pr, codes, pushed,
                 failed, overlapped, crossed>>

(* BleGattServer._on_ack takes what is written to the characteristic.      *)
OnAck ==
  /\ acks # <<>>
  /\ last_ack' = Head(acks) /\ ack_event' = TRUE /\ acks' = Tail(acks)
  /\ UNCHANGED <<running, phone, heard, air, shown, otp, pr, codes, pushed,
                 failed, overlapped, crossed>>

(* BleGattServer.start and stop, with the life of the dashboard.           *)
ServerSwitches ==
  /\ running' = ~running
  /\ air' = <<>> /\ acks' = <<>> /\ heard' = FALSE
  /\ UNCHANGED <<phone, shown, ackVars, otp, pr, codes, pushed, failed,
                 overlapped, crossed>>

-----------------------------------------------------------------------------
Probe(p) ==
  Begin(p) \/ CheckPaired(p) \/ ClearAck(p) \/ Notify(p) \/ LegacyWrite(p)
    \/ Activate(p) \/ NoAnswer(p) \/ Answer(p)

OtpNext ==
  \/ \E p \in Probes : Probe(p)
  \/ Expire \/ PhoneMoves \/ Receive \/ OnAck \/ ServerSwitches

OtpSpec == OtpInit /\ [][OtpNext]_otpVars
=============================================================================
