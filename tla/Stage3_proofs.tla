---------------------------- MODULE Stage3_proofs ----------------------------
(***************************************************************************)
(* Proofs about the hardware behind the stage-3 lanes.                     *)
(*                                                                         *)
(* One thread at most drives the finger sensor, for any number of clients  *)
(* and of starts.  The invariant names the thread: whoever serves is the   *)
(* thread start knows of, and start knows of none between a join that ended*)
(* and the next listening socket.                                          *)
(*                                                                         *)
(* The OTP lane keeps its codes in order, for any number of probes, codes  *)
(* and messages under way: the probe that runs has the newest code.        *)
(***************************************************************************)
EXTENDS FingerDaemonProps, LadderOtpProps, FiniteSetTheorems, TLAPS

StopOps == {"closing", "releasing", "unlinking"}
StartOps == {"opening", "listening"}

(* What the invariant needs of the types.                                  *)
Shapes ==
  /\ op \in {"idle", "joining"} \cup StartOps \cup StopOps
  /\ starts \in 0..MaxStarts
  /\ sv = [g \in Starts |-> sv[g]]
  /\ op \in StartOps => starts < MaxStarts

KnownOnly == \A g \in Starts : sv[g].at # "off" => g = thread

Silent == \A g \in Starts : sv[g].at = "off"

Released ==
  /\ thread = 0 /\ op \in {"idle"} \cup StartOps => path \in {0, Stale}
  /\ thread = 0 /\ op \in {"idle", "opening", "unlinking"} => ~open
  /\ op \in StartOps => Silent
  /\ op \in StopOps => thread = 0

Orderly == ~abandoned => KnownOnly /\ Released

IInv == Shapes /\ Orderly

LEMMA InitIInv == Init => IInv
BY StartsAssumption DEF Init, IInv, Shapes, Orderly, KnownOnly, Silent, Released,
   Starts, Off, StopOps, StartOps, InService

-----------------------------------------------------------------------------
(* A step of a serving thread touches neither op nor what start knows, and *)
(* no thread but itself.                                                   *)
LEMMA ServeShape ==
  ASSUME Shapes, NEW g \in Starts, Serve(g)
  PROVE  /\ UNCHANGED <<op, starts, thread, path, abandoned>>
         /\ sv[g].at # "off"
         /\ sv' = [h \in Starts |-> sv'[h]]
         /\ \A h \in Starts \ {g} : sv'[h] = sv[h]
<1>1. /\ UNCHANGED <<op, starts, thread, path, abandoned>>
      /\ sv[g].at # "off"
  BY DEF Serve, Leave, Accept, Read, Reconnect, Check, Capture, Retry,
     CaptureAgain, Send, owner
<1>2. \E s : sv' = [sv EXCEPT ![g] = s]
  BY DEF Serve, Leave, Accept, Hangup, Read, Reconnect, Check, Capture, Retry,
     CaptureAgain, Send
<1> QED
  BY <1>1, <1>2 DEF Shapes

LEMMA ServeStep ==
  ASSUME IInv, NEW g \in Starts, Serve(g)
  PROVE  IInv'
<1>0. /\ UNCHANGED <<op, starts, thread, path, abandoned>>
      /\ sv[g].at # "off"
      /\ sv' = [h \in Starts |-> sv'[h]]
      /\ \A h \in Starts \ {g} : sv'[h] = sv[h]
  BY ServeShape DEF IInv
<1>1. Shapes'
  BY <1>0 DEF IInv, Shapes
<1>2. ASSUME ~abandoned'
      PROVE  KnownOnly' /\ Released'
  <2>1. KnownOnly /\ Released /\ thread = g /\ thread # 0
    BY <1>0, <1>2 DEF IInv, Orderly, KnownOnly, Starts
  <2>2. KnownOnly'
    BY <1>0, <2>1 DEF KnownOnly
  <2>3. op \notin StartOps \cup StopOps
    BY <1>0, <2>1 DEF Released, Silent
  <2> QED
    BY <2>1, <2>2, <2>3, <1>0 DEF Released
<1> QED
  BY <1>1, <1>2 DEF IInv, Orderly

LEMMA StartStep ==
  ASSUME IInv, Start \/ OpenSensor \/ Listen \/ ListenFails
  PROVE  IInv'
<1> USE StartsAssumption DEF IInv, Shapes, Orderly, StartOps, StopOps
<1>1. CASE Start
  <2>1. KnownOnly /\ ~ThreadAlive => Silent
    BY DEF KnownOnly, ThreadAlive, Silent
  <2>2. Shapes'
    BY <1>1 DEF Start
  <2>3. ASSUME ~abandoned'
        PROVE  KnownOnly' /\ Released'
    <3>1. /\ UNCHANGED <<thread, sv, path, open, abandoned>>
          /\ op = "idle" /\ op' = "opening" /\ ~ThreadAlive
      BY <1>1 DEF Start, port
    <3>2. KnownOnly /\ Released /\ Silent
      BY <2>1, <2>3, <3>1
    <3> QED
      BY <3>1, <3>2 DEF KnownOnly, Released, Silent
  <2> QED
    BY <2>2, <2>3
<1>2. CASE OpenSensor
  BY <1>2 DEF OpenSensor, KnownOnly, Released, Silent
<1>3. CASE Listen
  <2>1. starts + 1 \in Starts
    BY <1>3 DEF Listen, Starts
  <2>2. Shapes'
    <3>1. starts' \in 0..MaxStarts /\ op' = "idle"
      BY <1>3 DEF Listen
    <3>2. sv' = [g \in Starts |-> sv'[g]]
      BY <1>3 DEF Listen
    <3> QED
      BY <3>1, <3>2
  <2>3. ASSUME ~abandoned'
        PROVE  KnownOnly' /\ Released'
    <3>1. Silent
      BY <1>3, <2>3 DEF Listen, Released
    <3>2. KnownOnly'
      BY <1>3, <2>1, <3>1 DEF Listen, KnownOnly, Silent
    <3>3. thread' # 0 /\ op' = "idle"
      BY <1>3, <2>1 DEF Listen, Starts
    <3> QED
      BY <3>2, <3>3 DEF Released
  <2> QED
    BY <2>2, <2>3
<1>4. CASE ListenFails
  BY <1>4 DEF ListenFails, KnownOnly, Released, Silent
<1> QED
  BY <1>1, <1>2, <1>3, <1>4

(* A join that ends leaves nobody serving.                                 *)
LEMMA StopOrEnd ==
  ASSUME IInv, Stop \/ StopStep \/ ProcessEnds
  PROVE  IInv'
<1> USE StartsAssumption DEF IInv, Shapes, Orderly, StartOps, StopOps
<1>1. CASE Stop
  BY <1>1 DEF Stop, KnownOnly, Released, Silent
<1>2. CASE Join
  <2>1. Shapes'
    BY <1>2 DEF Join, port
  <2>2. ASSUME ~abandoned'
        PROVE  KnownOnly' /\ Released'
    <3>1. ~ThreadAlive /\ ~abandoned
      BY <1>2, <2>2 DEF Join
    <3>2. Silent
      BY <3>1 DEF ThreadAlive, KnownOnly, Silent
    <3> QED
      BY <1>2, <3>2 DEF Join, KnownOnly, Released, Silent
  <2> QED
    BY <2>1, <2>2
<1>3. CASE CloseServer
  BY <1>3 DEF CloseServer, KnownOnly, Released, port
<1>4. CASE ReleaseSensor
  BY <1>4 DEF ReleaseSensor, KnownOnly, Released
<1>5. CASE Unlink
  BY <1>5 DEF Unlink, KnownOnly, Released
<1>6. CASE ProcessEnds
  BY <1>6 DEF ProcessEnds, KnownOnly, Released, Off
<1> QED
  BY <1>1, <1>2, <1>3, <1>4, <1>5, <1>6 DEF StopStep

LEMMA IInvStep == IInv /\ [Next]_daemonVars => IInv'
<1> SUFFICES ASSUME IInv, [Next]_daemonVars PROVE IInv'
  OBVIOUS
<1>1. ASSUME NEW c \in Clients, Connect(c) \/ GiveUp(c)
      PROVE  IInv'
  BY <1>1 DEF Connect, GiveUp, owner, port, IInv, Shapes, Orderly, KnownOnly,
     Released, Silent
<1>2. CASE UNCHANGED daemonVars
  BY <1>2 DEF daemonVars, owner, port, IInv, Shapes, Orderly, KnownOnly,
     Released, Silent
<1> QED
  BY <1>1, <1>2, ServeStep, StartStep, StopOrEnd DEF Next

-----------------------------------------------------------------------------
LEMMA AtMostOne ==
  ASSUME NEW x, NEW S, \A y \in S : y = x
  PROVE  Cardinality(S) <= 1
<1>1. S \in SUBSET {x}
  OBVIOUS
<1>2. Cardinality(S) <= Cardinality({x})
  BY <1>1, FS_Singleton, FS_Subset
<1> QED
  BY <1>2, FS_Singleton

LEMMA Exclusive == IInv => OneServer
<1> SUFFICES ASSUME IInv, ~abandoned
             PROVE  /\ Cardinality(Serving) <= 1
                    /\ op = "idle" /\ thread = 0 =>
                         Serving = {} /\ ~open /\ path \in {0, Stale}
  BY DEF OneServer
<1>1. KnownOnly /\ Released
  BY DEF IInv, Orderly
<1>2. Cardinality(Serving) <= 1
  BY <1>1, AtMostOne DEF KnownOnly, Serving
<1>3. thread = 0 => Serving = {}
  BY <1>1 DEF KnownOnly, Serving, Starts
<1> QED
  BY <1>1, <1>2, <1>3 DEF Released

(* One thread at most drives the sensor, and a stopped daemon has released *)
(* it, for any number of clients and starts.                               *)
THEOREM OneServes == Spec => []OneServer
BY InitIInv, IInvStep, Exclusive, PTL DEF Spec

-----------------------------------------------------------------------------
(* The OTP lane (LadderOtp).  While probes take turns, the probe that runs *)
(* has the newest code; whatever the phone may still show or receive is no *)
(* newer than the challenge, was reported as failed, or is the code the    *)
(* running probe is about to make the challenge.  Acknowledgements need no *)
(* turns: what is under way when a code is pushed is what crosses it.      *)
Verdicts == {"none", "match", "mismatch", "unavailable"}
Places == {"idle", "check", "push", "notify", "activate", "answer"}

OtpTypes ==
  /\ pr \in [Probes -> [at : Places, code : Nat, score : Verdicts, of : Nat]]
  /\ otp \in [code : Nat, tries : Nat, lapsed : BOOLEAN]
  /\ codes \in Nat /\ shown \in Nat /\ air \in Seq(Nat) /\ acks \in Seq(Nat)

Running == {p \in Probes : pr[p].at # "idle"}

OneByOne ==
  /\ \A p, q \in Running : p = q
  /\ \A p \in Running : pr[p].code = codes

Answerable(k) ==
  \/ k <= otp.code \/ k \in failed
  \/ \E p \in Probes : pr[p].at = "activate" /\ pr[p].code = k

OtpOrder ==
  /\ OneByOne /\ MatchIsOwn
  /\ \A p \in Probes : pr[p].at = "answer" => otp.code = pr[p].code
  /\ \A k \in {shown} \cup ToSet(air) : k <= codes
  /\ otp # NoChallenge => \A k \in {shown} \cup ToSet(air) : Answerable(k)

AckOrder ==
  ~crossed =>
    /\ \A k \in ToSet(air) \cup ToSet(acks) : k = pushed
    /\ ack_event => last_ack = pushed

OtpInv == OtpTypes /\ (~overlapped => OtpOrder) /\ AckOrder

-----------------------------------------------------------------------------
LEMMA SetOfAppend ==
  ASSUME NEW S, NEW s \in Seq(S), NEW x \in S
  PROVE  Append(s, x) \in Seq(S) /\ ToSet(Append(s, x)) = ToSet(s) \cup {x}
<1> DEFINE t == Append(s, x)
<1>1. /\ t \in Seq(S) /\ Len(s) \in Nat /\ DOMAIN s = 1..Len(s)
      /\ DOMAIN t = 1..(Len(s) + 1) /\ t[Len(s) + 1] = x
      /\ \A i \in 1..Len(s) : t[i] = s[i]
  OBVIOUS
<1> HIDE DEF t
<1>2. /\ 1..Len(s) \subseteq 1..(Len(s) + 1) /\ Len(s) + 1 \in 1..(Len(s) + 1)
      /\ \A i \in 1..(Len(s) + 1) : i \in 1..Len(s) \/ i = Len(s) + 1
  BY <1>1
<1>3. ToSet(t) \subseteq ToSet(s) \cup {x}
  BY <1>1, <1>2 DEF ToSet
<1>4. ToSet(s) \cup {x} \subseteq ToSet(t)
  BY <1>1, <1>2 DEF ToSet
<1> QED
  BY <1>1, <1>3, <1>4 DEF t

LEMMA SetOfTail ==
  ASSUME NEW S, NEW s \in Seq(S), s # <<>>
  PROVE  /\ Tail(s) \in Seq(S) /\ ToSet(Tail(s)) \subseteq ToSet(s)
         /\ Head(s) \in S /\ Head(s) \in ToSet(s)
<1>1. Len(s) \in Nat \ {0} /\ 1 \in DOMAIN s
  OBVIOUS
<1>2. Head(s) \in S /\ Head(s) \in ToSet(s)
  BY <1>1 DEF ToSet
<1>3. Tail(s) \in Seq(S)
  OBVIOUS
<1>4. \A i \in DOMAIN Tail(s) : Tail(s)[i] = s[i + 1] /\ i + 1 \in DOMAIN s
  OBVIOUS
<1>5. ToSet(Tail(s)) \subseteq ToSet(s)
  BY <1>4 DEF ToSet
<1> QED
  BY <1>2, <1>3, <1>5

LEMMA SetOfSeq ==
  ASSUME NEW S, NEW s \in Seq(S)
  PROVE  ToSet(s) \subseteq S
BY DEF ToSet

LEMMA SetOfNone == ToSet(<<>>) = {}
BY DEF ToSet

(* A step of probe p changes nothing of the other probes.                  *)
Alone(p) == \A q \in Probes : q # p => pr'[q] = pr[q]

LEMMA AtIs ==
  ASSUME OtpTypes, NEW p \in Probes, NEW place \in Places, At(p, place)
  PROVE  /\ pr' \in [Probes -> [at : Places, code : Nat, score : Verdicts, of : Nat]]
         /\ pr'[p].at = place /\ pr'[p].code = pr[p].code
         /\ pr'[p].score = pr[p].score /\ pr'[p].of = pr[p].of
         /\ Alone(p)
<1> DEFINE r == [pr[p] EXCEPT !.at = place]
<1>1. pr' = [pr EXCEPT ![p] = r]
  BY DEF At, OtpTypes
<1>2. /\ r \in [at : Places, code : Nat, score : Verdicts, of : Nat]
      /\ r.at = place /\ r.code = pr[p].code
      /\ r.score = pr[p].score /\ r.of = pr[p].of
  BY DEF OtpTypes
<1> HIDE DEF r
<1> QED
  BY <1>1, <1>2 DEF OtpTypes, Alone

LEMMA EndsIs ==
  ASSUME OtpTypes, NEW p \in Probes, NEW verdict \in Verdicts, NEW of \in Nat,
         Ends(p, verdict, of)
  PROVE  /\ pr' \in [Probes -> [at : Places, code : Nat, score : Verdicts, of : Nat]]
         /\ pr'[p].at = "idle" /\ pr'[p].code = pr[p].code
         /\ pr'[p].score = verdict /\ pr'[p].of = of
         /\ Alone(p)
<1> DEFINE r == [pr[p] EXCEPT !.at = "idle", !.score = verdict, !.of = of]
<1>1. pr' = [pr EXCEPT ![p] = r]
  BY DEF Ends, OtpTypes
<1>2. /\ r \in [at : Places, code : Nat, score : Verdicts, of : Nat]
      /\ r.at = "idle" /\ r.code = pr[p].code
      /\ r.score = verdict /\ r.of = of
  BY DEF OtpTypes, Places
<1> HIDE DEF r
<1> QED
  BY <1>1, <1>2 DEF OtpTypes, Alone

(* A probe that goes on keeps the order if what the phone is shown or sent *)
(* is its own code, or a code whose delivery it reports as failed.         *)
GoesOn(p) ==
  /\ Alone(p) /\ pr[p].at \notin {"idle", "activate"}
  /\ pr'[p].code = pr[p].code /\ pr'[p].at # "answer"
  /\ pr'[p].score = "match" => pr'[p].of = pr'[p].code
  /\ UNCHANGED <<codes, otp>> /\ failed \subseteq failed'
  /\ \A k \in {shown'} \cup ToSet(air') :
       \/ k \in {shown} \cup ToSet(air)
       \/ k = pr[p].code /\ (pr'[p].at = "activate" \/ k \in failed')

LEMMA GoesOnInOrder ==
  ASSUME OtpOrder, NEW p \in Probes, codes \in Nat, GoesOn(p)
  PROVE  OtpOrder'
<1>1. /\ \A q \in Probes : q # p => pr'[q] = pr[q]
      /\ pr[p].at \notin {"idle", "activate"}
      /\ pr'[p].code = pr[p].code /\ pr'[p].at # "answer"
      /\ codes' = codes /\ otp' = otp
  BY DEF GoesOn, Alone
<1>2. p \in Running
  BY <1>1 DEF Running
<1>3. OneByOne'
  BY <1>1, <1>2 DEF OtpOrder, OneByOne, Running
<1>4. MatchIsOwn'
  BY <1>1 DEF GoesOn, OtpOrder, MatchIsOwn
<1>5. \A q \in Probes : pr'[q].at = "answer" => otp'.code = pr'[q].code
  BY <1>1 DEF OtpOrder
<1>6. ASSUME NEW k, Answerable(k) PROVE Answerable(k)'
  BY <1>1, <1>6 DEF Answerable, GoesOn
<1>7. ASSUME otp' # NoChallenge, NEW k \in {shown'} \cup ToSet(air')
      PROVE  Answerable(k)'
  <2>1. CASE k \in {shown} \cup ToSet(air)
    BY <1>1, <1>6, <1>7, <2>1 DEF OtpOrder
  <2>2. CASE k \in failed'
    BY <2>2 DEF Answerable
  <2>3. CASE pr'[p].at = "activate" /\ k = pr[p].code
    BY <1>1, <2>3 DEF Answerable
  <2> QED
    BY <1>7, <2>1, <2>2, <2>3 DEF GoesOn
<1>8. \A k \in {shown'} \cup ToSet(air') : k <= codes'
  <2>1. pr[p].code = codes /\ codes <= codes
    BY <1>2 DEF OtpOrder, OneByOne
  <2> QED
    BY <1>1, <2>1 DEF GoesOn, OtpOrder
<1> QED
  BY <1>3, <1>4, <1>5, <1>7, <1>8 DEF OtpOrder

(* So does the radio, which shows the phone nothing new.                   *)
LEMMA RadioInOrder ==
  ASSUME OtpOrder, UNCHANGED <<pr, codes, failed>>, otp'.code = otp.code,
         otp = NoChallenge => otp' = NoChallenge,
         {shown'} \cup ToSet(air') \subseteq {shown} \cup ToSet(air)
  PROVE  OtpOrder'
<1>1. OneByOne' /\ MatchIsOwn'
  BY DEF OtpOrder, OneByOne, Running, MatchIsOwn
<1>2. \A q \in Probes : pr'[q].at = "answer" => otp'.code = pr'[q].code
  BY DEF OtpOrder
<1>3. \A k : Answerable(k) => Answerable(k)'
  BY DEF Answerable
<1> QED
  BY <1>1, <1>2, <1>3 DEF OtpOrder

-----------------------------------------------------------------------------
(* A new code: all probes are at rest, unless this one overlaps them.      *)
LEMMA BeginOtp ==
  ASSUME OtpInv, NEW p \in Probes, Begin(p)
  PROVE  OtpInv'
<1> DEFINE c == codes + 1
           r == [Resting EXCEPT !.at = "check", !.code = c]
<1>1. /\ pr' = [pr EXCEPT ![p] = r] /\ codes' = c
      /\ UNCHANGED <<shown, air, acks, last_ack, ack_event, otp, pushed, failed, crossed>>
  BY DEF Begin, radio, ackVars
<1>2. /\ pr \in [Probes -> [at : Places, code : Nat, score : Verdicts, of : Nat]]
      /\ codes \in Nat /\ c \in Nat /\ codes <= c
  BY DEF OtpInv, OtpTypes
<1>3. /\ r \in [at : Places, code : Nat, score : Verdicts, of : Nat]
      /\ r.at = "check" /\ r.code = c /\ r.score = "none"
  <2> HIDE DEF c
  <2> QED
    BY <1>2 DEF Resting, Places, Verdicts
<1>4. overlapped' = (overlapped \/ \E q \in Probes : pr[q].at # "idle")
  BY DEF Begin
<1> HIDE DEF c, r
<1>5. /\ pr' \in [Probes -> [at : Places, code : Nat, score : Verdicts, of : Nat]]
      /\ pr'[p] = r /\ \A q \in Probes : q # p => pr'[q] = pr[q]
  BY <1>1, <1>2, <1>3
<1>6. OtpTypes'
  BY <1>1, <1>2, <1>5, <1>3 DEF OtpInv, OtpTypes
<1>7. ASSUME ~overlapped' PROVE OtpOrder'
  <2>1. OtpOrder /\ \A q \in Probes : pr[q].at = "idle"
    BY <1>4, <1>7 DEF OtpInv
  <2>2. OneByOne'
    BY <1>1, <1>3, <1>5, <2>1 DEF OneByOne, Running
  <2>3. MatchIsOwn'
    BY <1>3, <1>5, <2>1 DEF OtpOrder, MatchIsOwn
  <2>4. \A q \in Probes : pr'[q].at # "answer"
    BY <1>3, <1>5, <2>1
  <2>5. ASSUME NEW k, Answerable(k) PROVE Answerable(k)'
    BY <1>1, <2>1, <2>5 DEF Answerable
  <2>6. \A k \in {shown'} \cup ToSet(air') : k <= codes'
    <3>1. \A k \in {shown} \cup ToSet(air) : k \in Nat /\ k <= codes
      BY <2>1, SetOfSeq DEF OtpInv, OtpTypes, OtpOrder
    <3> QED
      BY <1>1, <1>2, <3>1
  <2> QED
    BY <1>1, <2>1, <2>2, <2>3, <2>4, <2>5, <2>6 DEF OtpOrder
<1>8. AckOrder'
  BY <1>1 DEF OtpInv, AckOrder
<1> QED
  BY <1>6, <1>7, <1>8 DEF OtpInv

(* The steps of a probe up to the one that has sent its code.              *)
LEMMA SendOtp ==
  ASSUME OtpInv, NEW p \in Probes,
         CheckPaired(p) \/ ClearAck(p) \/ Notify(p) \/ LegacyWrite(p) \/ NoAnswer(p)
  PROVE  OtpInv'
<1>t. /\ OtpTypes /\ codes \in Nat /\ shown \in Nat /\ pr[p].code \in Nat
      /\ air \in Seq(Nat) /\ acks \in Seq(Nat)
  BY DEF OtpInv, OtpTypes
<1>0. /\ {"push", "notify", "activate", "idle"} \subseteq Places
      /\ {"unavailable", "none"} \subseteq Verdicts /\ 0 \in Nat
  BY DEF Places, Verdicts
<1>1. overlapped' = overlapped /\ codes' = codes /\ otp' = otp
  BY DEF CheckPaired, ClearAck, Notify, LegacyWrite, NoAnswer
<1>2. /\ \/ At(p, "push") \/ At(p, "notify") \/ At(p, "activate")
         \/ Ends(p, "unavailable", 0) \/ Ends(p, "none", 0)
      /\ pr[p].at \in {"check", "push", "notify", "answer"}
  BY DEF CheckPaired, ClearAck, Notify, LegacyWrite, NoAnswer
<1>3. /\ pr' \in [Probes -> [at : Places, code : Nat, score : Verdicts, of : Nat]]
      /\ pr'[p].at \in {"idle", "push", "notify", "activate"}
      /\ pr'[p].code = pr[p].code
      /\ (pr'[p].score = pr[p].score /\ pr'[p].of = pr[p].of) \/ pr'[p].score # "match"
      /\ Alone(p)
  <2>1. ASSUME NEW place \in {"push", "notify", "activate"}, At(p, place)
        PROVE  /\ pr' \in [Probes -> [at : Places, code : Nat, score : Verdicts, of : Nat]]
               /\ pr'[p].at = place /\ pr'[p].code = pr[p].code
               /\ pr'[p].score = pr[p].score /\ pr'[p].of = pr[p].of
               /\ Alone(p)
    BY <1>0, <1>t, <2>1, AtIs
  <2>2. ASSUME NEW verdict \in {"unavailable", "none"}, Ends(p, verdict, 0)
        PROVE  /\ pr' \in [Probes -> [at : Places, code : Nat, score : Verdicts, of : Nat]]
               /\ pr'[p].at = "idle" /\ pr'[p].code = pr[p].code
               /\ pr'[p].score = verdict /\ Alone(p)
    BY <1>0, <1>t, <2>2, EndsIs
  <2> QED
    BY <1>2, <2>1, <2>2
<1>4. ASSUME pr[p].at # "idle", pr[p].at # "activate",
             failed \subseteq failed',
             \A k \in {shown'} \cup ToSet(air') :
               \/ k \in {shown} \cup ToSet(air)
               \/ k = pr[p].code /\ (pr'[p].at = "activate" \/ k \in failed')
      PROVE  ~overlapped' => OtpOrder'
  <2> SUFFICES ASSUME ~overlapped PROVE OtpOrder'
    BY <1>1
  <2>1. OtpOrder
    BY DEF OtpInv
  <2>2. pr'[p].score = "match" => pr'[p].of = pr'[p].code
    BY <1>3, <2>1 DEF OtpOrder, MatchIsOwn
  <2>3. GoesOn(p)
    BY <1>1, <1>3, <1>4, <2>2 DEF GoesOn
  <2> QED
    BY <1>t, <2>1, <2>3, GoesOnInOrder
<1>5. /\ shown' \in Nat /\ air' \in Seq(Nat) /\ acks' \in Seq(Nat)
      /\ ToSet(air') \subseteq ToSet(air) \cup {pr[p].code}
      /\ failed \subseteq failed' /\ shown' \in {shown, pr[p].code}
      /\ \/ shown' = shown /\ air' = air
         \/ pr'[p].at = "activate"
         \/ pr[p].code \in failed'
  <2>1. CASE Notify(p)
    <3>1. /\ acks' = acks /\ shown' = shown
          /\ \/ air' = OnAir(pr[p].code) /\ At(p, "activate") /\ failed' = failed
             \/ air' = air /\ failed' = failed \cup {pr[p].code}
      BY <2>1 DEF Notify
    <3>2. air' = air \/ air' = Append(air, pr[p].code)
      BY <3>1 DEF OnAir
    <3>3. At(p, "activate") => pr'[p].at = "activate"
      BY <1>0, <1>t, AtIs
    <3>4. air' \in Seq(Nat) /\ ToSet(air') \subseteq ToSet(air) \cup {pr[p].code}
      <4>1. /\ Append(air, pr[p].code) \in Seq(Nat)
            /\ ToSet(Append(air, pr[p].code)) = ToSet(air) \cup {pr[p].code}
        BY <1>t, SetOfAppend
      <4> QED
        BY <1>t, <3>2, <4>1
    <3> QED
      BY <1>t, <3>1, <3>3, <3>4
  <2>2. CASE LegacyWrite(p)
    <3>1. At(p, "activate") => pr'[p].at = "activate"
      BY <1>0, <1>t, AtIs
    <3> QED
      BY <1>t, <2>2, <3>1 DEF LegacyWrite
  <2>3. CASE CheckPaired(p) \/ ClearAck(p) \/ NoAnswer(p)
    BY <1>t, <2>3 DEF CheckPaired, ClearAck, NoAnswer, radio
  <2> QED
    BY <2>1, <2>2, <2>3
<1>6. ~overlapped' => OtpOrder'
  BY <1>2, <1>4, <1>5
<1>7. OtpTypes'
  BY <1>t, <1>1, <1>3, <1>5 DEF OtpTypes
<1>8. AckOrder'
  <2>1. AckOrder
    BY DEF OtpInv
  <2>2. CASE CheckPaired(p) \/ LegacyWrite(p) \/ NoAnswer(p)
    BY <2>1, <2>2 DEF CheckPaired, LegacyWrite, NoAnswer, AckOrder, radio, ackVars
  <2>3. CASE ClearAck(p)
    BY <2>1, <2>3 DEF ClearAck, AckOrder, radio
  <2>4. CASE Notify(p)
    <3> SUFFICES ASSUME ~crossed'
                 PROVE  /\ \A k \in ToSet(air') \cup ToSet(acks') : k = pushed'
                        /\ ~ack_event'
      BY DEF AckOrder
    <3>1. /\ acks = <<>> /\ air = <<>> /\ ~ack_event
          /\ acks' = acks /\ pushed' = pr[p].code /\ ack_event' = ack_event
      BY <2>4, Zenon DEF Notify, ackVars
    <3>2. ToSet(air') \subseteq {pr[p].code} /\ ToSet(acks') = {}
      BY <1>5, <3>1, SetOfNone
    <3> QED
      BY <3>1, <3>2
  <2> QED
    BY <2>2, <2>3, <2>4
<1> QED
  BY <1>6, <1>7, <1>8 DEF OtpInv

(* The challenge becomes the newest code, so that it covers all there are. *)
LEMMA ActivateOtp ==
  ASSUME OtpInv, NEW p \in Probes, Activate(p)
  PROVE  OtpInv'
<1> DEFINE c == [code |-> pr[p].code, tries |-> LadderTries, lapsed |-> FALSE]
<1>t. OtpTypes /\ codes \in Nat /\ pr[p].code \in Nat /\ shown \in Nat
      /\ air \in Seq(Nat)
  BY DEF OtpInv, OtpTypes
<1>1. /\ pr[p].at = "activate" /\ otp' = c /\ At(p, "answer")
      /\ UNCHANGED <<shown, air, acks, last_ack, ack_event, codes, pushed, failed,
                     overlapped, crossed>>
  BY DEF Activate, radio, ackVars
<1>2. /\ pr' \in [Probes -> [at : Places, code : Nat, score : Verdicts, of : Nat]]
      /\ pr'[p].at = "answer" /\ pr'[p].code = pr[p].code
      /\ pr'[p].score = pr[p].score /\ pr'[p].of = pr[p].of
      /\ Alone(p)
  <2>1. "answer" \in Places
    BY DEF Places
  <2> QED
    BY <1>t, <1>1, <2>1, AtIs
<1>3. c \in [code : Nat, tries : Nat, lapsed : BOOLEAN]
  BY <1>t, OtpAssumption
<1>4. OtpTypes'
  BY <1>t, <1>1, <1>2, <1>3 DEF OtpTypes
<1>5. ASSUME ~overlapped' PROVE OtpOrder'
  <2>1. OtpOrder
    BY <1>1, <1>5, Zenon DEF OtpInv
  <2>2. /\ pr[p].code = codes
        /\ \A q \in Probes : q # p => pr[q].at = "idle" /\ pr'[q] = pr[q]
    BY <1>1, <1>2, <2>1 DEF OtpOrder, OneByOne, Running, Alone
  <2>3. OneByOne'
    BY <1>1, <1>2, <2>1, <2>2 DEF OneByOne, Running
  <2>4. MatchIsOwn'
    BY <1>2, <2>1, <2>2 DEF OtpOrder, MatchIsOwn
  <2>5. otp'.code = pr[p].code
    BY <1>1
  <2>6. \A q \in Probes : pr'[q].at = "answer" => otp'.code = pr'[q].code
    BY <1>2, <2>2, <2>5
  <2>7. \A k \in {shown'} \cup ToSet(air') : k <= codes'
    BY <1>1, <2>1 DEF OtpOrder
  <2>8. \A k \in {shown'} \cup ToSet(air') : Answerable(k)'
    BY <1>1, <2>2, <2>5, <2>7 DEF Answerable
  <2> QED
    BY <2>3, <2>4, <2>6, <2>7, <2>8 DEF OtpOrder
<1>6. AckOrder'
  BY <1>1 DEF OtpInv, AckOrder
<1> QED
  BY <1>4, <1>5, <1>6 DEF OtpInv

(* A match is for the challenge, which is the code of this very probe.     *)
LEMMA AnswerOtp ==
  ASSUME OtpInv, NEW p \in Probes, Answer(p)
  PROVE  OtpInv'
<1>t. OtpTypes /\ otp.code \in Nat /\ otp.tries \in Nat
  BY DEF OtpInv, OtpTypes
<1>1. /\ pr[p].at = "answer"
      /\ UNCHANGED <<shown, air, acks, last_ack, ack_event, codes, pushed, failed,
                     overlapped, crossed>>
  BY DEF Answer, radio, ackVars
<1>2. \/ otp' = NoChallenge /\ Ends(p, "mismatch", 0)
      \/ otp' = NoChallenge /\ Ends(p, "match", otp.code)
      \/ otp.tries # 0 /\ otp' = [otp EXCEPT !.tries = @ - 1] /\ Ends(p, "mismatch", 0)
  BY DEF Answer
<1>3. /\ otp' \in [code : Nat, tries : Nat, lapsed : BOOLEAN]
      /\ otp' = NoChallenge \/ otp'.code = otp.code
  <2>1. CASE otp' = NoChallenge
    BY <2>1 DEF NoChallenge
  <2>2. CASE otp.tries # 0 /\ otp' = [otp EXCEPT !.tries = @ - 1]
    <3> DEFINE n == otp.tries - 1
    <3>1. n \in Nat /\ otp' = [otp EXCEPT !.tries = n]
      BY <1>t, <2>2
    <3> HIDE DEF n
    <3> QED
      BY <1>t, <3>1 DEF OtpTypes
  <2> QED
    BY <1>2, <2>1, <2>2
<1>4. /\ pr' \in [Probes -> [at : Places, code : Nat, score : Verdicts, of : Nat]]
      /\ pr'[p].at = "idle" /\ pr'[p].code = pr[p].code
      /\ pr'[p].score = "match" => pr'[p].of = otp.code
      /\ Alone(p)
  <2>1. {"match", "mismatch"} \subseteq Verdicts /\ 0 \in Nat
    BY DEF Verdicts
  <2>2. Ends(p, "mismatch", 0) \/ Ends(p, "match", otp.code)
    BY <1>2
  <2>3. CASE Ends(p, "mismatch", 0)
    BY <1>t, <2>1, <2>3, EndsIs
  <2>4. CASE Ends(p, "match", otp.code)
    BY <1>t, <2>1, <2>4, EndsIs
  <2> QED
    BY <2>2, <2>3, <2>4
<1>5. OtpTypes'
  BY <1>t, <1>1, <1>3, <1>4 DEF OtpTypes
<1>6. ASSUME ~overlapped' PROVE OtpOrder'
  <2>1. OtpOrder
    BY <1>1, <1>6, Zenon DEF OtpInv
  <2>2. \A q \in Probes : q # p => pr[q].at = "idle" /\ pr'[q] = pr[q]
    BY <1>1, <1>4, <2>1 DEF OtpOrder, OneByOne, Running, Alone
  <2>3. OneByOne'
    BY <1>4, <2>2 DEF OneByOne, Running
  <2>4. otp.code = pr[p].code
    BY <1>1, <2>1 DEF OtpOrder
  <2>5. MatchIsOwn'
    BY <1>4, <2>1, <2>2, <2>4 DEF OtpOrder, MatchIsOwn
  <2>6. \A q \in Probes : pr'[q].at # "answer"
    BY <1>4, <2>2
  <2>7. \A k \in {shown'} \cup ToSet(air') : k <= codes'
    BY <1>1, <2>1 DEF OtpOrder
  <2>8. ASSUME otp' # NoChallenge, NEW k \in {shown'} \cup ToSet(air')
        PROVE  Answerable(k)'
    <3>1. otp'.code = otp.code /\ otp # NoChallenge
      BY <1>2, <1>3, <2>8 DEF NoChallenge
    <3>2. Answerable(k)
      BY <1>1, <2>1, <2>8, <3>1 DEF OtpOrder
    <3> QED
      BY <1>1, <2>2, <3>1, <3>2 DEF Answerable
  <2> QED
    BY <2>3, <2>5, <2>6, <2>7, <2>8 DEF OtpOrder
<1>7. AckOrder'
  BY <1>1 DEF OtpInv, AckOrder
<1> QED
  BY <1>5, <1>6, <1>7 DEF OtpInv

(* The clock, the phone, the page and the server.                          *)
LEMMA RadioOtp ==
  ASSUME OtpInv, Expire \/ PhoneMoves \/ Receive \/ OnAck \/ ServerSwitches
  PROVE  OtpInv'
<1>t. /\ OtpTypes /\ shown \in Nat /\ air \in Seq(Nat) /\ acks \in Seq(Nat)
      /\ otp \in [code : Nat, tries : Nat, lapsed : BOOLEAN]
  BY DEF OtpInv, OtpTypes
<1>1. UNCHANGED <<pr, codes, failed, overlapped, pushed, crossed>>
  BY DEF Expire, PhoneMoves, Receive, OnAck, ServerSwitches
<1>2. /\ otp' \in [code : Nat, tries : Nat, lapsed : BOOLEAN]
      /\ otp'.code = otp.code
      /\ otp = NoChallenge => otp' = NoChallenge
  <2>1. CASE Expire
    BY <1>t, <2>1 DEF Expire
  <2>2. CASE otp' = otp
    BY <1>t, <2>2
  <2> QED
    BY <2>1, <2>2 DEF PhoneMoves, Receive, OnAck, ServerSwitches
<1>3. ToSet(<<>>) = {} /\ <<>> \in Seq(Nat)
  BY SetOfNone
<1>4. ASSUME Receive
      PROVE  /\ air # <<>> /\ shown' \in Nat /\ shown' \in ToSet(air)
             /\ air' \in Seq(Nat) /\ ToSet(air') \subseteq ToSet(air)
             /\ acks' \in Seq(Nat) /\ ToSet(acks') \subseteq ToSet(acks) \cup ToSet(air)
             /\ UNCHANGED <<last_ack, ack_event>>
  <2>1. /\ air # <<>> /\ shown' = Head(air) /\ air' = Tail(air)
        /\ acks' = acks \/ acks' = Append(acks, Head(air))
        /\ UNCHANGED <<last_ack, ack_event>>
    BY <1>4 DEF Receive, ackVars
  <2>2. /\ Tail(air) \in Seq(Nat) /\ ToSet(Tail(air)) \subseteq ToSet(air)
        /\ Head(air) \in Nat /\ Head(air) \in ToSet(air)
    BY <1>t, <2>1, SetOfTail
  <2>3. /\ Append(acks, Head(air)) \in Seq(Nat)
        /\ ToSet(Append(acks, Head(air))) = ToSet(acks) \cup {Head(air)}
    BY <1>t, <2>2, SetOfAppend
  <2> QED
    BY <1>t, <2>1, <2>2, <2>3
<1>5. ASSUME OnAck
      PROVE  /\ air' = air /\ shown' = shown /\ acks' \in Seq(Nat)
             /\ ToSet(acks') \subseteq ToSet(acks) /\ last_ack' \in ToSet(acks)
  <2>1. /\ acks # <<>> /\ last_ack' = Head(acks) /\ acks' = Tail(acks)
        /\ air' = air /\ shown' = shown
    BY <1>5 DEF OnAck
  <2>2. /\ Tail(acks) \in Seq(Nat) /\ ToSet(Tail(acks)) \subseteq ToSet(acks)
        /\ Head(acks) \in ToSet(acks)
    BY <1>t, <2>1, SetOfTail
  <2> QED
    BY <2>1, <2>2
<1>6. ASSUME Expire
      PROVE  UNCHANGED <<shown, air, acks, last_ack, ack_event>>
  BY <1>6 DEF Expire, radio, ackVars
<1>7. ASSUME PhoneMoves \/ ServerSwitches
      PROVE  /\ shown' = shown /\ air' = <<>> /\ acks' \in {acks, <<>>}
             /\ UNCHANGED <<last_ack, ack_event>>
  BY <1>7 DEF PhoneMoves, ServerSwitches, ackVars
<1>8. OtpTypes'
  BY <1>t, <1>1, <1>2, <1>3, <1>4, <1>5, <1>6, <1>7 DEF OtpTypes
<1>9. ASSUME ~overlapped' PROVE OtpOrder'
  <2>1. OtpOrder
    BY <1>1, <1>9, Zenon DEF OtpInv
  <2>2. {shown'} \cup ToSet(air') \subseteq {shown} \cup ToSet(air)
    BY <1>3, <1>4, <1>5, <1>6, <1>7
  <2> QED
    BY <1>1, <1>2, <2>1, <2>2, RadioInOrder
<1>10. AckOrder'
  <2> SUFFICES ASSUME ~crossed'
               PROVE  /\ \A k \in ToSet(air') \cup ToSet(acks') : k = pushed
                      /\ ack_event' => last_ack' = pushed
    BY <1>1 DEF AckOrder
  <2>1. ~crossed
    BY <1>1, Zenon
  <2>2. /\ \A k \in ToSet(air) \cup ToSet(acks) : k = pushed
        /\ ack_event => last_ack = pushed
    BY <2>1 DEF OtpInv, AckOrder
  <2>3. ToSet(air') \cup ToSet(acks') \subseteq ToSet(air) \cup ToSet(acks)
    BY <1>3, <1>4, <1>5, <1>6, <1>7
  <2>4. ack_event' => last_ack' = pushed
    BY <1>4, <1>5, <1>6, <1>7, <2>2
  <2> QED
    BY <2>2, <2>3, <2>4
<1> QED
  BY <1>8, <1>9, <1>10 DEF OtpInv

LEMMA OtpInitInv == OtpInit => OtpInv
<1> SUFFICES ASSUME OtpInit PROVE OtpInv
  OBVIOUS
<1>1. /\ air = <<>> /\ shown = 0 /\ acks = <<>> /\ ack_event = FALSE
      /\ otp = NoChallenge /\ pr = [p \in Probes |-> Resting] /\ codes = 0
  BY DEF OtpInit
<1>2. /\ Resting \in [at : Places, code : Nat, score : Verdicts, of : Nat]
      /\ Resting.at = "idle" /\ Resting.score = "none"
      /\ NoChallenge \in [code : Nat, tries : Nat, lapsed : BOOLEAN]
  BY DEF Resting, NoChallenge, Places, Verdicts
<1>3. OtpTypes
  BY <1>1, <1>2 DEF OtpTypes
<1>4. OtpOrder
  BY <1>1, <1>2, SetOfNone DEF OtpOrder, OneByOne, Running, MatchIsOwn
<1>5. AckOrder
  BY <1>1, SetOfNone DEF AckOrder
<1> QED
  BY <1>3, <1>4, <1>5 DEF OtpInv

LEMMA OtpInvStep == OtpInv /\ [OtpNext]_otpVars => OtpInv'
<1> SUFFICES ASSUME OtpInv, [OtpNext]_otpVars PROVE OtpInv'
  OBVIOUS
<1>1. ASSUME NEW p \in Probes, Probe(p) PROVE OtpInv'
  BY <1>1, BeginOtp, SendOtp, ActivateOtp, AnswerOtp DEF Probe
<1>2. CASE UNCHANGED otpVars
  <2>1. /\ UNCHANGED <<pr, codes, failed, overlapped, crossed, otp, shown, air>>
        /\ UNCHANGED <<acks, ack_event, last_ack, pushed>>
    BY <1>2 DEF otpVars, radio, ackVars
  <2>2. OtpTypes' /\ AckOrder'
    BY <2>1 DEF OtpInv, OtpTypes, AckOrder
  <2>3. ASSUME ~overlapped' PROVE OtpOrder'
    <3>1. OtpOrder
      BY <2>1, <2>3, Zenon DEF OtpInv
    <3> QED
      BY <2>1, <3>1, RadioInOrder
  <2> QED
    BY <2>2, <2>3 DEF OtpInv
<1> QED
  BY <1>1, <1>2, RadioOtp DEF OtpNext

(* LadderOTPLane and BluetoothOTPDelivery: codes, challenges and           *)
(* acknowledgements keep their order as long as probes do not overlap.     *)
THEOREM LaneKeepsOrder == OtpSpec => []LaneInOrder
<1>1. ASSUME OtpInv PROVE LaneInOrder
  <2> SUFFICES ASSUME ~overlapped
               PROVE  MatchIsOwn /\ ShownIsAnswerable /\ AckIsForPush
    BY DEF LaneInOrder
  <2>1. OtpOrder
    BY <1>1 DEF OtpInv
  <2>2. ShownIsAnswerable
    BY <2>1 DEF OtpOrder, Answerable, ShownIsAnswerable, Quiet
  <2>3. AckIsForPush
    BY <1>1 DEF OtpInv, AckOrder, AckIsForPush
  <2> QED
    BY <2>1, <2>2, <2>3 DEF OtpOrder
<1> QED
  BY <1>1, OtpInitInv, OtpInvStep, PTL DEF OtpSpec
=============================================================================
