------------------------- MODULE DriverFiles_proofs -------------------------
(***************************************************************************)
(* Proofs about a driver's files, for any number of requests at once and   *)
(* of objects and processes that share the profile.                        *)
(*                                                                         *)
(* ConsentKept speaks of files only; it holds because enrolments and purges*)
(* do not meet, an enrolment past its check has found the consent, and a   *)
(* purge that is on its way has already taken the templates.               *)
(* LockedIsUsable speaks of a driver nobody enrols; what leads there is    *)
(* that while baselines are missing some enrolment still has to write them.*)
(*                                                                         *)
(* The properties of the profile speak of one object or of the file; what  *)
(* carries them is that no copy claims more than its history, and that the *)
(* one object that is writing has all of it.                               *)
(***************************************************************************)
EXTENDS RegistrationProps, ProfileStoreProps, TLAPS

Past(q) == pc[q] \in {"voice", "face", "finger", "seed", "oodVoice", "oodFace"}
Written(q) == pc[q] \in {"face", "finger", "seed", "oodVoice", "oodFace"}

Apart == \A q, r \in Request : ~(Enrolling(q) /\ Purging(r))

Consented ==
  /\ voice # "none" \/ face # "none" \/ finger # "none" => consent
  /\ \A q \in Request : Past(q) => consent

PurgedFirst ==
  \A q \in Request :
    Purging(q) => voice = "none" /\ face = "none" /\ finger = "none"

VoiceFirst ==
  /\ face # "none" => voice # "none"
  /\ \A q \in Request : Written(q) => voice # "none"

Judged ==
  /\ "poor" \in clips => \E r \in Request : pc[r] = "judge"
  /\ \A q \in Request : Past(q) => "poor" \notin listed[q]
  /\ voice \in {"none", "whole"} /\ face \in {"none", "whole"}

BaselinesToCome ==
  \/ ood = "own"
  \/ \E q \in Request : pc[q] \in {"finger", "seed", "oodVoice"}
  \/ ood = "voice" /\ \E q \in Request : pc[q] = "oodFace"

ConsentInv == ~crossed => Apart /\ Consented /\ PurgedFirst /\ VoiceFirst
UsableInv == ~crossed /\ ~hurt => Judged /\ (Locked => BaselinesToCome)
IInv == TypeOK /\ ConsentInv /\ UsableInv

-----------------------------------------------------------------------------
LEMMA InitIInv == Init => IInv
BY DEF Init, IInv, TypeOK, ConsentInv, UsableInv, Apart, Consented, PurgedFirst,
       VoiceFirst, Judged, Locked, BaselinesToCome, Past, Written, Enrolling,
       Purging, Baselines, Clip, Template, Baseline, Label

LEMMA Going ==
  ASSUME pc \in [Request -> Label], NEW q \in Request, NEW l \in Label, Goto(q, l)
  PROVE  pc' \in [Request -> Label]
BY DEF Goto

LEMMA TypesKept == TypeOK /\ [Next]_vars => TypeOK'
<1> SUFFICES ASSUME TypeOK, [Next]_vars PROVE TypeOK'
  OBVIOUS
<1> USE DEF TypeOK, samples, templates, files, vars
<1>0. {"idle", "image", "clip", "scan", "judge", "clear", "home", "complete",
       "consent", "list", "voice", "face", "finger", "seed", "oodVoice",
       "oodFace", "purgeOod", "purgeProfile", "purgeConsent"} \subseteq Label
  BY DEF Label
<1>1. CASE UNCHANGED vars
  BY <1>1
<1>2. CASE PurgeOfSuffix
  BY <1>2 DEF PurgeOfSuffix, Baseline
<1>3. CASE Crash
  BY <1>0, <1>3 DEF Crash, Stop, Partial, Template, Baseline
<1>4. ASSUME NEW q \in Request,
             NEW label \in {"image", "clip", "scan", "clear", "home", "complete"},
             Admitted(q, label)
      PROVE  TypeOK'
  BY <1>0, <1>4, Going DEF Admitted
<1>5. ASSUME NEW q \in Request, NEW c \in Clip, SaveClip(q, c)
      PROVE  TypeOK'
  BY <1>0, <1>5, Going DEF SaveClip
<1>6. ASSUME NEW q \in Request,
             SaveImage(q) \/ SaveScan(q) \/ RemoveClip(q) \/ Clear(q)
               \/ SetHome(q)
      PROVE  TypeOK'
  BY <1>0, <1>6, Going DEF SaveImage, SaveScan, RemoveClip, Clear, SetHome
<1>7. ASSUME NEW q \in Request, StartEnrolment(q)
      PROVE  TypeOK'
  BY <1>0, <1>7, Going DEF StartEnrolment
<1>8. ASSUME NEW q \in Request, RecordConsent(q) \/ List(q)
      PROVE  TypeOK'
  BY <1>0, <1>8, Going DEF RecordConsent, List
<1>9. ASSUME NEW q \in Request, WriteVoice(q) \/ WriteFace(q) \/ WriteFinger(q)
      PROVE  TypeOK'
  BY <1>0, <1>9, Going DEF WriteVoice, WriteFace, WriteFinger, Template
<1>10. ASSUME NEW q \in Request, WriteBaselines(q)
       PROVE  TypeOK'
  BY <1>0, <1>10, Going DEF WriteBaselines, WriteBaseline, Baseline
<1>11. ASSUME NEW q \in Request, PurgeTemplates(q)
       PROVE  TypeOK'
  BY <1>0, <1>11, Going DEF PurgeTemplates, Template
<1>12. ASSUME NEW q \in Request, PurgeOod(q) \/ PurgeProfile(q) \/ PurgeConsent(q)
       PROVE  TypeOK'
  BY <1>0, <1>12, Going DEF PurgeOod, PurgeProfile, PurgeConsent, Baseline
<1>13. ASSUME NEW q \in Request, EnrolmentFails(q)
       PROVE  TypeOK'
  BY <1>0, <1>13 DEF EnrolmentFails, Stop, Partial, Template, Baseline
<1> QED
  BY <1>1, <1>2, <1>3, <1>4, <1>5, <1>6, <1>7, <1>8, <1>9, <1>10, <1>11,
     <1>12, <1>13 DEF Next

-----------------------------------------------------------------------------
(* Neither kind of request starts beside the other without being noticed.  *)
LEMMA ConsentStep == IInv /\ [Next]_vars => ConsentInv'
<1> SUFFICES ASSUME IInv, [Next]_vars, ~crossed' PROVE ConsentInv'
  BY DEF ConsentInv
<1> USE DEF IInv, TypeOK, ConsentInv, Apart, Consented, PurgedFirst, VoiceFirst,
            Past, Written, Enrolling, Purging, Baselines, samples, templates,
            files, vars, Goto
<1>1. CASE UNCHANGED vars
  BY <1>1
<1>2. CASE PurgeOfSuffix
  BY <1>2 DEF PurgeOfSuffix
<1>3. CASE Crash
  BY <1>3 DEF Crash, Stop, Partial
<1>4. ASSUME NEW q \in Request, NEW label \in {"image", "clip", "scan", "clear", "home", "complete"},
             Admitted(q, label)
      PROVE  ConsentInv'
  BY <1>4 DEF Admitted
<1>5. ASSUME NEW q \in Request, NEW c \in Clip, SaveClip(q, c)
      PROVE  ConsentInv'
  BY <1>5 DEF SaveClip
<1>6. ASSUME NEW q \in Request,
             SaveImage(q) \/ SaveScan(q) \/ RemoveClip(q) \/ Clear(q)
               \/ SetHome(q)
      PROVE  ConsentInv'
  BY <1>6 DEF SaveImage, SaveScan, RemoveClip, Clear, SetHome
<1>7. ASSUME NEW q \in Request, StartEnrolment(q)
      PROVE  ConsentInv'
  BY <1>7 DEF StartEnrolment
<1>8. ASSUME NEW q \in Request, RecordConsent(q) \/ List(q)
      PROVE  ConsentInv'
  BY <1>8 DEF RecordConsent, List
<1>9. ASSUME NEW q \in Request, WriteVoice(q)
      PROVE  ConsentInv'
  BY <1>9 DEF WriteVoice
<1>10. ASSUME NEW q \in Request, WriteFace(q)
       PROVE  ConsentInv'
  BY <1>10 DEF WriteFace
<1>11. ASSUME NEW q \in Request, WriteBaselines(q)
       PROVE  ConsentInv'
  BY <1>11 DEF WriteBaselines, WriteBaseline
<1>12. ASSUME NEW q \in Request, PurgeTemplates(q)
       PROVE  ConsentInv'
  BY <1>12 DEF PurgeTemplates
<1>13. ASSUME NEW q \in Request, PurgeOod(q) \/ PurgeProfile(q) \/ PurgeConsent(q)
       PROVE  ConsentInv'
  BY <1>13 DEF PurgeOod, PurgeProfile, PurgeConsent
<1>14. ASSUME NEW q \in Request, WriteFinger(q)
       PROVE  ConsentInv'
  BY <1>14 DEF WriteFinger
<1>15. ASSUME NEW q \in Request, EnrolmentFails(q)
       PROVE  ConsentInv'
  BY <1>15 DEF EnrolmentFails, Stop, Partial
<1> QED
  BY <1>1, <1>2, <1>3, <1>4, <1>5, <1>6, <1>7, <1>8, <1>9, <1>10, <1>11,
     <1>12, <1>13, <1>14, <1>15 DEF Next

-----------------------------------------------------------------------------
(* A clip that is still to be judged is listed by no enrolment, and no     *)
(* template comes of it, unless that is noticed.                           *)
LEMMA JudgedStep ==
  ASSUME IInv, [Next]_vars, ~crossed', ~hurt'
  PROVE  Judged'
<1> USE DEF IInv, TypeOK, UsableInv, Judged, Past, Baselines, samples, templates, files, vars,
            Goto
<1>1. CASE UNCHANGED vars
  BY <1>1
<1>2. CASE PurgeOfSuffix
  BY <1>2 DEF PurgeOfSuffix
<1>3. CASE Crash
  BY <1>3 DEF Crash, Stop, Partial, Enrolling
<1>4. ASSUME NEW q \in Request,
             NEW label \in {"image", "clip", "scan", "clear", "home", "complete"},
             Admitted(q, label)
      PROVE  Judged'
  BY <1>4 DEF Admitted
<1>5. ASSUME NEW q \in Request, NEW c \in Clip, SaveClip(q, c)
      PROVE  Judged'
  BY <1>5 DEF SaveClip, Clip
<1>6. ASSUME NEW q \in Request,
             SaveImage(q) \/ SaveScan(q) \/ RemoveClip(q) \/ Clear(q)
               \/ SetHome(q)
      PROVE  Judged'
  BY <1>6 DEF SaveImage, SaveScan, RemoveClip, Clear, SetHome
<1>7. ASSUME NEW q \in Request, StartEnrolment(q) \/ RecordConsent(q)
      PROVE  Judged'
  BY <1>7 DEF StartEnrolment, RecordConsent
<1>8. ASSUME NEW q \in Request, List(q)
      PROVE  Judged'
  BY <1>8 DEF List
<1>9. ASSUME NEW q \in Request, WriteVoice(q) \/ WriteFace(q) \/ WriteFinger(q)
      PROVE  Judged'
  BY <1>9 DEF WriteVoice, WriteFace, WriteFinger
<1>10. ASSUME NEW q \in Request, WriteBaselines(q)
       PROVE  Judged'
  BY <1>10 DEF WriteBaselines, WriteBaseline
<1>11. ASSUME NEW q \in Request,
              PurgeTemplates(q) \/ PurgeOod(q) \/ PurgeProfile(q) \/ PurgeConsent(q)
       PROVE  Judged'
  BY <1>11 DEF PurgeTemplates, PurgeOod, PurgeProfile, PurgeConsent
<1>12. ASSUME NEW q \in Request, EnrolmentFails(q)
       PROVE  Judged'
  BY <1>12 DEF EnrolmentFails, Stop, Partial, Enrolling
<1> QED
  BY <1>1, <1>2, <1>3, <1>4, <1>5, <1>6, <1>7, <1>8, <1>9, <1>10, <1>11,
     <1>12 DEF Next

(* Both templates there, some enrolment still writes the baselines, or the *)
(* driver has all of them.                                                 *)
LEMMA BaselinesStep ==
  ASSUME IInv, [Next]_vars, ~crossed', ~hurt', Locked'
  PROVE  BaselinesToCome'
<1> USE DEF IInv, TypeOK, ConsentInv, UsableInv, Locked, BaselinesToCome, Baselines,
            samples, templates, files, vars, Goto
<1>1. CASE UNCHANGED vars
  BY <1>1
<1>2. CASE PurgeOfSuffix
  BY <1>2 DEF PurgeOfSuffix
<1>3. CASE Crash
  BY <1>3 DEF Crash, Stop, Partial, Enrolling
<1>4. ASSUME NEW q \in Request,
             NEW label \in {"image", "clip", "scan", "clear", "home", "complete"},
             Admitted(q, label)
      PROVE  BaselinesToCome'
  BY <1>4 DEF Admitted
<1>5. ASSUME NEW q \in Request, NEW c \in Clip, SaveClip(q, c)
      PROVE  BaselinesToCome'
  BY <1>5 DEF SaveClip
<1>6. ASSUME NEW q \in Request,
             SaveImage(q) \/ SaveScan(q) \/ RemoveClip(q) \/ Clear(q)
               \/ SetHome(q)
      PROVE  BaselinesToCome'
  BY <1>6 DEF SaveImage, SaveScan, RemoveClip, Clear, SetHome
<1>7. ASSUME NEW q \in Request, StartEnrolment(q) \/ RecordConsent(q) \/ List(q)
      PROVE  BaselinesToCome'
  BY <1>7 DEF StartEnrolment, RecordConsent, List
<1>8. ASSUME NEW q \in Request, WriteVoice(q)
      PROVE  BaselinesToCome'
  BY <1>8 DEF WriteVoice, VoiceFirst
<1>9. ASSUME NEW q \in Request, WriteFace(q)
      PROVE  BaselinesToCome'
  BY <1>9 DEF WriteFace, VoiceFirst, Written
<1>10. ASSUME NEW q \in Request, WriteBaselines(q)
       PROVE  BaselinesToCome'
  BY <1>10 DEF WriteBaselines, WriteBaseline
<1>11. ASSUME NEW q \in Request, PurgeTemplates(q)
       PROVE  BaselinesToCome'
  BY <1>11 DEF PurgeTemplates
<1>12. ASSUME NEW q \in Request, PurgeOod(q) \/ PurgeProfile(q) \/ PurgeConsent(q)
       PROVE  BaselinesToCome'
  BY <1>12 DEF PurgeOod, PurgeProfile, PurgeConsent, PurgedFirst, Purging
<1>13. ASSUME NEW q \in Request, WriteFinger(q)
       PROVE  BaselinesToCome'
  BY <1>13 DEF WriteFinger
<1>14. ASSUME NEW q \in Request, EnrolmentFails(q)
       PROVE  BaselinesToCome'
  BY <1>14 DEF EnrolmentFails, Stop, Partial, Enrolling
<1> QED
  BY <1>1, <1>2, <1>3, <1>4, <1>5, <1>6, <1>7, <1>8, <1>9, <1>10, <1>11,
     <1>12, <1>13, <1>14 DEF Next

LEMMA IInvStep == IInv /\ [Next]_vars => IInv'
<1> SUFFICES ASSUME IInv, [Next]_vars PROVE IInv'
  OBVIOUS
<1>1. TypeOK' /\ ConsentInv'
  BY TypesKept, ConsentStep DEF IInv
<1>2. UsableInv'
  BY JudgedStep, BaselinesStep DEF UsableInv
<1> QED
  BY <1>1, <1>2 DEF IInv

THEOREM Invariance == Spec => []IInv
<1> QED
  BY InitIInv, IInvStep, PTL DEF Spec

-----------------------------------------------------------------------------
(* The files and the requests are in states they can be in.                *)
THEOREM TypeCorrect == Spec => []TypeOK
<1>1. IInv => TypeOK
  BY DEF IInv
<1> QED
  BY <1>1, Invariance, PTL

(* A template is on disk only with the driver's consent.                   *)
THEOREM Consents == Spec => []ConsentKept
<1>1. IInv => ConsentKept
  BY DEF IInv, TypeOK, ConsentInv, Consented, ConsentKept
<1> QED
  BY <1>1, Invariance, PTL

(* A driver who is locked and not being enrolled can authenticate.         *)
THEOREM Usable == Spec => []LockedIsUsable
<1>1. ASSUME IInv PROVE LockedIsUsable
  <2> SUFFICES ASSUME Locked, \A q \in Request : ~Enrolling(q), ~crossed, ~hurt
               PROVE  voice = "whole" /\ face = "whole" /\ ood = "own" /\ consent
    BY DEF LockedIsUsable
  <2>1. voice = "whole" /\ face = "whole"
    BY <1>1 DEF IInv, UsableInv, Judged, Locked
  <2>2. consent
    BY <1>1, <2>1 DEF IInv, ConsentInv, Consented
  <2>3. ood = "own"
    BY <1>1 DEF IInv, UsableInv, BaselinesToCome, Enrolling,
                Baselines
  <2> QED
    BY <2>1, <2>2, <2>3
<1> QED
  BY <1>1, Invariance, PTL

-----------------------------------------------------------------------------
(* The statistics in a driver's profile (ProfileStore).  No copy claims    *)
(* more than was recorded in the history it belongs to, whatever is lost   *)
(* on the way; and as long as mutations take turns and nothing fails, the  *)
(* copy being written is the only one that may be ahead of the file.       *)
Truth == [count : Nat, last : Nat, begun : Int, seeded : BOOLEAN]

Backs(t, p) ==
  /\ p \in Profile /\ p.of \in DOMAIN t
  /\ p.count <= t[p.of].count /\ p.last <= t[p.of].last
  /\ t[p.of].begun <= p.created

Earned ==
  /\ now \in Nat \ {0} /\ stage \in [Object -> {"idle", "write"}]
  /\ \E n \in Nat \ {0} : truth \in [1..n -> Truth]
  /\ mem \in [Object -> Profile] /\ \A o \in Object : Backs(truth, mem[o])
  /\ file # NoFile => Backs(truth, file)
  /\ purged \subseteq Histories

(* A copy that has all of its history, or whose history was purged.        *)
Settled(p) == p.of \in purged \/ p.count = truth[p.of].count

Quiescent == \A o \in Object : stage[o] = "idle"

InTurn == \A o, p \in Object : stage[o] = "write" /\ stage[p] = "write" => o = p

AllRecorded ==
  /\ \A o \in Object : stage[o] = "write" => Settled(mem[o])
  /\ Quiescent /\ file # NoFile => Settled(file)
  /\ Quiescent /\ file = NoFile =>
       /\ \A o \in Object : Settled(mem[o])
       /\ Current \in purged \/ truth[Current].count = 0

FileIsAhead ==
  \A o \in Object :
    stage[o] = "idle" /\ file # NoFile /\ file.of = mem[o].of /\ file.of \notin purged
      => mem[o].count <= file.count

StoreInv == Earned /\ (~spoilt => InTurn /\ AllRecorded /\ FileIsAhead)

(* History only grows.                                                     *)
Grows(t, u) ==
  \A h \in DOMAIN t :
    /\ h \in DOMAIN u
    /\ t[h].count <= u[h].count /\ t[h].last <= u[h].last
    /\ u[h].begun <= t[h].begun

LEMMA BackedStill ==
  ASSUME NEW n \in Nat, NEW t \in [1..n -> Truth],
         NEW m \in Nat, NEW u \in [1..m -> Truth], Grows(t, u),
         NEW p, Backs(t, p)
  PROVE  Backs(u, p)
<1>1. p.of \in 1..n /\ p.of \in 1..m
  BY DEF Backs, Grows
<1>2. t[p.of] \in Truth /\ u[p.of] \in Truth /\ p \in Profile
  BY <1>1 DEF Backs
<1>3. /\ p.count <= t[p.of].count /\ t[p.of].count <= u[p.of].count
      /\ p.last <= t[p.of].last /\ t[p.of].last <= u[p.of].last
      /\ u[p.of].begun <= t[p.of].begun /\ t[p.of].begun <= p.created
  BY <1>1 DEF Backs, Grows
<1>4. p.count <= u[p.of].count /\ p.last <= u[p.of].last /\ u[p.of].begun <= p.created
  <2>1. /\ t[p.of].count \in Nat /\ u[p.of].count \in Nat /\ p.count \in Nat
        /\ t[p.of].last \in Nat /\ u[p.of].last \in Nat /\ p.last \in Nat
        /\ t[p.of].begun \in Int /\ u[p.of].begun \in Int /\ p.created \in Int
    BY <1>2 DEF Truth, Profile
  <2>2. p.count <= u[p.of].count
    BY <1>3, <2>1
  <2>3. p.last <= u[p.of].last
    BY <1>3, <2>1
  <2>4. u[p.of].begun <= p.created
    BY <1>3, <2>1
  <2> QED
    BY <2>2, <2>3, <2>4
<1> QED
  BY <1>1, <1>2, <1>4 DEF Backs

LEMMA CurrentIsLast ==
  ASSUME NEW n \in Nat \ {0}, truth \in [1..n -> Truth]
  PROVE  Histories = 1..n /\ Current = n
<1>1. Histories = 1..n
  BY DEF Histories
<1>2. n \in Histories /\ \A g \in Histories : g <= n
  BY <1>1
<1>3. \A h \in Histories : (\A g \in Histories : g <= h) => h = n
  BY <1>1, <1>2
<1>4. Current \in Histories /\ \A g \in Histories : g <= Current
  BY <1>2 DEF Current
<1> QED
  BY <1>1, <1>3, <1>4

(* A new history adds to the ones before.                                  *)
LEMMA NewHistory ==
  ASSUME NEW n \in Nat \ {0}, truth \in [1..n -> Truth], NEW x \in Truth
  PROVE  /\ WithHistory(x) \in [1..(n + 1) -> Truth]
         /\ Grows(truth, WithHistory(x))
         /\ Current + 1 = n + 1 /\ WithHistory(x)[n + 1] = x
         /\ \A h \in 1..n : WithHistory(x)[h] = truth[h]
<1>1. Histories = 1..n /\ Current = n
  BY CurrentIsLast
<1>2. WithHistory(x) = [h \in 1..(n + 1) |-> IF h \in 1..n THEN truth[h] ELSE x]
  <2>1. 1..n \cup {n + 1} = 1..(n + 1)
    OBVIOUS
  <2> QED
    BY <1>1, <2>1 DEF WithHistory
<1>3. \A h \in 1..n : WithHistory(x)[h] = truth[h] /\ truth[h] \in Truth
  BY <1>2
<1>4. Grows(truth, WithHistory(x))
  BY <1>2, <1>3 DEF Grows, Truth
<1> QED
  BY <1>1, <1>2, <1>3, <1>4

-----------------------------------------------------------------------------
(* What every mutation does: one copy is replaced by q, which the history  *)
(* backs, and which has all of it unless something is already lost.        *)
Mutated(o, q) ==
  /\ mem' = [mem EXCEPT ![o] = q] /\ Backs(truth', q)
  /\ \E n \in Nat \ {0} : truth' \in [1..n -> Truth]
  /\ Grows(truth, truth')
  /\ stage' = [stage EXCEPT ![o] = "write"]
  /\ UNCHANGED <<now, file, purged>>
  /\ ~spoilt' => /\ ~spoilt /\ \A p \in Object : stage[p] = "idle"
                 /\ q.of \in purged \/ q.count = truth'[q.of].count

LEMMA MutatedStep ==
  ASSUME StoreInv, NEW o \in Object, NEW q, Mutated(o, q)
  PROVE  StoreInv'
<1>1. PICK n \in Nat \ {0} : truth \in [1..n -> Truth]
  BY DEF StoreInv, Earned
<1>2. PICK m \in Nat \ {0} : truth' \in [1..m -> Truth]
  BY DEF Mutated
<1>3. ASSUME NEW p, Backs(truth, p) PROVE Backs(truth', p)
  BY <1>1, <1>2, <1>3, BackedStill DEF Mutated
<1>4. /\ mem' = [mem EXCEPT ![o] = q] /\ Backs(truth', q)
      /\ stage' = [stage EXCEPT ![o] = "write"]
      /\ now' = now /\ file' = file /\ purged' = purged
  BY DEF Mutated
<1>5. /\ mem \in [Object -> Profile] /\ stage \in [Object -> {"idle", "write"}]
      /\ \A p \in Object : Backs(truth, mem[p])
      /\ file # NoFile => Backs(truth, file)
      /\ now \in Nat \ {0} /\ purged \subseteq Histories
  BY DEF StoreInv, Earned
<1>6. /\ mem' \in [Object -> Profile] /\ stage' \in [Object -> {"idle", "write"}]
      /\ mem'[o] = q /\ stage'[o] = "write"
      /\ \A p \in Object : p # o => mem'[p] = mem[p] /\ stage'[p] = stage[p]
  BY <1>4, <1>5 DEF Backs
<1>7. Earned'
  <2>1. \A p \in Object : Backs(truth', mem'[p])
    BY <1>3, <1>4, <1>5, <1>6
  <2>2. file' # NoFile => Backs(truth', file')
    BY <1>3, <1>4, <1>5
  <2>3. purged' \subseteq Histories'
    BY <1>1, <1>2, <1>4, <1>5 DEF Histories, Mutated, Grows
  <2> QED
    BY <1>2, <1>4, <1>5, <1>6, <2>1, <2>2, <2>3 DEF Earned
<1>8. ASSUME ~spoilt' PROVE InTurn' /\ AllRecorded' /\ FileIsAhead'
  <2>1. /\ ~spoilt /\ \A p \in Object : stage[p] = "idle"
        /\ q.of \in purged' \/ q.count = truth'[q.of].count
    BY <1>4, <1>8 DEF Mutated
  <2>2. \A p \in Object : stage'[p] = "write" => p = o
    BY <1>6, <2>1
  <2>3. ~Quiescent'
    BY <1>6 DEF Quiescent
  <2>4. AllRecorded'
    BY <1>6, <2>1, <2>2, <2>3 DEF AllRecorded, Settled
  <2>5. FileIsAhead'
    BY <1>4, <1>6, <2>1 DEF FileIsAhead, StoreInv
  <2> QED
    BY <2>2, <2>4, <2>5 DEF InTurn
<1> QED
  BY <1>7, <1>8 DEF StoreInv

(* The copy a mutation starts from.                                        *)
LEMMA LoadedBacked ==
  ASSUME StoreInv, NEW o \in Object, NEW readable \in BOOLEAN
  PROVE  /\ Backs(truth, Loaded(o, readable))
         /\ ~spoilt /\ readable /\ Quiescent => Settled(Loaded(o, readable))
<1>1. Backs(truth, Loaded(o, readable))
  BY DEF StoreInv, Earned, Loaded
<1>2. ~spoilt /\ readable /\ Quiescent => Settled(Loaded(o, readable))
  BY DEF StoreInv, AllRecorded, Loaded
<1> QED
  BY <1>1, <1>2

LEMMA AddTxnIs ==
  ASSUME NEW p \in Profile, now \in Nat
  PROVE  /\ AddTxn(p) \in Profile /\ AddTxn(p).of = p.of
         /\ AddTxn(p).count = p.count + 1
         /\ AddTxn(p).last = now /\ AddTxn(p).created = p.created
<1>1. p.count \in Nat
  BY DEF Profile
<1>2. p.count + 1 \in Nat
  BY <1>1
<1> DEFINE k == p.count + 1
<1>3. AddTxn(p) = [p EXCEPT !.count = k, !.last = now]
  BY DEF AddTxn
<1>4. k \in Nat
  BY <1>2
<1> HIDE DEF k
<1> DEFINE y == [p EXCEPT !.count = k, !.last = now]
<1>5. /\ y \in Profile /\ y.of = p.of /\ y.count = k
      /\ y.last = now /\ y.created = p.created
  BY <1>4 DEF Profile
<1> QED
  BY <1>3, <1>5 DEF k

(* record_transaction.                                                     *)
LEMMA RecordMutates ==
  ASSUME StoreInv, NEW o \in Object, NEW readable \in BOOLEAN, Record(o, readable)
  PROVE  Mutated(o, AddTxn(Loaded(o, readable)))
<1> DEFINE p == Loaded(o, readable)
           h == p.of
<1>1. PICK n \in Nat \ {0} : truth \in [1..n -> Truth]
  BY DEF StoreInv, Earned
<1>2. p \in Profile /\ h \in 1..n /\ Backs(truth, p)
      /\ (~spoilt /\ readable /\ Quiescent => Settled(p))
  BY <1>1, LoadedBacked DEF Backs
<1>3. /\ mem' = [mem EXCEPT ![o] = AddTxn(p)]
      /\ stage' = [stage EXCEPT ![o] = "write"]
      /\ UNCHANGED <<now, file, purged>>
      /\ truth' = [truth EXCEPT ![h].count = @ + 1,
                                ![h].last = IF now > @ THEN now ELSE @]
  BY DEF Record, RecordOn, Mutate
<1>s. spoilt' = (spoilt \/ Overlaps(o) \/ ~readable)
  BY DEF Record, RecordOn, Mutate
<1> HIDE DEF p
<1>4. now \in Nat \ {0}
  BY DEF StoreInv, Earned
<1>5. /\ truth[h] \in Truth /\ truth' \in [1..n -> Truth]
      /\ truth'[h].count = truth[h].count + 1
      /\ truth'[h].last = (IF now > truth[h].last THEN now ELSE truth[h].last)
      /\ truth'[h].begun = truth[h].begun
      /\ \A g \in 1..n : g # h => truth'[g] = truth[g]
  <2> DEFINE k == truth[h].count + 1
             l == IF now > truth[h].last THEN now ELSE truth[h].last
             x == [truth[h] EXCEPT !.count = k, !.last = l]
  <2>1. truth[h] \in Truth
    BY <1>1, <1>2
  <2>2. k \in Nat /\ l \in Nat
    BY <1>4, <2>1 DEF Truth
  <2>3. truth' = [truth EXCEPT ![h] = x]
    BY <1>1, <1>2, <1>3
  <2>4. x \in Truth /\ x.count = k /\ x.last = l /\ x.begun = truth[h].begun
    <3> HIDE DEF k, l
    <3> QED
      BY <2>1, <2>2 DEF Truth
  <2> HIDE DEF x, h
  <2>5. /\ truth' \in [1..n -> Truth] /\ truth'[h] = x
        /\ \A g \in 1..n : g # h => truth'[g] = truth[g]
    BY <1>1, <1>2, <2>3, <2>4
  <2> QED
    BY <2>1, <2>4, <2>5
<1>6. Grows(truth, truth')
  <2> SUFFICES ASSUME NEW g \in 1..n
               PROVE  /\ truth[g].count <= truth'[g].count
                      /\ truth[g].last <= truth'[g].last
                      /\ truth'[g].begun <= truth[g].begun
    BY <1>1, <1>5 DEF Grows
  <2>1. truth[g].count \in Nat /\ truth[g].last \in Nat /\ truth[g].begun \in Int
    BY <1>1 DEF Truth
  <2> QED
    BY <1>4, <1>5, <2>1
<1>7. Backs(truth', AddTxn(p))
  <2>1. /\ AddTxn(p) \in Profile /\ AddTxn(p).of = h /\ AddTxn(p).count = p.count + 1
        /\ AddTxn(p).last = now /\ AddTxn(p).created = p.created
    BY <1>2, <1>4, AddTxnIs
  <2>2. /\ p.count \in Nat /\ truth[h].count \in Nat /\ truth[h].last \in Nat
        /\ p.count <= truth[h].count /\ truth[h].begun <= p.created
    BY <1>2, <1>5 DEF Backs, Profile, Truth
  <2>3. AddTxn(p).count <= truth'[h].count /\ AddTxn(p).last <= truth'[h].last
    BY <1>4, <1>5, <2>1, <2>2
  <2> QED
    BY <1>2, <1>5, <2>1, <2>2, <2>3 DEF Backs
<1>8. ASSUME ~spoilt'
      PROVE  /\ ~spoilt /\ \A r \in Object : stage[r] = "idle"
             /\ AddTxn(p).of \in purged \/ AddTxn(p).count = truth'[AddTxn(p).of].count
  <2>1. ~spoilt /\ ~Overlaps(o) /\ readable
    BY <1>8, <1>s
  <2>2. Quiescent
    BY <2>1 DEF Overlaps, Quiescent, StoreInv, Earned
  <2>3. h \in purged \/ p.count = truth[h].count
    BY <1>2, <2>1, <2>2 DEF Settled
  <2>4. AddTxn(p).of = h /\ AddTxn(p).count = p.count + 1
    BY <1>2, <1>4, AddTxnIs
  <2> QED
    BY <1>5, <2>1, <2>2, <2>3, <2>4 DEF Quiescent
<1> QED
  BY <1>3, <1>5, <1>6, <1>7, <1>8 DEF Mutated, p

(* record_location and set_home.                                           *)
LEMMA RecordLocationMutates ==
  ASSUME StoreInv, NEW o \in Object, NEW readable \in BOOLEAN,
         RecordLocation(o, readable)
  PROVE  Mutated(o, Loaded(o, readable))
<1> DEFINE p == Loaded(o, readable)
<1>1. PICK n \in Nat \ {0} : truth \in [1..n -> Truth]
  BY DEF StoreInv, Earned
<1>2. Backs(truth, p) /\ (~spoilt /\ readable /\ Quiescent => Settled(p))
  BY LoadedBacked
<1>3. /\ mem' = [mem EXCEPT ![o] = p]
      /\ stage' = [stage EXCEPT ![o] = "write"]
      /\ UNCHANGED <<now, file, purged, truth>>
  BY DEF RecordLocation, Mutate
<1>4. spoilt' = (spoilt \/ Overlaps(o) \/ ~readable)
  BY DEF RecordLocation, Mutate
<1> HIDE DEF p
<1>5. Grows(truth, truth')
  <2> SUFFICES ASSUME NEW g \in 1..n
               PROVE  truth[g].count <= truth[g].count /\ truth[g].last <= truth[g].last
                      /\ truth[g].begun <= truth[g].begun
    BY <1>1, <1>3 DEF Grows
  <2>1. truth[g].count \in Nat /\ truth[g].last \in Nat /\ truth[g].begun \in Int
    BY <1>1 DEF Truth
  <2> QED
    BY <2>1
<1>6. ASSUME ~spoilt'
      PROVE  /\ ~spoilt /\ \A r \in Object : stage[r] = "idle"
             /\ p.of \in purged \/ p.count = truth'[p.of].count
  <2>1. ~spoilt /\ ~Overlaps(o) /\ readable
    BY <1>4, <1>6
  <2>2. Quiescent
    BY <2>1 DEF Overlaps, Quiescent, StoreInv, Earned
  <2> QED
    BY <1>2, <1>3, <2>1, <2>2 DEF Settled, Quiescent
<1> QED
  BY <1>1, <1>2, <1>3, <1>5, <1>6 DEF Mutated, p

(* A mutation that begins a new history: nothing of it can be missing yet. *)
LEMMA BeginsHistory ==
  ASSUME StoreInv, NEW o \in Object, NEW q, NEW x \in Truth,
         q \in Profile, q.count = 0, q.last = 0, q.of = Current + 1,
         x.count = 0, x.last = 0, x.begun = q.created,
         mem' = [mem EXCEPT ![o] = q], stage' = [stage EXCEPT ![o] = "write"],
         UNCHANGED <<now, file, purged>>, truth' = WithHistory(x),
         ~spoilt' => ~spoilt /\ ~Overlaps(o)
  PROVE  Mutated(o, q)
<1>1. PICK n \in Nat \ {0} : truth \in [1..n -> Truth]
  BY DEF StoreInv, Earned
<1>2. /\ truth' \in [1..(n + 1) -> Truth] /\ Grows(truth, truth')
      /\ Current + 1 = n + 1 /\ truth'[n + 1] = x
  BY <1>1, NewHistory
<1>3. q.created \in Int
  BY DEF Profile
<1>4. Backs(truth', q)
  BY <1>2, <1>3 DEF Backs
<1>5. ~spoilt' => \A p \in Object : stage[p] = "idle"
  BY DEF Overlaps, StoreInv, Earned
<1>6. q.count = truth'[q.of].count
  BY <1>2
<1>7. n + 1 \in Nat \ {0}
  BY <1>1
<1> QED
  BY <1>2, <1>4, <1>5, <1>6, <1>7 DEF Mutated

(* seed_mature.                                                            *)
LEMMA SeedMutates ==
  ASSUME StoreInv, NEW o \in Object, NEW readable \in BOOLEAN, Seed(o, readable)
  PROVE  \E q : Mutated(o, q)
<1> DEFINE p == Loaded(o, readable)
           c == now - MinAge - 1
           k == Current + 1
           q == [p EXCEPT !.count = 0, !.last = 0, !.created = c, !.of = k]
           x == [NoTruth EXCEPT !.begun = c, !.seeded = TRUE]
<1>1. PICK n \in Nat \ {0} : truth \in [1..n -> Truth]
  BY DEF StoreInv, Earned
<1>2. k \in Nat \ {0} /\ c \in Int /\ now \in Int
  BY <1>1, CurrentIsLast, ProfileAssumption DEF StoreInv, Earned
<1>3. p \in Profile
  BY LoadedBacked DEF Backs
<1>4. /\ mem' = [mem EXCEPT ![o] = q] /\ stage' = [stage EXCEPT ![o] = "write"]
      /\ UNCHANGED <<now, file, purged>> /\ truth' = WithHistory(x)
  BY DEF Seed, Mutate
<1>5. ~spoilt' => ~spoilt /\ ~Overlaps(o)
  BY DEF Seed, Mutate
<1>6. q \in Profile /\ q.count = 0 /\ q.last = 0 /\ q.created = c /\ q.of = k
  <2> HIDE DEF p, c, k
  <2> QED
    BY <1>2, <1>3 DEF Profile
<1>7. x \in Truth /\ x.count = 0 /\ x.last = 0 /\ x.begun = c
  <2> HIDE DEF c
  <2> QED
    BY <1>2 DEF Truth, NoTruth
<1> HIDE DEF q, x, p, c
<1> QED
  BY <1>4, <1>5, <1>6, <1>7, BeginsHistory

(* reset_bootstrap.                                                        *)
LEMMA ResetMutates ==
  ASSUME StoreInv, NEW o \in Object, ResetBootstrap(o)
  PROVE  \E q : Mutated(o, q)
<1> DEFINE k == Current + 1
           q == Fresh(k)
<1>1. PICK n \in Nat \ {0} : truth \in [1..n -> Truth]
  BY DEF StoreInv, Earned
<1>2. k \in Nat \ {0} /\ now \in Int
  BY <1>1, CurrentIsLast DEF StoreInv, Earned
<1>3. /\ mem' = [mem EXCEPT ![o] = q] /\ stage' = [stage EXCEPT ![o] = "write"]
      /\ UNCHANGED <<now, file, purged>> /\ truth' = WithHistory(NoTruth)
  BY DEF ResetBootstrap, Mutate
<1>4. ~spoilt' => ~spoilt /\ ~Overlaps(o)
  BY DEF ResetBootstrap, Mutate
<1>5. q \in Profile /\ q.count = 0 /\ q.last = 0 /\ q.created = now /\ q.of = k
  <2> HIDE DEF k
  <2> QED
    BY <1>2 DEF Profile, Fresh
<1>6. NoTruth \in Truth /\ NoTruth.count = 0 /\ NoTruth.last = 0 /\ NoTruth.begun = now
  BY <1>2 DEF Truth, NoTruth
<1> HIDE DEF q
<1> QED
  BY <1>3, <1>4, <1>5, <1>6, BeginsHistory

-----------------------------------------------------------------------------
LEMMA NoFileIsNoProfile == NoFile \notin Profile
<1> SUFFICES ASSUME NoFile \in Profile PROVE FALSE
  OBVIOUS
<1>1. "missing" \in DOMAIN NoFile
  BY DEF NoFile
<1>2. DOMAIN NoFile = {"count", "last", "created", "of"}
  BY DEF Profile
<1> QED
  BY <1>1, <1>2

(* The file is replaced by the copy of the one object that was writing.    *)
LEMMA WriteStep ==
  ASSUME StoreInv, NEW o \in Object, NEW ok \in BOOLEAN, Write(o, ok)
  PROVE  StoreInv'
<1>1. PICK n \in Nat \ {0} : truth \in [1..n -> Truth]
  BY DEF StoreInv, Earned
<1>2. /\ stage[o] = "write" /\ file' = (IF ok THEN mem[o] ELSE file)
      /\ stage' = [stage EXCEPT ![o] = "idle"]
      /\ UNCHANGED <<now, mem, truth, purged>>
  BY DEF Write
<1>3. ~spoilt' => ~spoilt /\ ok
  BY DEF Write
<1>4. /\ mem \in [Object -> Profile] /\ stage \in [Object -> {"idle", "write"}]
      /\ \A p \in Object : Backs(truth, mem[p])
  BY DEF StoreInv, Earned
<1>5. Earned'
  BY <1>1, <1>2, <1>4 DEF StoreInv, Earned, Histories, Backs
<1>6. ASSUME ~spoilt' PROVE InTurn' /\ AllRecorded' /\ FileIsAhead'
  <2>1. InTurn /\ AllRecorded /\ file' = mem[o] /\ file' # NoFile
    BY <1>2, <1>3, <1>4, <1>6, NoFileIsNoProfile DEF StoreInv
  <2>2. \A p \in Object : stage'[p] = "idle"
    BY <1>2, <1>4, <2>1 DEF InTurn
  <2>3. Settled(mem[o])
    BY <1>2, <2>1 DEF AllRecorded
  <2>4. AllRecorded' /\ InTurn'
    BY <1>2, <2>1, <2>2, <2>3 DEF AllRecorded, InTurn, Settled
  <2>5. ASSUME NEW p \in Object, mem[o].of = mem[p].of, mem[o].of \notin purged
        PROVE  mem[p].count <= mem[o].count
    <3>1. mem[o].count = truth[mem[p].of].count
      BY <2>3, <2>5 DEF Settled
    <3> QED
      BY <1>4, <3>1 DEF Backs
  <2>6. FileIsAhead'
    BY <1>2, <2>1, <2>5 DEF FileIsAhead
  <2> QED
    BY <2>4, <2>6
<1> QED
  BY <1>5, <1>6 DEF StoreInv

(* What a new object, or a process that starts again, does: the copies of  *)
(* the objects in S are taken from the file.                               *)
Reopened(S) ==
  /\ mem' = [o \in Object |-> IF o \in S THEN Opened ELSE mem[o]]
  /\ stage' = [o \in Object |-> IF o \in S THEN "idle" ELSE stage[o]]
  /\ BeginNow
  /\ UNCHANGED <<now, file, purged>>
  /\ ~spoilt' => ~spoilt /\ \A o \in Object \cap S : stage[o] = "idle"

(* A history that has not come to the file yet may begin earlier.          *)
LEMMA BeginsEarlier ==
  ASSUME NEW n \in Nat \ {0}, truth \in [1..n -> Truth], now \in Nat, BeginNow
  PROVE  /\ truth' \in [1..n -> Truth] /\ Grows(truth, truth')
         /\ \A h \in 1..n : truth'[h].count = truth[h].count
         /\ file = NoFile => truth'[n].begun <= now
<1>1. Current = n /\ n \in 1..n
  BY CurrentIsLast
<1>2. \A h \in 1..n : /\ truth[h] \in Truth /\ truth[h].count \in Nat
                      /\ truth[h].last \in Nat /\ truth[h].begun \in Int
  BY DEF Truth
<1>3. CASE file = NoFile /\ now < truth[n].begun
  <2> DEFINE x == [truth[n] EXCEPT !.begun = now]
  <2>1. truth' = [truth EXCEPT ![n] = x]
    BY <1>1, <1>3 DEF BeginNow
  <2>2. x \in Truth /\ x.count = truth[n].count /\ x.last = truth[n].last
        /\ x.begun = now
    BY <1>1, <1>2 DEF Truth
  <2> HIDE DEF x
  <2>3. truth' \in [1..n -> Truth] /\ truth'[n] = x
        /\ \A h \in 1..n : h # n => truth'[h] = truth[h]
    BY <1>1, <2>1, <2>2
  <2>4. \A h \in 1..n : /\ truth'[h].count = truth[h].count
                        /\ truth'[h].last = truth[h].last
                        /\ truth'[h].begun <= truth[h].begun
    BY <1>1, <1>2, <1>3, <2>2, <2>3
  <2>5. Grows(truth, truth')
    BY <1>2, <2>3, <2>4 DEF Grows
  <2> QED
    BY <2>2, <2>3, <2>4, <2>5
<1>4. CASE ~(file = NoFile /\ now < truth[n].begun)
  <2>1. truth' = truth
    BY <1>1, <1>4 DEF BeginNow
  <2>2. Grows(truth, truth')
    BY <1>2, <2>1 DEF Grows
  <2>3. file = NoFile => truth'[n].begun <= now
    BY <1>1, <1>2, <1>4, <2>1
  <2> QED
    BY <2>1, <2>2, <2>3
<1> QED
  BY <1>3, <1>4

LEMMA ReopenedStep ==
  ASSUME StoreInv, NEW S, Reopened(S)
  PROVE  StoreInv'
<1>1. PICK n \in Nat \ {0} : truth \in [1..n -> Truth]
  BY DEF StoreInv, Earned
<1>2. /\ now \in Nat \ {0} /\ stage \in [Object -> {"idle", "write"}]
      /\ mem \in [Object -> Profile] /\ \A o \in Object : Backs(truth, mem[o])
      /\ file # NoFile => Backs(truth, file)
      /\ purged \subseteq Histories
  BY DEF StoreInv, Earned
<1>3. /\ truth' \in [1..n -> Truth] /\ Grows(truth, truth')
      /\ \A h \in 1..n : truth'[h].count = truth[h].count
      /\ file = NoFile => truth'[n].begun <= now
  BY <1>1, <1>2, BeginsEarlier DEF Reopened
<1>4. ASSUME NEW p, Backs(truth, p) PROVE Backs(truth', p)
  BY <1>1, <1>3, <1>4, BackedStill
<1>5. /\ \A o \in Object : o \in S => mem'[o] = Opened /\ stage'[o] = "idle"
      /\ \A o \in Object : o \notin S => mem'[o] = mem[o] /\ stage'[o] = stage[o]
      /\ mem' = [o \in Object |-> mem'[o]] /\ stage' = [o \in Object |-> stage'[o]]
      /\ now' = now /\ file' = file /\ purged' = purged
  BY DEF Reopened
<1>6. Current = n /\ Histories = 1..n /\ Current' = n /\ Histories' = 1..n
  <2>1. Current = n /\ Histories = 1..n
    BY <1>1, CurrentIsLast
  <2>2. Histories' = Histories
    BY <1>1, <1>3 DEF Histories
  <2> QED
    BY <2>1, <2>2 DEF Current
<1>7. Backs(truth', Opened)
  <2>1. CASE file = NoFile
    <3>1. Opened = [count |-> 0, last |-> 0, created |-> now, of |-> n]
      BY <1>6, <2>1 DEF Opened, Fresh
    <3>2. truth'[n].count \in Nat /\ truth'[n].last \in Nat
      BY <1>3 DEF Truth
    <3> QED
      BY <1>2, <1>3, <2>1, <3>1, <3>2 DEF Backs, Profile
  <2>2. CASE file # NoFile
    BY <1>2, <1>4, <2>2 DEF Opened
  <2> QED
    BY <2>1, <2>2
<1>8. Earned'
  <2>1. ASSUME NEW o \in Object PROVE Backs(truth', mem'[o])
    BY <1>2, <1>4, <1>5, <1>7
  <2>2. mem' \in [Object -> Profile] /\ stage' \in [Object -> {"idle", "write"}]
    BY <1>2, <1>5, <2>1 DEF Backs
  <2>3. file' # NoFile => Backs(truth', file')
    BY <1>2, <1>4, <1>5
  <2> QED
    BY <1>2, <1>3, <1>5, <1>6, <2>1, <2>2, <2>3 DEF Earned
<1>9. ASSUME ~spoilt' PROVE InTurn' /\ AllRecorded' /\ FileIsAhead'
  <2>1. /\ ~spoilt /\ \A o \in Object : stage'[o] = stage[o]
        /\ InTurn /\ AllRecorded /\ FileIsAhead
    BY <1>5, <1>9 DEF Reopened, StoreInv
  <2>2. ASSUME NEW p, Backs(truth, p), Settled(p)
        PROVE  p.of \in purged' \/ p.count = truth'[p.of].count
    BY <1>1, <1>3, <1>5, <2>2 DEF Settled, Backs
  <2>3. InTurn'
    BY <2>1 DEF InTurn
  <2>4. Quiescent' <=> Quiescent
    BY <2>1 DEF Quiescent
  <2>5. ASSUME NEW o \in Object, stage'[o] = "write" PROVE Settled(mem[o])'
    BY <1>2, <1>5, <2>1, <2>2, <2>5 DEF AllRecorded, Settled
  <2>6. Quiescent' /\ file' # NoFile => Settled(file)'
    BY <1>2, <1>5, <2>1, <2>2, <2>4 DEF AllRecorded, Settled
  <2>7. ASSUME Quiescent', file' = NoFile
        PROVE  /\ \A o \in Object : Settled(mem[o])'
               /\ n \in purged' \/ truth'[n].count = 0
    <3>1. n \in purged' \/ truth'[n].count = 0
      BY <1>3, <1>5, <1>6, <2>1, <2>4, <2>7 DEF AllRecorded
    <3>2. Opened.of = n /\ Opened.count = 0
      BY <1>5, <1>6, <2>7 DEF Opened, Fresh
    <3>3. \A o \in Object : Settled(mem[o])
      BY <1>5, <2>1, <2>4, <2>7 DEF AllRecorded
    <3>4. ASSUME NEW o \in Object PROVE Settled(mem[o])'
      BY <1>2, <1>5, <2>2, <3>1, <3>2, <3>3 DEF Settled
    <3> QED
      BY <3>1, <3>4
  <2>8. AllRecorded'
    BY <1>6, <2>5, <2>6, <2>7 DEF AllRecorded
  <2>9. FileIsAhead'
    <3>1. file # NoFile => Opened = file /\ file.count \in Nat
      BY <1>2 DEF Opened, Backs, Profile
    <3> QED
      BY <1>5, <2>1, <3>1 DEF FileIsAhead
  <2> QED
    BY <2>3, <2>8, <2>9
<1> QED
  BY <1>8, <1>9 DEF StoreInv

(* A purge ends every history there is.                                    *)
LEMMA PurgeStep ==
  ASSUME StoreInv, Purge
  PROVE  StoreInv'
<1>1. PICK n \in Nat \ {0} : truth \in [1..n -> Truth]
  BY DEF StoreInv, Earned
<1>2. /\ now \in Nat \ {0} /\ stage \in [Object -> {"idle", "write"}]
      /\ mem \in [Object -> Profile] /\ \A o \in Object : Backs(truth, mem[o])
      /\ purged \subseteq Histories
  BY DEF StoreInv, Earned
<1>3. /\ file' = NoFile /\ purged' = purged \cup Histories
      /\ truth' = WithHistory(NoTruth)
      /\ UNCHANGED <<now, mem, stage, spoilt>>
  BY DEF Purge
<1>4. NoTruth \in Truth /\ NoTruth.count = 0
  BY <1>2 DEF NoTruth, Truth
<1>5. /\ truth' \in [1..(n + 1) -> Truth] /\ Grows(truth, truth')
      /\ truth'[n + 1] = NoTruth
  BY <1>1, <1>3, <1>4, NewHistory
<1>6. Histories = 1..n /\ Histories' = 1..(n + 1)
  BY <1>1, <1>5 DEF Histories
<1>7. ASSUME NEW p, Backs(truth, p) PROVE Backs(truth', p)
  BY <1>1, <1>5, <1>7, BackedStill
<1>8. Earned'
  BY <1>1, <1>2, <1>3, <1>5, <1>6, <1>7 DEF Earned
<1>9. ASSUME ~spoilt' PROVE InTurn' /\ AllRecorded' /\ FileIsAhead'
  <2>1. InTurn /\ AllRecorded
    BY <1>3, <1>9 DEF StoreInv
  <2>2. \A o \in Object : Settled(mem[o])'
    BY <1>2, <1>3 DEF Settled, Backs, Histories
  <2>3. Current' = n + 1
    <3>1. n + 1 \in Nat \ {0}
      BY <1>1
    <3> DEFINE l == n + 1
    <3>2. Histories' = 1..l /\ l \in Nat \ {0}
      BY <1>6, <3>1
    <3> HIDE DEF l
    <3>3. l \in Histories' /\ \A g \in Histories' : g <= l
      BY <3>2
    <3>4. \A h \in Histories' : (\A g \in Histories' : g <= h) => h = l
      BY <3>2, <3>3
    <3>5. Current' \in Histories' /\ \A g \in Histories' : g <= Current'
      BY <3>3 DEF Current
    <3> QED
      BY <3>4, <3>5 DEF l
  <2>4. AllRecorded'
    BY <1>3, <1>4, <1>5, <2>2, <2>3 DEF AllRecorded
  <2> QED
    BY <1>3, <2>1, <2>4 DEF InTurn, FileIsAhead
<1> QED
  BY <1>8, <1>9 DEF StoreInv

LEMMA StoreInitInv == StoreInit => StoreInv
<1> SUFFICES ASSUME StoreInit PROVE StoreInv
  OBVIOUS
<1>1. /\ now = 1 /\ truth = [h \in {1} |-> NoTruth]
      /\ mem = [o \in Object |-> Fresh(1)] /\ file = NoFile
      /\ stage = [o \in Object |-> "idle"] /\ purged = {}
  BY DEF StoreInit
<1>2. NoTruth \in Truth /\ NoTruth.count = 0 /\ NoTruth.last = 0 /\ NoTruth.begun = 1
  BY <1>1 DEF NoTruth, Truth
<1>3. truth \in [1..1 -> Truth] /\ truth[1] = NoTruth
  BY <1>1, <1>2
<1>4. Current = 1 /\ Histories = 1..1
  BY <1>3, CurrentIsLast
<1>5. Fresh(1) = [count |-> 0, last |-> 0, created |-> 1, of |-> 1]
  BY <1>1 DEF Fresh
<1>6. Fresh(1) \in Profile /\ Backs(truth, Fresh(1))
  BY <1>2, <1>3, <1>5 DEF Backs, Profile
<1>7. Earned
  BY <1>1, <1>3, <1>6 DEF Earned
<1>8. \A o \in Object : Settled(mem[o])
  BY <1>1, <1>2, <1>3, <1>5 DEF Settled
<1>9. AllRecorded
  BY <1>1, <1>2, <1>3, <1>4, <1>8 DEF AllRecorded
<1>10. InTurn /\ FileIsAhead
  BY <1>1 DEF InTurn, FileIsAhead
<1> QED
  BY <1>7, <1>9, <1>10 DEF StoreInv

LEMMA ClockStep ==
  ASSUME StoreInv, now' \in Nat \ {0},
         UNCHANGED <<mem, file, stage, truth, spoilt, purged>>
  PROVE  StoreInv'
<1>1. Histories' = Histories /\ Current' = Current
  BY DEF Histories, Current
<1>2. Earned'
  BY <1>1 DEF StoreInv, Earned
<1>3. ASSUME ~spoilt' PROVE InTurn' /\ AllRecorded' /\ FileIsAhead'
  <2>1. ~spoilt
    BY <1>3, Zenon
  <2>2. InTurn /\ AllRecorded /\ FileIsAhead
    BY <2>1 DEF StoreInv
  <2>3. InTurn' /\ FileIsAhead'
    BY <2>2 DEF InTurn, FileIsAhead
  <2>4. AllRecorded'
    BY <1>1, <2>2 DEF AllRecorded, Settled, Quiescent
  <2> QED
    BY <2>3, <2>4
<1> QED
  BY <1>2, <1>3 DEF StoreInv

LEMMA StoreInvStep == StoreInv /\ [StoreNext]_storeVars => StoreInv'
<1> SUFFICES ASSUME StoreInv, [StoreNext]_storeVars PROVE StoreInv'
  OBVIOUS
<1>1. ASSUME NEW o \in Object, NEW readable \in BOOLEAN, Record(o, readable)
      PROVE  StoreInv'
  BY <1>1, RecordMutates, MutatedStep
<1>2. ASSUME NEW o \in Object, NEW readable \in BOOLEAN, RecordLocation(o, readable)
      PROVE  StoreInv'
  BY <1>2, RecordLocationMutates, MutatedStep
<1>3. ASSUME NEW o \in Object, NEW readable \in BOOLEAN, Seed(o, readable)
      PROVE  StoreInv'
  BY <1>3, SeedMutates, MutatedStep
<1>4. ASSUME NEW o \in Object, ResetBootstrap(o)
      PROVE  StoreInv'
  BY <1>4, ResetMutates, MutatedStep
<1>5. ASSUME NEW o \in Object, Open(o)
      PROVE  StoreInv'
  <2>1. Reopened({o})
    <3>1. /\ mem' = [p \in Object |-> IF p \in {o} THEN Opened ELSE mem[p]]
          /\ stage' = [p \in Object |-> IF p \in {o} THEN "idle" ELSE stage[p]]
      BY <1>5 DEF Open, StoreInv, Earned
    <3> QED
      BY <1>5, <3>1 DEF Open, Reopened
  <2> QED
    BY <2>1, ReopenedStep
<1>6. ASSUME NEW p \in Process, Restart(p)
      PROVE  StoreInv'
  <2>1. Reopened({o \in Object : host[o] = p})
    BY <1>6 DEF Restart, Reopened, StoreInv, Earned
  <2> QED
    BY <2>1, ReopenedStep
<1>7. CASE SetClock
  <2>1. now' \in Nat \ {0} /\ UNCHANGED <<mem, file, stage, truth, spoilt, purged>>
    BY <1>7, ProfileBoundAssumption DEF SetClock
  <2> QED
    BY <2>1, ClockStep
<1>8. CASE UNCHANGED storeVars
  <2>1. UNCHANGED <<now, mem, file, stage, truth, spoilt, purged>>
    BY <1>8 DEF storeVars
  <2> QED
    BY <2>1, ClockStep DEF StoreInv, Earned
<1> QED
  BY <1>1, <1>2, <1>3, <1>4, <1>5, <1>6, <1>7, <1>8, WriteStep, PurgeStep
  DEF StoreNext

LEMMA StoreInvariance == StoreSpec => []StoreInv
BY StoreInitInv, StoreInvStep, PTL DEF StoreSpec

(* As long as mutations take turns and nothing fails, the file has every   *)
(* transaction of its history (ProfileStore._mutate).                      *)
THEOREM NothingLost == StoreSpec => []LostOnlyBySharing
<1>1. ASSUME StoreInv PROVE LostOnlyBySharing
  BY <1>1 DEF StoreInv, AllRecorded, Quiescent, Settled, LostOnlyBySharing
<1> QED
  BY <1>1, StoreInvariance, PTL

(* Nobody is called mature for transactions that were not made             *)
(* (ProfileStore.is_mature).                                               *)
THEOREM EarnedMaturity == StoreSpec => []MatureIsEarned
<1>1. ASSUME StoreInv, NEW o \in Object, Mature(mem[o])
      PROVE  LET t == truth[mem[o].of]
             IN  t.count >= MinTxns /\ now - t.last <= StaleAfter /\ now - t.begun >= MinAge
  <2> DEFINE p == mem[o]
             t == truth[p.of]
  <2>1. Backs(truth, p) /\ now \in Int
    BY <1>1 DEF StoreInv, Earned
  <2>2. t \in Truth /\ p \in Profile
    BY <1>1, <2>1 DEF StoreInv, Earned, Backs
  <2>3. /\ t.count \in Nat /\ t.last \in Nat /\ t.begun \in Int
        /\ p.count \in Nat /\ p.last \in Nat /\ p.created \in Int
    BY <2>2 DEF Truth, Profile
  <2>4. /\ p.count >= MinTxns /\ now - p.last <= StaleAfter /\ now - p.created >= MinAge
    BY <1>1 DEF Mature, Recent
  <2>5. p.count <= t.count /\ p.last <= t.last /\ t.begun <= p.created
    BY <2>1 DEF Backs
  <2> HIDE DEF p, t
  <2>6. t.count >= MinTxns /\ now - t.last <= StaleAfter /\ now - t.begun >= MinAge
    BY <2>1, <2>3, <2>4, <2>5, ProfileAssumption
  <2> QED
    BY <2>6 DEF t, p
<1>2. StoreInv => MatureIsEarned
  BY <1>1 DEF MatureIsEarned
<1> QED
  BY <1>2, StoreInvariance, PTL

(* A transaction moves the epoch that a cached decision goes by.           *)
THEOREM EpochChanges == StoreSpec => EpochMoves
<1> DEFINE
      Moves(o) ==
        \/ Epoch(mem'[o]) # Epoch(mem[o])
        \/ now < mem[o].last
        \/ mem'[o].of # mem[o].of \/ mem[o].of \in purged
<1>1. ASSUME StoreInv, ~spoilt, NEW o \in Object, Record(o, TRUE)
      PROVE  Moves(o)
  <2> DEFINE p == Loaded(o, TRUE)
             q == AddTxn(p)
  <2>1. /\ mem \in [Object -> Profile] /\ now \in Nat
        /\ stage \in [Object -> {"idle", "write"}]
    BY <1>1 DEF StoreInv, Earned
  <2>2. p \in Profile
    BY <1>1, LoadedBacked DEF Backs
  <2>3. mem'[o] = q
    BY <1>1, <2>1 DEF Record, RecordOn, Mutate
  <2>4. q.of = p.of /\ q.count = p.count + 1 /\ q.last = now
    BY <2>1, <2>2, AddTxnIs
  <2>5. stage[o] = "idle"
    BY <1>1 DEF Record, RecordOn, Mutate, LockFree
  <2>6. p.of = mem[o].of /\ mem[o].of \notin purged => mem[o].count <= p.count
    <3>1. CASE file = NoFile
      <4>1. p = mem[o] /\ mem[o].count \in Nat
        BY <2>1, <3>1 DEF Loaded, Profile
      <4>2. mem[o].count <= mem[o].count
        BY <4>1
      <4> HIDE DEF p
      <4> QED
        BY <4>1, <4>2
    <3>2. CASE file # NoFile
      BY <1>1, <2>5, <3>2 DEF Loaded, StoreInv, FileIsAhead
    <3> QED
      BY <3>1, <3>2
  <2>7. p.count \in Nat /\ mem[o].count \in Nat /\ mem[o].last \in Nat
    BY <2>1, <2>2 DEF Profile
  <2> HIDE DEF p, q
  <2>8. ASSUME p.of = mem[o].of, mem[o].of \notin purged, ~(now < mem[o].last)
        PROVE  q.count + q.last # mem[o].count + mem[o].last
    BY <2>1, <2>4, <2>6, <2>7, <2>8
  <2> QED
    BY <2>3, <2>4, <2>8 DEF Epoch
<1>2. StoreInv => [~spoilt => \A o \in Object : Record(o, TRUE) => Moves(o)]_storeVars
  BY <1>1
<1>3. StoreSpec =>
        [][~spoilt => \A o \in Object : Record(o, TRUE) => Moves(o)]_storeVars
  BY <1>2, StoreInvariance, PTL DEF StoreSpec
<1> QED
  BY <1>3 DEF EpochMoves

(* Every copy is a profile of a history that was begun, and no seeding has *)
(* more to record than a whole history.                                    *)
THEOREM StoreTypes == StoreSpec => []StoreTypeOK
<1> DEFINE Kinds == /\ host \in [Object -> Process]
                    /\ seeding \in [Object -> 0..MinTxns]
                    /\ spoilt \in BOOLEAN
<1>1. StoreInit => Kinds
  <2> SUFFICES ASSUME StoreInit PROVE Kinds
    OBVIOUS
  <2>1. spoilt \in BOOLEAN
    BY Zenon DEF StoreInit
  <2>2. host \in [Object -> Process] /\ seeding \in [Object -> 0..MinTxns]
    BY ProfileAssumption DEF StoreInit
  <2> QED
    BY <2>1, <2>2
<1>2. Kinds /\ [StoreNext]_storeVars => Kinds'
  <2> SUFFICES ASSUME Kinds, [StoreNext]_storeVars PROVE Kinds'
    OBVIOUS
  <2>1. spoilt' \in BOOLEAN
    BY Zenon DEF StoreNext, Record, RecordOn, RecordLocation, Seed, ResetBootstrap,
       Mutate, Write, Open, Restart, Purge, SetClock, storeVars
  <2>2. host' = host
    BY DEF StoreNext, Record, RecordOn, RecordLocation, Seed, ResetBootstrap,
       Mutate, Write, Open, Restart, Purge, SetClock, storeVars
  <2>3. seeding' \in [Object -> 0..MinTxns]
    <3>1. SeedTxns \in 0..MinTxns /\ 0 \in 0..MinTxns
      BY ProfileAssumption DEF SeedTxns
    <3>2. \A k \in 0..MinTxns : (IF k > 0 THEN k - 1 ELSE 0) \in 0..MinTxns
      BY ProfileAssumption
    <3>3. ASSUME NEW o \in Object, NEW readable \in BOOLEAN, Record(o, readable)
          PROVE  seeding' \in [Object -> 0..MinTxns]
      BY <3>2, <3>3 DEF Record, RecordOn
    <3> QED
      BY <3>1, <3>3 DEF StoreNext, RecordLocation, Seed, ResetBootstrap,
         Write, Open, Restart, Purge, SetClock, storeVars
  <2> QED
    BY <2>1, <2>2, <2>3
<1>3. StoreInv /\ Kinds => StoreTypeOK
  BY DEF StoreInv, Earned, Backs, StoreTypeOK, Histories
<1> QED
  BY <1>1, <1>2, <1>3, StoreInvariance, PTL DEF StoreSpec
=============================================================================
