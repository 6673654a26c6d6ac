----------------------- MODULE DashboardServer_proofs -----------------------
(***************************************************************************)
(* Proofs about the shared DriveAuth object, for any number of manual      *)
(* threads, objects and requests.  What a request sends is what its        *)
(* decision rests on, for an object not crowded has one holder, and each   *)
(* statement of that holder leaves what the later ones rely on.  The audit *)
(* chain is safe because, until an object is loaded beside another, every  *)
(* object that is held or cached is the same one, and it is up to date.    *)
(***************************************************************************)
EXTENDS DashboardServerProps, TLAPS

Keys == [driver : Drivers, mock : BOOLEAN]
Requesters == Manuals \cup {"live", "past"}
Obj == [key : Keys, by : [Inputs -> Requesters], otp : {"lane", "demo"},
        fresh : BOOLEAN, crowded : BOOLEAN]
LiveState ==
  [at : {"idle", "scores", "inputs", "decide", "answer"},
   obj : Objects \cup {None}, sent : SUBSET Inputs]
ManualState ==
  [at : {"idle", "scores", "save_otp", "set_otp", "decide", "restore",
         "context"},
   obj : Objects \cup {None}, sent : SUBSET Inputs, demo : BOOLEAN,
   prev : {"lane", "demo"}]

Types ==
  /\ want_mock \in BOOLEAN /\ slot \in Objects \cup {None}
  /\ objs \in [Objects -> Obj]
  /\ live \in LiveState /\ mn \in [Manuals -> ManualState]
  /\ forked \in BOOLEAN /\ overtaken \in BOOLEAN /\ requests \in Nat
  /\ live.at = "idle" <=> live.obj = None
  /\ \A m \in Manuals : mn[m].at = "idle" <=> mn[m].obj = None

(* An object that is not crowded has one holder.                           *)
OneHolder ==
  \A o \in Objects : ~objs[o].crowded =>
    /\ \A m, k \in Manuals : mn[m].obj = o /\ mn[k].obj = o => m = k
    /\ \A m \in Manuals : mn[m].obj = o => live.obj # o

LiveOwn ==
  live.obj \in Objects /\ ~objs[live.obj].crowded =>
    /\ live.at \in {"inputs", "decide"} =>
         \A i \in live.sent \cap Scores : objs[live.obj].by[i] = "live"
    /\ live.at = "decide" =>
         \A i \in live.sent : objs[live.obj].by[i] = "live"
    /\ objs[live.obj].otp = "lane"

ManualGood(m) ==
  mn[m].obj \in Objects /\ ~objs[mn[m].obj].crowded =>
    /\ mn[m].at \in {"save_otp", "set_otp", "decide"} =>
         \A i \in mn[m].sent \cap Scores : objs[mn[m].obj].by[i] = m
    /\ mn[m].at = "decide" => \A i \in mn[m].sent : objs[mn[m].obj].by[i] = m
    /\ mn[m].at \in {"set_otp", "decide", "restore"} => mn[m].prev = "lane"
    /\ objs[mn[m].obj].otp = "demo" <=>
         mn[m].at \in {"decide", "restore"} /\ mn[m].demo

ManualOwn == \A m \in Manuals : ManualGood(m)

NobodysOwn ==
  \A o \in Objects \ InUse : ~objs[o].crowded => objs[o].otp = "lane"

Held == InUse \cup ({slot} \ {None})

OneObject ==
  ~overtaken =>
    /\ ~forked
    /\ \A o, p \in Held : o = p
    /\ \A o \in Held : objs[o].fresh

InputsInv == OneHolder /\ LiveOwn /\ ManualOwn /\ NobodysOwn
IInv == Types /\ InputsInv /\ OneObject

LEMMA InitIInv == Init => IInv
<1> SUFFICES ASSUME Init PROVE IInv
  OBVIOUS
<1>1. NoObject \in Obj
  BY DEF NoObject, Loaded, Key, Keys, Drivers, Obj, Requesters
<1>2. NoManual \in ManualState
  BY DEF NoManual, ManualState
<1>3. Types
  BY <1>1, <1>2 DEF Init, Types, LiveState, NoLive, NoManual
<1>4. InputsInv
  BY ServerAssumption DEF Init, InputsInv, OneHolder, LiveOwn, ManualOwn, ManualGood,
     NobodysOwn, InUse, NoObject, NoLive, NoManual, Loaded
<1>5. OneObject
  BY DEF Init, OneObject, Held, InUse, NoLive, NoManual
<1> QED
  BY <1>3, <1>4, <1>5 DEF IInv

-----------------------------------------------------------------------------
(* What an object, a request and a thread are made of.                     *)
LEMMA Fields ==
  ASSUME Types
  PROVE  /\ \A o \in Objects : objs[o] \in Obj
         /\ live.obj \in Objects \cup {None} /\ live.sent \subseteq Inputs
         /\ \A m \in Manuals :
              mn[m].obj \in Objects \cup {None} /\ mn[m].sent \subseteq Inputs
         /\ InUse \subseteq Objects
         /\ None \notin Objects
BY ServerAssumption DEF Types, LiveState, ManualState, InUse

LEMMA LoadedType ==
  ASSUME NEW key \in Keys
  PROVE  Loaded(key) \in Obj /\ NoObject \in Obj
BY DEF Loaded, NoObject, Key, Keys, Drivers, Obj, Requesters

LEMMA CollectedType ==
  ASSUME NEW f \in [Objects -> Obj], NEW kept
  PROVE  Collected(f, kept) \in [Objects -> Obj]
BY DEF Collected, NoObject, Loaded, Key, Keys, Drivers, Obj, Requesters

(* get_auth: a hit marks the object if it is held; a load takes an object  *)
(* that nobody holds.                                                      *)
LEMMA LoadStep ==
  ASSUME Types, NEW key \in Keys, Load(key)
  PROVE  /\ slot' \in Objects \ InUse
         /\ objs' \in [Objects -> Obj] /\ objs'[slot'] = Loaded(key)
         /\ \A o \in InUse : objs'[o] = objs[o]
         /\ \A o \in Objects \ (InUse \cup {slot'}) : objs'[o] = NoObject
         /\ overtaken' = (overtaken \/ InUse # {})
<1>1. PICK o \in Objects \ InUse :
        slot' = o /\ objs' = Collected([objs EXCEPT ![o] = Loaded(key)], InUse \cup {o})
  BY DEF Load
<1>2. [objs EXCEPT ![o] = Loaded(key)] \in [Objects -> Obj]
  BY LoadedType DEF Types
<1>3. objs' \in [Objects -> Obj]
  BY <1>1, <1>2, CollectedType
<1>4. /\ objs'[o] = Loaded(key)
      /\ \A p \in InUse : objs'[p] = objs[p]
      /\ \A p \in Objects \ (InUse \cup {o}) : objs'[p] = NoObject
  BY <1>1, Fields DEF Collected, Types
<1> QED
  BY <1>1, <1>3, <1>4 DEF Load

LEMMA HitStep ==
  ASSUME Types, NEW key \in Keys, GetAuth(key), Hit(key)
  PROVE  /\ slot \in Objects /\ slot' = slot /\ overtaken' = overtaken
         /\ objs' \in [Objects -> Obj]
         /\ \A o \in Objects \ {slot} : objs'[o] = objs[o]
         /\ objs'[slot] = [objs[slot] EXCEPT !.crowded = @ \/ slot \in InUse]
<1>1. slot \in Objects /\ slot' = slot /\ overtaken' = overtaken
  BY DEF Hit, GetAuth, Types
<1>2. objs' = [objs EXCEPT ![slot].crowded = @ \/ slot \in InUse]
  BY DEF GetAuth
<1>3. objs[slot] \in Obj /\ (objs[slot].crowded \/ slot \in InUse) \in BOOLEAN
  BY <1>1, Fields
<1>4. [objs[slot] EXCEPT !.crowded = @ \/ slot \in InUse] \in Obj
  BY <1>3 DEF Obj
<1> QED
  BY <1>1, <1>2, <1>4 DEF Types

LEMMA Taken ==
  ASSUME Types, NEW key \in Keys, GetAuth(key)
  PROVE  /\ slot' \in Objects /\ objs' \in [Objects -> Obj]
         /\ overtaken' \in BOOLEAN
<1>1. CASE Hit(key)
  BY <1>1, HitStep DEF Types
<1>2. CASE ~Hit(key)
  <2>1. Load(key)
    BY <1>2 DEF GetAuth
  <2> QED
    BY <2>1, LoadStep DEF Types
<1> QED
  BY <1>1, <1>2

LEMMA KeyType ==
  \A mock \in BOOLEAN :
    /\ Key("default", mock) \in Keys
    /\ \A driver \in Drivers : Key(driver, mock) \in Keys
BY DEF Key, Keys, Drivers

(* An object's inputs are set, or become past.                             *)
LEMMA SetsFact ==
  ASSUME NEW r \in Obj, NEW who \in Requesters, NEW inputs
  PROVE  /\ Sets(r, who, inputs) \in Obj
         /\ Sets(r, who, inputs).crowded = r.crowded
         /\ Sets(r, who, inputs).fresh = r.fresh
         /\ Sets(r, who, inputs).otp = r.otp
         /\ \A i \in Inputs : Sets(r, who, inputs).by[i] =
              IF i \in inputs THEN who ELSE r.by[i]
<1> DEFINE by == [i \in Inputs |-> IF i \in inputs THEN who ELSE r.by[i]]
<1>1. by \in [Inputs -> Requesters]
  BY DEF Obj
<1>2. Sets(r, who, inputs) = [r EXCEPT !.by = by]
  BY DEF Sets
<1> HIDE DEF by
<1>3. /\ Sets(r, who, inputs) \in Obj
      /\ Sets(r, who, inputs).crowded = r.crowded
      /\ Sets(r, who, inputs).fresh = r.fresh
      /\ Sets(r, who, inputs).otp = r.otp /\ Sets(r, who, inputs).by = by
  BY <1>1, <1>2 DEF Obj
<1> QED
  BY <1>3 DEF by

LEMMA PastFact ==
  ASSUME NEW f \in [Objects -> Obj], NEW who, NEW o \in Objects
  PROVE  /\ Past(f, who)[o] \in Obj
         /\ Past(f, who)[o].crowded = f[o].crowded
         /\ Past(f, who)[o].fresh = f[o].fresh
         /\ Past(f, who)[o].otp = f[o].otp
         /\ \A i \in Inputs : Past(f, who)[o].by[i] =
              IF f[o].by[i] = who THEN "past" ELSE f[o].by[i]
<1> DEFINE by == [i \in Inputs |-> IF f[o].by[i] = who THEN "past" ELSE f[o].by[i]]
<1>1. by \in [Inputs -> Requesters]
  BY DEF Obj, Requesters
<1>2. Past(f, who)[o] = [f[o] EXCEPT !.by = by]
  BY DEF Past
<1> HIDE DEF by
<1>3. /\ Past(f, who)[o] \in Obj
      /\ Past(f, who)[o].crowded = f[o].crowded
      /\ Past(f, who)[o].fresh = f[o].fresh
      /\ Past(f, who)[o].otp = f[o].otp /\ Past(f, who)[o].by = by
  BY <1>1, <1>2 DEF Obj
<1> QED
  BY <1>3 DEF by

LEMMA Decided ==
  ASSUME Types, NEW o \in Objects, NEW who, Decides(o, who)
  PROVE  /\ objs' \in [Objects -> Obj] /\ forked' \in BOOLEAN
         /\ \/ /\ forked' = (forked \/ ~objs[o].fresh)
               /\ \A p \in Objects : objs'[p].fresh = (p = o)
            \/ /\ forked' = forked
               /\ \A p \in Objects : objs'[p].fresh = objs[p].fresh
         /\ \A p \in Objects :
              /\ objs'[p].crowded = objs[p].crowded /\ objs'[p].otp = objs[p].otp
              /\ \A i \in Inputs : objs'[p].by[i] =
                   IF objs[p].by[i] = who THEN "past" ELSE objs[p].by[i]
<1>1. objs \in [Objects -> Obj] /\ objs[o].fresh \in BOOLEAN
  BY DEF Types, Obj
<1>2. ASSUME NEW f \in [Objects -> Obj], objs' = Past(f, who)
      PROVE  objs' \in [Objects -> Obj]
  <2>1. \A p \in Objects : Past(f, who)[p] \in Obj
    BY <1>2, PastFact
  <2>2. Past(f, who) = [p \in Objects |-> Past(f, who)[p]]
    BY DEF Past
  <2> QED
    BY <1>2, <2>1, <2>2
<1>3. CASE /\ forked' = (forked \/ ~objs[o].fresh)
           /\ objs' = Past([p \in Objects |-> [objs[p] EXCEPT !.fresh = (p = o)]],
                           who)
  <2> DEFINE f == [p \in Objects |-> [objs[p] EXCEPT !.fresh = (p = o)]]
  <2>1. \A p \in Objects : f[p] = [objs[p] EXCEPT !.fresh = (p = o)]
    OBVIOUS
  <2>2. \A p \in Objects :
          /\ f[p] \in Obj /\ f[p].fresh = (p = o)
          /\ f[p].crowded = objs[p].crowded /\ f[p].otp = objs[p].otp
          /\ f[p].by = objs[p].by
    <3> SUFFICES ASSUME NEW p \in Objects, NEW b \in BOOLEAN, b = (p = o)
                 PROVE  /\ f[p] \in Obj /\ f[p].fresh = b
                        /\ f[p].crowded = objs[p].crowded
                        /\ f[p].otp = objs[p].otp /\ f[p].by = objs[p].by
      OBVIOUS
    <3>1. objs[p] \in Obj /\ f[p] = [objs[p] EXCEPT !.fresh = b]
      BY <1>1, <2>1
    <3> HIDE DEF f
    <3> QED
      BY <3>1 DEF Obj
  <2>3. f \in [Objects -> Obj]
    BY <2>2
  <2>4. objs' = Past(f, who)
    BY <1>3
  <2> HIDE DEF f
  <2>5. \A p \in Objects :
          /\ objs'[p].fresh = (p = o)
          /\ objs'[p].crowded = objs[p].crowded /\ objs'[p].otp = objs[p].otp
          /\ \A i \in Inputs : objs'[p].by[i] =
               IF objs[p].by[i] = who THEN "past" ELSE objs[p].by[i]
    BY <2>2, <2>3, <2>4, PastFact
  <2>6. objs' \in [Objects -> Obj]
    BY <1>2, <2>3, <2>4
  <2>7. forked' \in BOOLEAN
    BY <1>1, <1>3 DEF Types
  <2> QED
    BY <1>3, <2>5, <2>6, <2>7
<1>4. CASE objs' = Past(objs, who) /\ UNCHANGED forked
  <2>1. objs' \in [Objects -> Obj]
    BY <1>1, <1>2, <1>4
  <2> QED
    BY <1>1, <1>4, <2>1, PastFact DEF Types
<1> QED
  BY <1>3, <1>4 DEF Decides

LEMMA SetType ==
  ASSUME Types, NEW o \in Objects, NEW r \in Obj
  PROVE  [objs EXCEPT ![o] = r] \in [Objects -> Obj]
BY DEF Types

-----------------------------------------------------------------------------
LEMMA LiveTypes == Types /\ Standalone => Types'
<1> SUFFICES ASSUME Types, Standalone PROVE Types'
  OBVIOUS
<1>1. CASE LiveAuth
  <2>1. PICK driver \in Drivers, sent \in StandaloneSends :
          /\ GetAuth(Key(driver, FALSE))
          /\ live' = [at |-> "scores", obj |-> slot', sent |-> sent]
    BY <1>1 DEF LiveAuth
  <2>2. slot' \in Objects /\ objs' \in [Objects -> Obj] /\ overtaken' \in BOOLEAN
    BY <2>1, KeyType, Taken
  <2>3. sent \subseteq Inputs
    BY DEF StandaloneSends, Inputs, Scores, Context
  <2>4. live' \in LiveState /\ live'.at # "idle" /\ live'.obj # None
    BY <2>1, <2>2, <2>3, Fields DEF LiveState
  <2>5. UNCHANGED <<want_mock, mn, forked>> /\ requests' \in Nat
    BY <1>1 DEF LiveAuth, Starts, Types
  <2> QED
    BY <2>2, <2>4, <2>5 DEF Types
<1>2. CASE NotLive
  BY <1>2 DEF NotLive, NoLive, Types, LiveState
<1>3. CASE ApplyScores \/ ApplyInputs
  <2>1. /\ live.obj \in Objects /\ objs[live.obj] \in Obj
        /\ "live" \in Requesters
    BY <1>3, Fields DEF ApplyScores, ApplyInputs, Types, Requesters
  <2>2. objs' \in [Objects -> Obj]
    BY <1>3, <2>1, SetsFact, SetType DEF ApplyScores, ApplyInputs
  <2> QED
    BY <1>3, <2>2 DEF ApplyScores, ApplyInputs, LiveAt, Types, LiveState
<1>4. CASE LiveDecides
  <2>1. live.obj \in Objects
    BY <1>4, Fields DEF LiveDecides, Types
  <2>2. objs' \in [Objects -> Obj] /\ forked' \in BOOLEAN
    BY <1>4, <2>1, Decided DEF LiveDecides
  <2> QED
    BY <1>4, <2>2 DEF LiveDecides, Types, LiveState
<1>5. CASE LiveAnswers
  <2>1. objs' \in [Objects -> Obj]
    BY <1>5, CollectedType DEF LiveAnswers, Types
  <2> QED
    BY <1>5, <2>1 DEF LiveAnswers, NoLive, Types, LiveState
<1> QED
  BY <1>1, <1>2, <1>3, <1>4, <1>5 DEF Standalone

(* A thread that leaves its object.                                        *)
LEMMA LeaveTypes ==
  ASSUME NEW m \in Manuals, Types, NEW f \in [Objects -> Obj], Leave(m, f)
  PROVE  Types'
<1>1. objs' \in [Objects -> Obj]
  BY CollectedType DEF Leave
<1>2. NoManual \in ManualState
  BY DEF NoManual, ManualState
<1>3. \A k \in Manuals : mn'[k] = IF k = m THEN NoManual ELSE mn[k]
  BY DEF Leave, Types
<1>4. mn' \in [Manuals -> ManualState]
  BY <1>2 DEF Leave, Types
<1>5. NoManual.at = "idle" /\ NoManual.obj = None
  BY DEF NoManual
<1> QED
  BY <1>1, <1>3, <1>4, <1>5 DEF Leave, Types

LEMMA ManualTypes ==
  ASSUME NEW m \in Manuals, Types, Manual(m)
  PROVE  Types'
<1>1. mn[m] \in ManualState /\ m \in Requesters /\ "past" \in Requesters
  BY DEF Types, Requesters
<1>2. CASE ManualAuth(m)
  <2>1. Key("default", want_mock) \in Keys
    BY KeyType DEF Types
  <2>2. slot' \in Objects /\ objs' \in [Objects -> Obj] /\ overtaken' \in BOOLEAN
    BY <1>2, <2>1, Taken DEF ManualAuth
  <2>3. PICK demo \in BOOLEAN, sent \in ManualSends :
          mn' = [mn EXCEPT ![m] = [at |-> "scores", obj |-> slot', sent |-> sent,
                                   demo |-> demo, prev |-> "lane"]]
    BY <1>2 DEF ManualAuth
  <2>4. sent \subseteq Inputs
    <3>1. PICK context \in ContextSends,
               scores \in IF want_mock THEN {Scores} ELSE {{}, {"reader"}} :
            sent = context \cup scores
      BY DEF ManualSends
    <3>2. context \subseteq Inputs
      BY DEF ContextSends, Inputs
    <3>3. scores \subseteq Inputs
      BY DEF Scores, Inputs
    <3> QED
      BY <3>1, <3>2, <3>3
  <2>5. /\ mn' \in [Manuals -> ManualState]
        /\ \A k \in Manuals : mn'[k].at = "idle" <=> mn'[k].obj = None
    BY <2>2, <2>3, <2>4, Fields DEF Types, ManualState
  <2>6. requests' \in Nat
    BY <1>2 DEF ManualAuth, Starts, Types
  <2> QED
    BY <1>2, <2>2, <2>5, <2>6 DEF ManualAuth, Types
<1>3. CASE ManualScores(m)
  <2>1. mn[m].obj \in Objects /\ objs[mn[m].obj] \in Obj
    BY <1>3, Fields DEF ManualScores, Types
  <2>2. objs' \in [Objects -> Obj]
    BY <1>1, <1>3, <2>1, SetsFact, SetType DEF ManualScores
  <2> QED
    BY <1>1, <1>3, <2>1, <2>2 DEF ManualScores, MnAt, Types, ManualState
<1>4. CASE ScoresFail(m)
  <2>1. mn[m].obj \in Objects /\ objs[mn[m].obj] \in Obj
    BY <1>4, Fields DEF ScoresFail, Types
  <2>2. [objs EXCEPT ![mn[m].obj] = Sets(@, "past", Scores)] \in [Objects -> Obj]
    BY <1>1, <2>1, SetsFact, SetType
  <2> QED
    BY <1>4, <2>2, LeaveTypes DEF ScoresFail
<1>5. CASE SaveOtp(m)
  <2>1. mn[m].obj \in Objects /\ objs[mn[m].obj].otp \in {"lane", "demo"}
    BY <1>5, Fields DEF SaveOtp, Types, Obj
  <2> QED
    BY <1>1, <1>5, <2>1 DEF SaveOtp, Types, ManualState
<1>6. CASE SetOtp(m)
  <2>1. mn[m].obj \in Objects /\ objs[mn[m].obj] \in Obj
    BY <1>6, Fields DEF SetOtp, Types
  <2>2. \A r \in Obj, otp \in {"lane", "demo"} : [r EXCEPT !.otp = otp] \in Obj
    BY DEF Obj
  <2> DEFINE q == Sets(objs[mn[m].obj], m, mn[m].sent \ Scores)
  <2>3. q \in Obj /\ q.otp \in {"lane", "demo"}
    BY <1>1, <2>1, SetsFact DEF Obj
  <2>4. [q EXCEPT !.otp = IF mn[m].demo THEN "demo" ELSE q.otp] \in Obj
    BY <2>2, <2>3
  <2>5. objs' \in [Objects -> Obj]
    BY <1>6, <2>1, <2>4, SetType DEF SetOtp
  <2> QED
    BY <1>1, <1>6, <2>1, <2>5 DEF SetOtp, MnAt, Types, ManualState
<1>7. CASE ManualDecides(m)
  <2>1. mn[m].obj \in Objects
    BY <1>7, Fields DEF ManualDecides, Types
  <2>2. objs' \in [Objects -> Obj] /\ forked' \in BOOLEAN
    BY <1>7, <2>1, Decided DEF ManualDecides
  <2>3. [mn[m] EXCEPT !.at = "restore", !.sent = {}] \in ManualState
    BY <1>1 DEF ManualState
  <2> QED
    BY <1>1, <1>7, <2>1, <2>2, <2>3 DEF ManualDecides, Types, ManualState
<1>8. CASE Restore(m)
  <2>1. mn[m].obj \in Objects
    BY <1>8, Fields DEF Restore, Types
  <2>2. [objs[mn[m].obj] EXCEPT !.otp = IF mn[m].demo THEN mn[m].prev ELSE @]
          \in Obj
    BY <1>1, <2>1, Fields DEF Obj, ManualState
  <2>3. [objs EXCEPT ![mn[m].obj].otp = IF mn[m].demo THEN mn[m].prev ELSE @]
          \in [Objects -> Obj]
    BY <2>1, <2>2, SetType DEF Types
  <2> QED
    BY <1>8, <2>3, LeaveTypes DEF Restore
<1>9. CASE ContextAuth(m)
  <2>1. Key("default", TRUE) \in Keys
    BY KeyType
  <2>2. slot' \in Objects /\ objs' \in [Objects -> Obj] /\ overtaken' \in BOOLEAN
    BY <1>9, <2>1, Taken DEF ContextAuth
  <2>3. /\ mn' \in [Manuals -> ManualState]
        /\ \A k \in Manuals : mn'[k].at = "idle" <=> mn'[k].obj = None
    BY <1>9, <2>2, Fields DEF ContextAuth, NoManual, Types, ManualState
  <2>4. requests' \in Nat
    BY <1>9 DEF ContextAuth, Starts, Types
  <2> QED
    BY <1>9, <2>2, <2>3, <2>4 DEF ContextAuth, Types
<1>10. CASE SetContext(m)
  <2>1. mn[m].obj \in Objects /\ objs[mn[m].obj] \in Obj
    BY <1>10, Fields DEF SetContext, Types
  <2>2. \A sent : [objs EXCEPT ![mn[m].obj] = Sets(@, "past", sent)]
                   \in [Objects -> Obj]
    BY <1>1, <2>1, SetsFact, SetType
  <2> QED
    BY <1>10, <2>2, LeaveTypes DEF SetContext
<1> QED
  BY <1>2, <1>3, <1>4, <1>5, <1>6, <1>7, <1>8, <1>9, <1>10 DEF Manual

LEMMA OtherTypes == Types /\ (Poll \/ Clear \/ UNCHANGED serverVars) => Types'
<1> SUFFICES ASSUME Types, Poll \/ Clear \/ UNCHANGED serverVars PROVE Types'
  OBVIOUS
<1>1. CASE Poll
  <2>1. PICK mock \in BOOLEAN : Load(Key("default", mock))
    BY <1>1 DEF Poll, Types
  <2>2. slot' \in Objects /\ objs' \in [Objects -> Obj] /\ overtaken' \in BOOLEAN
    BY <2>1, KeyType, LoadStep DEF Types
  <2> QED
    BY <1>1, <2>2 DEF Poll, Types
<1>2. CASE Clear
  BY <1>2, CollectedType DEF Clear, Types
<1>3. CASE UNCHANGED serverVars
  BY <1>3 DEF serverVars, Types
<1> QED
  BY <1>1, <1>2, <1>3

-----------------------------------------------------------------------------
(* A step that takes nothing into use and outdates nothing.                *)
LEMMA SameWriter ==
  ASSUME OneObject, Held' \subseteq Held,
         UNCHANGED <<forked, overtaken>>,
         \A o \in Held' : objs'[o].fresh = objs[o].fresh
  PROVE  OneObject'
BY DEF OneObject

(* A decision: the object that appends is the only one there is.           *)
LEMMA AppendsWriter ==
  ASSUME Types, OneObject, NEW o \in Objects, o \in Held, NEW who, Decides(o, who),
         Held' = Held, overtaken' = overtaken
  PROVE  OneObject'
<1>1. CASE /\ forked' = (forked \/ ~objs[o].fresh)
           /\ \A p \in Objects : objs'[p].fresh = (p = o)
  <2>1. ~overtaken => ~forked' /\ Held = {o}
    BY <1>1 DEF OneObject
  <2> QED
    BY <1>1, <2>1 DEF OneObject
<1>2. CASE /\ forked' = forked
           /\ \A p \in Objects : objs'[p].fresh = objs[p].fresh
  <2>1. Held' \subseteq Objects
    BY Fields DEF Held, Types
  <2> QED
    BY <1>2, <2>1, SameWriter
<1> QED
  BY <1>1, <1>2, Decided

(* get_auth for a request that will hold the object.                       *)
LEMMA TakesWriter ==
  ASSUME Types, OneObject, NEW key \in Keys, GetAuth(key),
         InUse' \subseteq InUse \cup {slot'}, forked' = forked
  PROVE  OneObject'
<1>1. CASE Hit(key)
  <2>1. slot \in Objects /\ slot' = slot /\ overtaken' = overtaken
    BY <1>1, HitStep
  <2>2. slot \in Held /\ Held' \subseteq Held
    BY <2>1, Fields DEF Held
  <2>3. \A o \in Objects : objs'[o].fresh = objs[o].fresh
    BY <1>1, HitStep, Fields DEF Obj
  <2>4. Held \subseteq Objects
    BY <2>1, Fields DEF Held
  <2> QED
    BY <2>1, <2>2, <2>3, <2>4, SameWriter
<1>2. CASE Load(key)
  <2>1. slot' \in Objects /\ objs'[slot'].fresh
    <3>1. slot' \in Objects /\ objs'[slot'] = Loaded(key)
      BY <1>2, LoadStep
    <3>2. Loaded(key).fresh
      BY DEF Loaded
    <3> QED
      BY <3>1, <3>2
  <2>2. ~overtaken' => ~overtaken /\ InUse = {}
    BY <1>2, LoadStep
  <2>3. Held' \subseteq InUse \cup {slot'}
    BY DEF Held
  <2> QED
    BY <2>1, <2>2, <2>3 DEF OneObject
<1> QED
  BY <1>1, <1>2 DEF GetAuth

LEMMA LiveWriter == Types /\ OneObject /\ Standalone => OneObject'
<1> SUFFICES ASSUME Types, OneObject, Standalone PROVE OneObject'
  OBVIOUS
<1>1. CASE LiveAuth
  <2>1. PICK driver \in Drivers, sent \in StandaloneSends :
          /\ GetAuth(Key(driver, FALSE))
          /\ live' = [at |-> "scores", obj |-> slot', sent |-> sent]
    BY <1>1 DEF LiveAuth
  <2>2. InUse' \subseteq InUse \cup {slot'} /\ forked' = forked
    BY <1>1, <2>1 DEF LiveAuth, InUse
  <2> QED
    BY <2>1, <2>2, KeyType, TakesWriter
<1>2. CASE NotLive
  <2>1. Held' \subseteq Held
    BY <1>2 DEF NotLive, NoLive, Held, InUse
  <2> QED
    BY <1>2, <2>1, SameWriter DEF NotLive
<1>3. CASE ApplyScores \/ ApplyInputs
  <2>1. Held' = Held /\ Held \subseteq Objects
    BY <1>3, Fields
       DEF ApplyScores, ApplyInputs, LiveAt, Held, InUse, Types, LiveState
  <2>2. live.obj \in Objects /\ "live" \in Requesters
    BY <1>3, Fields DEF ApplyScores, ApplyInputs, Types, Requesters
  <2>3. \A o \in Objects : objs'[o].fresh = objs[o].fresh
    BY <1>3, <2>2, SetsFact, Fields DEF ApplyScores, ApplyInputs, Types
  <2> QED
    BY <1>3, <2>1, <2>3, SameWriter DEF ApplyScores, ApplyInputs
<1>4. CASE LiveDecides
  <2>1. Held' = Held
    BY <1>4 DEF LiveDecides, Held, InUse, Types, LiveState
  <2>2. live.obj \in Objects /\ live.obj \in Held
    BY <1>4, Fields DEF LiveDecides, Types, Held, InUse
  <2> QED
    BY <1>4, <2>1, <2>2, AppendsWriter DEF LiveDecides
<1>5. CASE LiveAnswers
  <2>1. Held' \subseteq Held /\ Held' \subseteq Objects
    BY <1>5, Fields DEF LiveAnswers, NoLive, Held, InUse, Types
  <2>2. \A o \in Held' : o \in {slot} \cup {mn[m].obj : m \in Manuals}
    BY <1>5 DEF LiveAnswers, NoLive, Held, InUse
  <2>3. \A o \in Held' : objs'[o].fresh = objs[o].fresh
    BY <1>5, <2>1, <2>2 DEF LiveAnswers, Collected
  <2> QED
    BY <1>5, <2>1, <2>3, SameWriter DEF LiveAnswers
<1> QED
  BY <1>1, <1>2, <1>3, <1>4, <1>5 DEF Standalone

(* A thread that leaves its object has changed no hash.                    *)
LEMMA LeaveWriter ==
  ASSUME NEW m \in Manuals, Types, OneObject, NEW f \in [Objects -> Obj],
         Leave(m, f), \A o \in Objects : f[o].fresh = objs[o].fresh
  PROVE  OneObject'
<1> DEFINE others == {live.obj, slot} \cup {mn[k].obj : k \in Manuals \ {m}}
<1>1. \A k \in Manuals : mn'[k] = IF k = m THEN NoManual ELSE mn[k]
  BY DEF Leave, Types
<1>2. Held' \subseteq others /\ Held' \subseteq Held /\ Held \subseteq Objects
  BY <1>1, Fields DEF Leave, NoManual, Held, InUse, Types
<1>3. \A o \in others \cap Objects : objs'[o] = f[o]
  BY DEF Leave, Collected
<1> QED
  BY <1>2, <1>3, SameWriter DEF Leave

LEMMA ManualWriter ==
  ASSUME NEW m \in Manuals, Types, OneObject, Manual(m)
  PROVE  OneObject'
<1>1. /\ mn[m] \in ManualState /\ mn \in [Manuals -> ManualState]
      /\ objs \in [Objects -> Obj]
      /\ m \in Requesters /\ "past" \in Requesters
  BY DEF Types, Requesters
<1>2. CASE ManualAuth(m) \/ ContextAuth(m)
  <2>1. PICK mock \in BOOLEAN : GetAuth(Key("default", mock))
    BY <1>2 DEF ManualAuth, ContextAuth, Types
  <2>2. InUse' \subseteq InUse \cup {slot'} /\ forked' = forked
    <3>1. CASE ManualAuth(m)
      BY <1>1, <3>1 DEF ManualAuth, InUse
    <3>2. CASE ContextAuth(m)
      BY <1>1, <3>2 DEF ContextAuth, InUse, NoManual
    <3> QED
      BY <1>2, <3>1, <3>2
  <2> QED
    BY <2>1, <2>2, KeyType, TakesWriter
<1>3. CASE ManualScores(m) \/ SetOtp(m)
  <2>1. Held' = Held /\ Held \subseteq Objects
    BY <1>1, <1>3, Fields
       DEF ManualScores, SetOtp, MnAt, Held, InUse, Types, ManualState
  <2>2. mn[m].obj \in Objects
    BY <1>3, Fields DEF ManualScores, SetOtp, Types
  <2>3. \A inputs : Sets(objs[mn[m].obj], m, inputs) \in Obj
    BY <1>1, <2>2, SetsFact
  <2>4. objs'[mn[m].obj].fresh = objs[mn[m].obj].fresh
    <3>1. CASE ManualScores(m)
      BY <1>1, <2>2, <3>1, SetsFact DEF ManualScores
    <3>2. CASE SetOtp(m)
      <4>1. objs'[mn[m].obj].fresh = Sets(objs[mn[m].obj], m, mn[m].sent \ Scores).fresh
        BY <1>1, <2>2, <2>3, <3>2 DEF SetOtp, Obj
      <4> QED
        BY <1>1, <2>2, <4>1, SetsFact
    <3> QED
      BY <1>3, <3>1, <3>2
  <2>5. \A o \in Objects : o # mn[m].obj => objs'[o] = objs[o]
    BY <1>1, <1>3 DEF ManualScores, SetOtp
  <2> QED
    BY <1>3, <2>1, <2>4, <2>5, SameWriter DEF ManualScores, SetOtp
<1>4. CASE SaveOtp(m)
  <2>1. Held' = Held
    BY <1>1, <1>4 DEF SaveOtp, Held, InUse, ManualState
  <2> QED
    BY <1>4, <2>1, SameWriter DEF SaveOtp
<1>5. CASE ManualDecides(m)
  <2>1. Held' = Held
    BY <1>1, <1>5 DEF ManualDecides, Held, InUse, ManualState
  <2>2. mn[m].obj \in Objects /\ mn[m].obj \in Held
    BY <1>5, Fields DEF ManualDecides, Types, Held, InUse
  <2> QED
    BY <1>5, <2>1, <2>2, AppendsWriter DEF ManualDecides
<1>6. ASSUME NEW inputs, mn[m].obj \in Objects,
             Leave(m, [objs EXCEPT ![mn[m].obj] = Sets(@, "past", inputs)])
      PROVE  OneObject'
  <2> DEFINE f == [objs EXCEPT ![mn[m].obj] = Sets(@, "past", inputs)]
  <2>1. f \in [Objects -> Obj]
    BY <1>1, <1>6, SetsFact, SetType
  <2>2. \A o \in Objects : f[o].fresh = objs[o].fresh
    BY <1>1, <1>6, SetsFact
  <2> QED
    BY <1>6, <2>1, <2>2, LeaveWriter
<1>7. CASE ScoresFail(m) \/ SetContext(m)
  BY <1>6, <1>7, Fields DEF ScoresFail, SetContext, Types
<1>8. CASE Restore(m)
  <2> DEFINE f == [objs EXCEPT ![mn[m].obj].otp =
                     IF mn[m].demo THEN mn[m].prev ELSE @]
  <2>1. mn[m].obj \in Objects
    BY <1>8, Fields DEF Restore, Types
  <2>2. /\ f \in [Objects -> Obj]
        /\ \A o \in Objects : f[o].fresh = objs[o].fresh
    BY <1>1, <2>1 DEF Obj, ManualState
  <2> QED
    BY <1>8, <2>2, LeaveWriter DEF Restore
<1> QED
  BY <1>2, <1>3, <1>4, <1>5, <1>7, <1>8 DEF Manual

LEMMA OtherWriter ==
  Types /\ OneObject /\ (Poll \/ Clear \/ UNCHANGED serverVars) => OneObject'
<1> SUFFICES ASSUME Types, OneObject, Poll \/ Clear \/ UNCHANGED serverVars
             PROVE  OneObject'
  OBVIOUS
<1>1. CASE Poll
  <2>1. PICK mock \in BOOLEAN :
          ~Hit(Key("default", mock)) /\ Load(Key("default", mock))
    BY <1>1 DEF Poll, Types
  <2>2. InUse' = InUse /\ forked' = forked
    BY <1>1 DEF Poll, InUse
  <2> QED
    BY <2>1, <2>2, KeyType, TakesWriter DEF GetAuth
<1>2. CASE Clear
  <2>1. Held' = InUse /\ InUse \subseteq Held /\ InUse \subseteq Objects
    BY <1>2, Fields DEF Clear, Held, InUse
  <2>2. \A o \in InUse : objs'[o] = objs[o]
    BY <1>2, <2>1 DEF Clear, Collected
  <2> QED
    BY <1>2, <2>1, <2>2, SameWriter DEF Clear
<1>3. CASE UNCHANGED serverVars
  BY <1>3 DEF serverVars, OneObject, Held, InUse
<1> QED
  BY <1>1, <1>2, <1>3

-----------------------------------------------------------------------------
(* An object as its holder who sees it: nobody else takes back what it set.*)
KeptFor(who, o) ==
  /\ objs'[o].crowded = objs[o].crowded /\ objs'[o].otp = objs[o].otp
  /\ \A i \in Inputs : objs[o].by[i] = who => objs'[o].by[i] = who

LEMMA DecidedKeeps ==
  ASSUME Types, NEW o \in Objects, NEW who, Decides(o, who),
         NEW p \in Objects, NEW k, k # who
  PROVE  KeptFor(k, p)
BY Decided DEF KeptFor

LEMMA HoldersKept ==
  ASSUME Types, OneHolder,
         \A m \in Manuals : mn'[m].obj \in {mn[m].obj, None},
         live'.obj \in {live.obj, None},
         \A o \in InUse' : objs'[o].crowded = objs[o].crowded
  PROVE  OneHolder'
<1> SUFFICES ASSUME NEW o \in Objects, ~objs'[o].crowded
             PROVE  /\ \A m, k \in Manuals : mn'[m].obj = o /\ mn'[k].obj = o => m = k
                    /\ \A m \in Manuals : mn'[m].obj = o => live'.obj # o
  BY DEF OneHolder
<1>1. o # None
  BY Fields
<1>2. CASE o \in InUse'
  <2>1. ~objs[o].crowded
    BY <1>2
  <2> QED
    BY <1>1, <2>1 DEF OneHolder
<1>3. CASE o \notin InUse'
  BY <1>1, <1>3 DEF InUse
<1> QED
  BY <1>2, <1>3

LEMMA LiveKept ==
  ASSUME Types, LiveOwn, live' = live,
         live.obj \in Objects =>
           objs'[live.obj].crowded \/ KeptFor("live", live.obj)
  PROVE  LiveOwn'
BY Fields DEF LiveOwn, KeptFor, Scores, Inputs

LEMMA ManualKept ==
  ASSUME Types, NEW m \in Manuals, ManualGood(m), mn'[m] = mn[m],
         mn[m].obj \in Objects =>
           objs'[mn[m].obj].crowded \/ KeptFor(m, mn[m].obj)
  PROVE  ManualGood(m)'
BY Fields DEF ManualGood, KeptFor, Scores, Inputs

(* get_auth gives a request an object of its own, or a crowded one.        *)
LEMMA Admits ==
  ASSUME Types, NobodysOwn, NEW key \in Keys, GetAuth(key)
  PROVE  /\ slot' \in Objects
         /\ ~objs'[slot'].crowded =>
              slot' \notin InUse /\ objs'[slot'].otp = "lane"
         /\ \A o \in Objects \ {slot'} :
              objs'[o] = objs[o] \/ (o \notin InUse /\ objs'[o] = NoObject)
<1>1. CASE Hit(key)
  <2>1. /\ slot \in Objects /\ slot' = slot
        /\ \A o \in Objects \ {slot} : objs'[o] = objs[o]
        /\ objs'[slot] = [objs[slot] EXCEPT !.crowded = @ \/ slot \in InUse]
    BY <1>1, HitStep
  <2>2. /\ objs'[slot].crowded = (objs[slot].crowded \/ slot \in InUse)
        /\ objs'[slot].otp = objs[slot].otp
    BY <2>1, Fields DEF Obj
  <2>3. ~objs'[slot].crowded => slot \notin InUse /\ ~objs[slot].crowded
    BY <2>2
  <2>4. slot \notin InUse /\ ~objs[slot].crowded => objs[slot].otp = "lane"
    BY <2>1 DEF NobodysOwn
  <2> QED
    BY <2>1, <2>2, <2>3, <2>4
<1>2. CASE Load(key)
  <2>1. /\ slot' \in Objects \ InUse /\ objs'[slot'] = Loaded(key)
        /\ \A o \in InUse : objs'[o] = objs[o]
        /\ \A o \in Objects \ (InUse \cup {slot'}) : objs'[o] = NoObject
    BY <1>2, LoadStep
  <2>2. Loaded(key).otp = "lane"
    BY DEF Loaded
  <2> QED
    BY <2>1, <2>2
<1> QED
  BY <1>1, <1>2 DEF GetAuth

LEMMA NoObjectOtp == NoObject.otp = "lane"
BY DEF NoObject, Loaded

LEMMA InUseFacts ==
  ASSUME Types
  PROVE  /\ live.obj \in Objects => live.obj \in InUse
         /\ \A m \in Manuals : mn[m].obj \in Objects => mn[m].obj \in InUse
BY Fields DEF InUse

-----------------------------------------------------------------------------
LEMMA LiveAuthInputs == Types /\ InputsInv /\ LiveAuth => InputsInv'
<1> SUFFICES ASSUME Types, InputsInv, LiveAuth PROVE InputsInv'
  OBVIOUS
<1> USE DEF InputsInv
<1>1. PICK driver \in Drivers, sent \in StandaloneSends :
        /\ GetAuth(Key(driver, FALSE))
        /\ live' = [at |-> "scores", obj |-> slot', sent |-> sent]
  BY DEF LiveAuth
<1>2. live'.obj = slot' /\ live'.at = "scores" /\ live.obj = None
  BY <1>1 DEF LiveAuth, Types
<1>3. mn' = mn /\ want_mock' = want_mock
  BY DEF LiveAuth
<1>4. /\ slot' \in Objects
      /\ ~objs'[slot'].crowded =>
           slot' \notin InUse /\ objs'[slot'].otp = "lane"
      /\ \A o \in Objects \ {slot'} :
           objs'[o] = objs[o] \/ (o \notin InUse /\ objs'[o] = NoObject)
  BY <1>1, KeyType, Admits
<1>5. OneHolder'
  <2> SUFFICES ASSUME NEW o \in Objects, ~objs'[o].crowded
               PROVE  /\ \A m, k \in Manuals : mn[m].obj = o /\ mn[k].obj = o => m = k
                      /\ \A m \in Manuals : mn[m].obj = o => slot' # o
    BY <1>2, <1>3 DEF OneHolder
  <2>1. CASE o \notin InUse
    BY <2>1, InUseFacts
  <2>2. CASE o \in InUse
    BY <1>4, <2>2 DEF OneHolder
  <2> QED
    BY <2>1, <2>2
<1>6. LiveOwn'
  BY <1>2, <1>4 DEF LiveOwn
<1>7. ManualOwn'
  <2> SUFFICES ASSUME NEW m \in Manuals PROVE ManualGood(m)'
    BY DEF ManualOwn
  <2>1. mn[m].obj \in Objects =>
          objs'[mn[m].obj].crowded \/ KeptFor(m, mn[m].obj)
    BY <1>4, InUseFacts DEF KeptFor
  <2> QED
    BY <1>3, <2>1, ManualKept DEF ManualOwn
<1>8. NobodysOwn'
  <2>1. InUse \subseteq InUse'
    BY <1>2, <1>3 DEF InUse
  <2>2. slot' \in InUse'
    BY <1>2, <1>4, Fields DEF InUse
  <2> QED
    BY <1>4, <2>1, <2>2, NoObjectOtp DEF NobodysOwn
<1> QED
  BY <1>5, <1>6, <1>7, <1>8

LEMMA ManualAuthInputs ==
  ASSUME NEW m \in Manuals, Types, InputsInv, ManualAuth(m) \/ ContextAuth(m)
  PROVE  InputsInv'
<1> USE DEF InputsInv
<1>1. PICK mock \in BOOLEAN : GetAuth(Key("default", mock))
  BY DEF ManualAuth, ContextAuth, Types
<1>2. /\ mn'[m].at \in {"scores", "context"} /\ mn'[m].obj = slot'
      /\ mn[m].at = "idle"
      /\ \A k \in Manuals : k # m => mn'[k] = mn[k]
  <2>1. CASE ManualAuth(m)
    BY <2>1 DEF ManualAuth, Types
  <2>2. CASE ContextAuth(m)
    BY <2>2 DEF ContextAuth, NoManual, Types
  <2> QED
    BY <2>1, <2>2
<1>3. /\ mn'[m].obj = slot' /\ mn[m].obj = None /\ live' = live
      /\ \A k \in Manuals : k # m => mn'[k] = mn[k]
  BY <1>2 DEF ManualAuth, ContextAuth, Types
<1>4. /\ slot' \in Objects
      /\ ~objs'[slot'].crowded =>
           slot' \notin InUse /\ objs'[slot'].otp = "lane"
      /\ \A o \in Objects \ {slot'} :
           objs'[o] = objs[o] \/ (o \notin InUse /\ objs'[o] = NoObject)
  BY <1>1, KeyType, Admits
<1>5. OneHolder'
  <2> SUFFICES ASSUME NEW o \in Objects, ~objs'[o].crowded
               PROVE  /\ \A j, k \in Manuals : mn'[j].obj = o /\ mn'[k].obj = o => j = k
                      /\ \A k \in Manuals : mn'[k].obj = o => live.obj # o
    BY <1>3 DEF OneHolder
  <2>1. CASE o = slot'
    <3>1. o \notin InUse
      BY <1>4, <2>1
    <3>2. live.obj # o /\ \A k \in Manuals : mn[k].obj # o
      BY <3>1, InUseFacts
    <3> QED
      BY <1>3, <2>1, <3>2
  <2>2. CASE o # slot' /\ o \notin InUse
    BY <1>3, <2>2, InUseFacts
  <2>3. CASE o # slot' /\ o \in InUse
    BY <1>3, <1>4, <2>3 DEF OneHolder
  <2> QED
    BY <2>1, <2>2, <2>3
<1>6. LiveOwn'
  <2>1. live.obj \in Objects =>
          objs'[live.obj].crowded \/ KeptFor("live", live.obj)
    BY <1>4, InUseFacts DEF KeptFor
  <2> QED
    BY <1>3, <2>1, LiveKept
<1>7. ManualOwn'
  <2> SUFFICES ASSUME NEW k \in Manuals PROVE ManualGood(k)'
    BY DEF ManualOwn
  <2>1. CASE k = m
    BY <1>2, <1>3, <1>4, <2>1 DEF ManualGood
  <2>2. CASE k # m
    <3>1. mn[k].obj \in Objects =>
            objs'[mn[k].obj].crowded \/ KeptFor(k, mn[k].obj)
      BY <1>4, InUseFacts DEF KeptFor
    <3> QED
      BY <1>3, <2>2, <3>1, ManualKept DEF ManualOwn
  <2> QED
    BY <2>1, <2>2
<1>8. NobodysOwn'
  <2>1. InUse \subseteq InUse' /\ slot' \in InUse'
    BY <1>3, <1>4, Fields DEF InUse
  <2> QED
    BY <1>4, <2>1, NoObjectOtp DEF NobodysOwn
<1> QED
  BY <1>5, <1>6, <1>7, <1>8

(* A step of one holder on its object is felt by nobody else.              *)
LEMMA OwnStep ==
  ASSUME Types, InputsInv, InUse' = InUse, NEW who, NEW h \in InUse,
         live'.obj = live.obj, \A m \in Manuals : mn'[m].obj = mn[m].obj,
         \A o \in Objects : objs'[o].crowded = objs[o].crowded,
         \A o \in Objects \ {h} : objs'[o].otp = objs[o].otp,
         \A o \in Objects \ {h} :
           \A k \in Manuals \cup {"live"} : k # who => KeptFor(k, o)
  PROVE  /\ OneHolder' /\ NobodysOwn'
         /\ \A m \in Manuals :
              mn'[m] = mn[m] /\ m # who /\ (mn[m].obj # h \/ objs[h].crowded)
                => ManualGood(m)'
         /\ live' = live /\ "live" # who /\ (live.obj # h \/ objs[h].crowded)
              => LiveOwn'
<1> USE DEF InputsInv
<1>1. OneHolder'
  BY Fields, HoldersKept
<1>2. NobodysOwn'
  BY DEF NobodysOwn
<1>3. ASSUME NEW m \in Manuals, mn'[m] = mn[m], m # who,
             mn[m].obj # h \/ objs[h].crowded
      PROVE  ManualGood(m)'
  <2>1. mn[m].obj \in Objects =>
          objs'[mn[m].obj].crowded \/ KeptFor(m, mn[m].obj)
    BY <1>3
  <2> QED
    BY <1>3, <2>1, ManualKept DEF ManualOwn
<1>4. ASSUME live' = live, "live" # who, live.obj # h \/ objs[h].crowded
      PROVE  LiveOwn'
  <2>1. live.obj \in Objects =>
          objs'[live.obj].crowded \/ KeptFor("live", live.obj)
    BY <1>4
  <2> QED
    BY <1>4, <2>1, LiveKept
<1> QED
  BY <1>1, <1>2, <1>3, <1>4

-----------------------------------------------------------------------------
LEMMA LiveStepInputs ==
  Types /\ InputsInv /\ (ApplyScores \/ ApplyInputs \/ LiveDecides) => InputsInv'
<1> SUFFICES ASSUME Types, InputsInv, ApplyScores \/ ApplyInputs \/ LiveDecides
             PROVE  InputsInv'
  OBVIOUS
<1> DEFINE h == live.obj
<1> USE DEF InputsInv
<1>1. /\ h \in Objects /\ h \in InUse /\ objs[h] \in Obj
      /\ objs \in [Objects -> Obj] /\ "live" \in Requesters
      /\ live.sent \subseteq Inputs
  BY Fields, InUseFacts
     DEF ApplyScores, ApplyInputs, LiveDecides, Types, Requesters
<1>2. mn' = mn
  BY DEF ApplyScores, ApplyInputs, LiveDecides
<1>3. /\ live'.obj = h
      /\ live.at = "decide" \/ live'.sent = live.sent
      /\ live'.at = IF live.at = "scores" THEN "inputs"
                    ELSE IF live.at = "inputs" THEN "decide" ELSE "answer"
  BY DEF ApplyScores, ApplyInputs, LiveDecides, LiveAt, Types, LiveState
<1>4. InUse' = InUse
  BY <1>2, <1>3 DEF InUse
<1>5. ASSUME NEW inputs, objs' = [objs EXCEPT ![h] = Sets(@, "live", inputs)]
      PROVE  /\ \A o \in Objects : o # h => objs'[o] = objs[o]
             /\ objs'[h].crowded = objs[h].crowded /\ objs'[h].otp = objs[h].otp
             /\ \A i \in Inputs : objs'[h].by[i] =
                  IF i \in inputs THEN "live" ELSE objs[h].by[i]
  BY <1>1, <1>5, SetsFact
<1>6. /\ \A o \in Objects : /\ objs'[o].crowded = objs[o].crowded
                            /\ objs'[o].otp = objs[o].otp
      /\ \A o \in Objects \ {h} :
           \A k \in Manuals \cup {"live"} : k # "live" => KeptFor(k, o)
  <2>1. CASE ApplyScores \/ ApplyInputs
    BY <1>5, <2>1 DEF ApplyScores, ApplyInputs, KeptFor
  <2>2. CASE LiveDecides
    BY <1>1, <2>2, Decided, DecidedKeeps DEF LiveDecides
  <2> QED
    BY <2>1, <2>2
<1>7. LiveOwn'
  <2>1. CASE ApplyScores
    <3>1. \A i \in live.sent \cap Scores : objs'[h].by[i] = "live"
      BY <1>1, <1>5, <2>1 DEF ApplyScores
    <3> QED
      BY <1>1, <1>3, <1>6, <2>1, <3>1 DEF ApplyScores, LiveOwn
  <2>2. CASE ApplyInputs
    <3>1. \A i \in live.sent \ Scores : objs'[h].by[i] = "live"
      BY <1>1, <1>5, <2>2 DEF ApplyInputs
    <3>2. ~objs[h].crowded =>
            \A i \in live.sent \cap Scores : objs'[h].by[i] = "live"
      BY <1>1, <1>5, <2>2 DEF ApplyInputs, LiveOwn
    <3> QED
      BY <1>1, <1>3, <1>6, <2>2, <3>1, <3>2 DEF ApplyInputs, LiveOwn
  <2>3. CASE LiveDecides
    BY <1>1, <1>3, <1>6, <2>3 DEF LiveDecides, LiveOwn
  <2> QED
    BY <2>1, <2>2, <2>3
<1>8. OneHolder' /\ NobodysOwn'
  BY <1>1, <1>2, <1>3, <1>4, <1>6, OwnStep
<1>9. ManualOwn'
  <2>1. ~objs[h].crowded => \A m \in Manuals : mn[m].obj # h
    BY <1>1 DEF OneHolder
  <2>2. \A m \in Manuals : m # "live"
    BY ServerAssumption
  <2> QED
    <3> SUFFICES ASSUME NEW m \in Manuals PROVE ManualGood(m)'
      BY DEF ManualOwn
    <3>1. mn'[m] = mn[m] /\ m # "live" /\ (mn[m].obj # h \/ objs[h].crowded)
      BY <1>2, <2>1, <2>2
    <3> QED
      BY <1>1, <1>2, <1>3, <1>4, <1>6, <3>1, OwnStep
<1> QED
  BY <1>7, <1>8, <1>9

LEMMA LiveLeaves ==
  Types /\ InputsInv /\ (NotLive \/ LiveAnswers) => InputsInv'
<1> SUFFICES ASSUME Types, InputsInv, NotLive \/ LiveAnswers PROVE InputsInv'
  OBVIOUS
<1> USE DEF InputsInv
<1>1. mn' = mn /\ live'.obj = None
  BY DEF NotLive, LiveAnswers, NoLive
<1>2. \A o \in Objects : objs'[o] = objs[o] \/ objs'[o] = NoObject
  BY DEF NotLive, LiveAnswers, Collected
<1>3. \A m \in Manuals : mn[m].obj \in Objects =>
        objs'[mn[m].obj] = objs[mn[m].obj]
  BY DEF NotLive, LiveAnswers, Collected
<1>4. \A o \in InUse' : \E m \in Manuals : o = mn[m].obj /\ o \in Objects
  BY <1>1, Fields DEF InUse
<1>5. OneHolder'
  BY <1>1, <1>3, <1>4, HoldersKept
<1>6. LiveOwn'
  BY <1>1, Fields DEF LiveOwn
<1>7. ManualOwn'
  BY <1>1, <1>3, ManualKept DEF ManualOwn, KeptFor
<1>8. NobodysOwn'
  <2> SUFFICES ASSUME NEW o \in Objects \ InUse', ~objs'[o].crowded,
                      objs'[o] = objs[o]
               PROVE  objs[o].otp = "lane"
    BY <1>2, NoObjectOtp DEF NobodysOwn
  <2>1. CASE o = live.obj
    BY <2>1 DEF LiveOwn
  <2>2. CASE o # live.obj
    <3>1. o \notin InUse
      BY <1>1, <2>2, Fields DEF InUse
    <3> QED
      BY <3>1 DEF NobodysOwn
  <2> QED
    BY <2>1, <2>2
<1> QED
  BY <1>5, <1>6, <1>7, <1>8

LEMMA ManualStepInputs ==
  ASSUME NEW m \in Manuals, Types, InputsInv,
         ManualScores(m) \/ SaveOtp(m) \/ SetOtp(m) \/ ManualDecides(m)
  PROVE  InputsInv'
<1> DEFINE h == mn[m].obj
<1> USE DEF InputsInv
<1>1. /\ h \in Objects /\ h \in InUse /\ mn[m] \in ManualState
      /\ objs[h] \in Obj /\ objs \in [Objects -> Obj] /\ m \in Requesters
      /\ mn[m].sent \subseteq Inputs
  BY Fields, InUseFacts
     DEF ManualScores, SaveOtp, SetOtp, ManualDecides, Types, Requesters
<1>2. live' = live
  BY DEF ManualScores, SaveOtp, SetOtp, ManualDecides
<1>3. /\ \A k \in Manuals : mn'[k].obj = mn[k].obj
      /\ \A k \in Manuals : k # m => mn'[k] = mn[k]
      /\ mn'[m].demo = mn[m].demo
      /\ mn[m].at = "decide" \/ mn'[m].sent = mn[m].sent
      /\ mn'[m].at = IF mn[m].at = "scores" THEN "save_otp"
                     ELSE IF mn[m].at = "save_otp" THEN "set_otp"
                     ELSE IF mn[m].at = "set_otp" THEN "decide" ELSE "restore"
      /\ mn'[m].prev = IF mn[m].at = "save_otp" THEN objs[h].otp ELSE mn[m].prev
  <2>1. CASE ManualScores(m)
    BY <1>1, <2>1 DEF ManualScores, MnAt, Types, ManualState
  <2>2. CASE SaveOtp(m)
    BY <1>1, <2>2 DEF SaveOtp, Types, ManualState
  <2>3. CASE SetOtp(m)
    BY <1>1, <2>3 DEF SetOtp, MnAt, Types, ManualState
  <2>4. CASE ManualDecides(m)
    BY <1>1, <2>4 DEF ManualDecides, Types, ManualState
  <2> QED
    BY <2>1, <2>2, <2>3, <2>4
<1>4. InUse' = InUse
  BY <1>2, <1>3 DEF InUse
<1>5. /\ \A o \in Objects : objs'[o].crowded = objs[o].crowded
      /\ \A o \in Objects \ {h} : objs'[o].otp = objs[o].otp
      /\ \A o \in Objects \ {h} :
           \A k \in Manuals \cup {"live"} : k # m => KeptFor(k, o)
      /\ mn[m].at = "scores" =>
           \A i \in mn[m].sent \cap Scores : objs'[h].by[i] = m
      /\ mn[m].at = "save_otp" => objs'[h].by = objs[h].by
      /\ mn[m].at = "set_otp" => \A i \in Inputs : objs'[h].by[i] =
           IF i \in mn[m].sent \ Scores THEN m ELSE objs[h].by[i]
      /\ mn[m].at = "set_otp" /\ mn[m].demo => objs'[h].otp = "demo"
      /\ mn[m].at # "set_otp" \/ ~mn[m].demo => objs'[h].otp = objs[h].otp
  <2>1. CASE ManualScores(m)
    <3>1. \A o \in Objects : o # h => objs'[o] = objs[o]
      BY <1>1, <2>1 DEF ManualScores
    <3>2. objs'[h] = Sets(objs[h], m, mn[m].sent \cap Scores)
      BY <1>1, <2>1 DEF ManualScores
    <3>3. /\ objs'[h].crowded = objs[h].crowded /\ objs'[h].otp = objs[h].otp
          /\ \A i \in mn[m].sent \cap Scores : objs'[h].by[i] = m
      BY <1>1, <3>2, SetsFact
    <3> QED
      BY <2>1, <3>1, <3>3 DEF ManualScores, KeptFor
  <2>2. CASE SaveOtp(m)
    BY <1>1, <2>2 DEF SaveOtp, KeptFor
  <2>3. CASE SetOtp(m)
    <3> DEFINE r == Sets(objs[h], m, mn[m].sent \ Scores)
    <3>1. \A o \in Objects : o # h => objs'[o] = objs[o]
      BY <1>1, <2>3 DEF SetOtp
    <3>2. objs'[h] = [r EXCEPT !.otp = IF mn[m].demo THEN "demo" ELSE @]
      BY <1>1, <2>3 DEF SetOtp
    <3>3. /\ r \in Obj /\ r.crowded = objs[h].crowded /\ r.otp = objs[h].otp
          /\ \A i \in Inputs : r.by[i] =
               IF i \in mn[m].sent \ Scores THEN m ELSE objs[h].by[i]
      BY <1>1, SetsFact
    <3> HIDE DEF r
    <3>4. /\ objs'[h].crowded = r.crowded /\ objs'[h].by = r.by
          /\ objs'[h].otp = IF mn[m].demo THEN "demo" ELSE r.otp
      BY <3>2, <3>3 DEF Obj
    <3> QED
      BY <2>3, <3>1, <3>3, <3>4 DEF SetOtp, KeptFor
  <2>4. CASE ManualDecides(m)
    BY <1>1, <2>4, Decided, DecidedKeeps DEF ManualDecides
  <2> QED
    BY <2>1, <2>2, <2>3, <2>4
<1>6. ManualGood(m)'
  <2>1. objs[h].otp \in {"lane", "demo"} /\ mn[m].demo \in BOOLEAN
    BY <1>1, Fields DEF Obj, ManualState
  <2>2. mn[m].at \in {"scores", "save_otp", "set_otp", "decide"}
    BY DEF ManualScores, SaveOtp, SetOtp, ManualDecides
  <2>3. ManualGood(m)
    BY DEF ManualOwn
  <2>4. CASE mn[m].at = "scores"
    BY <1>1, <1>3, <1>5, <2>1, <2>3, <2>4 DEF ManualGood
  <2>5. CASE mn[m].at = "save_otp"
    BY <1>1, <1>3, <1>5, <2>1, <2>3, <2>5 DEF ManualGood
  <2>6. CASE mn[m].at = "set_otp"
    BY <1>1, <1>3, <1>5, <2>1, <2>3, <2>6 DEF ManualGood
  <2>7. CASE mn[m].at = "decide"
    BY <1>1, <1>3, <1>5, <2>1, <2>3, <2>7 DEF ManualGood
  <2> QED
    BY <2>2, <2>4, <2>5, <2>6, <2>7
<1>7. ~objs[h].crowded =>
        /\ live.obj # h
        /\ \A k \in Manuals \ {m} : mn[k].obj # h
  BY <1>1 DEF OneHolder
<1>8. \A k \in Manuals : k # m => ManualGood(k)'
  BY <1>1, <1>2, <1>3, <1>4, <1>5, <1>7, OwnStep
<1>9. OneHolder' /\ NobodysOwn'
  BY <1>1, <1>2, <1>3, <1>4, <1>5, OwnStep
<1>10. LiveOwn'
  <2>1. "live" # m /\ (live.obj # h \/ objs[h].crowded)
    BY <1>7, ServerAssumption
  <2> QED
    BY <1>1, <1>2, <1>3, <1>4, <1>5, <2>1, OwnStep
<1> QED
  BY <1>6, <1>8, <1>9, <1>10 DEF ManualOwn

(* A thread leaves its object as f has it: nobody else notices, and an     *)
(* object not crowded has its lane back.                                   *)
LEMMA LeaveInputs ==
  ASSUME NEW m \in Manuals, Types, InputsInv, mn[m].obj \in Objects,
         NEW f \in [Objects -> Obj], Leave(m, f),
         f[mn[m].obj].crowded = objs[mn[m].obj].crowded,
         ~objs[mn[m].obj].crowded => f[mn[m].obj].otp = "lane",
         \A o \in Objects : o # mn[m].obj => f[o] = objs[o]
  PROVE  InputsInv'
<1> DEFINE h == mn[m].obj
           kept == {live.obj, slot} \cup {mn[k].obj : k \in Manuals \ {m}}
<1> USE DEF InputsInv
<1>1. /\ mn'[m].obj = None /\ live' = live
      /\ \A k \in Manuals : k # m => mn'[k] = mn[k]
  BY DEF Leave, NoManual, Types
<1>2. \A o \in Objects : objs'[o] = IF o \in kept THEN f[o] ELSE NoObject
  BY DEF Leave, Collected
<1>3. InUse' \subseteq kept \cap Objects /\ InUse' \subseteq InUse
  BY <1>1, Fields DEF InUse
<1>4. \A o \in kept \cap Objects :
        /\ objs'[o].crowded = objs[o].crowded
        /\ o # h => objs'[o] = objs[o]
  BY <1>2
<1>5. ~objs[h].crowded =>
        /\ live.obj # h
        /\ \A k \in Manuals \ {m} : mn[k].obj # h
  BY DEF OneHolder
<1>6. OneHolder'
  BY <1>1, <1>3, <1>4, HoldersKept
<1>7. LiveOwn'
  <2>1. live.obj \in Objects =>
          objs'[live.obj].crowded \/ KeptFor("live", live.obj)
    BY <1>4, <1>5 DEF KeptFor
  <2> QED
    BY <1>1, <2>1, LiveKept
<1>8. ManualOwn'
  <2> SUFFICES ASSUME NEW k \in Manuals PROVE ManualGood(k)'
    BY DEF ManualOwn
  <2>1. CASE k = m
    BY <1>1, <2>1, Fields DEF ManualGood
  <2>2. CASE k # m
    <3>1. mn[k].obj \in Objects =>
            objs'[mn[k].obj].crowded \/ KeptFor(k, mn[k].obj)
      BY <1>4, <1>5, <2>2 DEF KeptFor
    <3> QED
      BY <1>1, <2>2, <3>1, ManualKept DEF ManualOwn
  <2> QED
    BY <2>1, <2>2
<1>9. NobodysOwn'
  <2> SUFFICES ASSUME NEW o \in Objects \ InUse', ~objs'[o].crowded
               PROVE  objs'[o].otp = "lane"
    BY DEF NobodysOwn
  <2>1. CASE o \notin kept
    BY <1>2, <2>1, NoObjectOtp
  <2>2. CASE o \in kept /\ o = h
    BY <1>2, <1>4, <2>2
  <2>3. CASE o \in kept /\ o # h
    <3>1. o \notin InUse
      BY <1>1, <2>3, Fields DEF InUse
    <3> QED
      BY <1>4, <2>3, <3>1 DEF NobodysOwn
  <2> QED
    BY <2>1, <2>2, <2>3
<1> QED
  BY <1>6, <1>7, <1>8, <1>9

LEMMA LeavesInputs ==
  ASSUME NEW m \in Manuals, Types, InputsInv,
         Restore(m) \/ ScoresFail(m) \/ SetContext(m)
  PROVE  InputsInv'
<1> DEFINE h == mn[m].obj
<1>1. /\ h \in Objects /\ mn[m] \in ManualState /\ objs[h] \in Obj
      /\ objs \in [Objects -> Obj] /\ "past" \in Requesters
  BY Fields DEF Restore, ScoresFail, SetContext, Types, Requesters
<1>2. ManualGood(m)
  BY DEF InputsInv, ManualOwn
<1>3. CASE Restore(m)
  <2> DEFINE otp == IF mn[m].demo THEN mn[m].prev ELSE objs[h].otp
             f == [objs EXCEPT ![h].otp = IF mn[m].demo THEN mn[m].prev ELSE @]
  <2>1. /\ [objs[h] EXCEPT !.otp = otp] \in Obj
        /\ f = [objs EXCEPT ![h] = [objs[h] EXCEPT !.otp = otp]]
    BY <1>1 DEF Obj, ManualState
  <2>2. f[h].otp = otp /\ f[h].crowded = objs[h].crowded
    BY <1>1, <2>1 DEF Obj
  <2>3. ~objs[h].crowded => otp = "lane"
    BY <1>1, <1>2, <1>3 DEF ManualGood, Restore, Obj, ManualState
  <2>4. f \in [Objects -> Obj] /\ \A o \in Objects : o # h => f[o] = objs[o]
    BY <1>1, <2>1
  <2>5. Leave(m, f)
    BY <1>3 DEF Restore
  <2> HIDE DEF f, otp
  <2> QED
    BY <1>1, <2>2, <2>3, <2>4, <2>5, LeaveInputs
<1>4. ASSUME NEW inputs, mn[m].at \in {"scores", "context"},
             Leave(m, [objs EXCEPT ![h] = Sets(@, "past", inputs)])
      PROVE  InputsInv'
  <2> DEFINE f == [objs EXCEPT ![h] = Sets(@, "past", inputs)]
  <2>1. f[h] = Sets(objs[h], "past", inputs) /\ Sets(objs[h], "past", inputs) \in Obj
    BY <1>1, SetsFact
  <2>2. f[h].otp = objs[h].otp /\ f[h].crowded = objs[h].crowded
    BY <1>1, <2>1, SetsFact
  <2>3. ~objs[h].crowded => objs[h].otp = "lane"
    BY <1>1, <1>2, <1>4 DEF ManualGood, Obj
  <2>4. f \in [Objects -> Obj] /\ \A o \in Objects : o # h => f[o] = objs[o]
    BY <1>1, <2>1
  <2>5. Leave(m, f)
    BY <1>4
  <2> HIDE DEF f
  <2> QED
    BY <1>1, <2>2, <2>3, <2>4, <2>5, LeaveInputs
<1>5. CASE ScoresFail(m)
  BY <1>4, <1>5 DEF ScoresFail
<1>6. CASE SetContext(m)
  <2>1. PICK sent \in ContextSends :
          Leave(m, [objs EXCEPT ![mn[m].obj] = Sets(@, "past", sent)])
    BY <1>6 DEF SetContext
  <2>2. mn[m].at = "context"
    BY <1>6 DEF SetContext
  <2> QED
    BY <1>4, <2>1, <2>2
<1> QED
  BY <1>3, <1>5, <1>6

LEMMA OtherInputs ==
  Types /\ InputsInv /\ (Poll \/ Clear \/ UNCHANGED serverVars) => InputsInv'
<1> SUFFICES ASSUME Types, InputsInv, Poll \/ Clear \/ UNCHANGED serverVars
             PROVE  InputsInv'
  OBVIOUS
<1> USE DEF InputsInv
<1>1. live' = live /\ mn' = mn /\ InUse' = InUse
  BY DEF Poll, Clear, serverVars, InUse
<1>2. /\ \A o \in InUse : objs'[o] = objs[o]
      /\ \A o \in Objects \ InUse :
           objs'[o] = objs[o] \/ objs'[o].otp = "lane"
  <2>1. CASE Poll
    <3>1. PICK mock \in BOOLEAN : Load(Key("default", mock))
      BY <2>1 DEF Poll, Types
    <3>2. \A key \in Keys : Loaded(key).otp = "lane"
      BY DEF Loaded
    <3> QED
      BY <3>1, <3>2, KeyType, LoadStep, NoObjectOtp
  <2>2. CASE Clear
    BY <2>2, Fields, NoObjectOtp DEF Clear, Collected
  <2>3. CASE UNCHANGED serverVars
    BY <2>3 DEF serverVars
  <2> QED
    BY <2>1, <2>2, <2>3
<1>3. OneHolder'
  BY <1>1, <1>2, HoldersKept
<1>4. LiveOwn' /\ ManualOwn'
  BY <1>1, <1>2, InUseFacts, LiveKept, ManualKept DEF ManualOwn, KeptFor
<1>5. NobodysOwn'
  BY <1>1, <1>2 DEF NobodysOwn
<1> QED
  BY <1>3, <1>4, <1>5

-----------------------------------------------------------------------------
LEMMA NextIInv == IInv /\ [Next]_serverVars => IInv'
<1> SUFFICES ASSUME Types, InputsInv, OneObject, [Next]_serverVars PROVE IInv'
  BY DEF IInv
<1>1. CASE Standalone
  <2>1. Types' /\ OneObject'
    BY <1>1, LiveTypes, LiveWriter
  <2>2. InputsInv'
    BY <1>1, LiveAuthInputs, LiveStepInputs, LiveLeaves DEF Standalone
  <2> QED
    BY <2>1, <2>2 DEF IInv
<1>2. ASSUME NEW m \in Manuals, Manual(m) PROVE IInv'
  <2>1. Types' /\ OneObject'
    BY <1>2, ManualTypes, ManualWriter
  <2>2. InputsInv'
    BY <1>2, ManualAuthInputs, ManualStepInputs, LeavesInputs DEF Manual
  <2> QED
    BY <2>1, <2>2 DEF IInv
<1>3. CASE Poll \/ Clear \/ UNCHANGED serverVars
  BY <1>3, OtherTypes, OtherWriter, OtherInputs DEF IInv
<1> QED
  BY <1>1, <1>2, <1>3 DEF Next

LEMMA IInvOwnInputs == IInv => OwnInputs
<1> SUFFICES ASSUME Types, InputsInv PROVE OwnInputs
  BY DEF IInv
<1>1. ASSUME live.at = "decide", ~objs[live.obj].crowded
      PROVE  /\ \A i \in live.sent : objs[live.obj].by[i] = "live"
             /\ objs[live.obj].otp = "lane"
  BY <1>1, Fields DEF Types, InputsInv, LiveOwn
<1>2. ASSUME NEW m \in Manuals, mn[m].at = "decide",
             ~objs[mn[m].obj].crowded
      PROVE  /\ \A i \in mn[m].sent : objs[mn[m].obj].by[i] = m
             /\ (objs[mn[m].obj].otp = "demo") = mn[m].demo
  <2>1. mn[m].obj \in Objects /\ mn[m].demo \in BOOLEAN
    BY <1>2, Fields DEF Types, ManualState
  <2>2. ManualGood(m)
    BY DEF InputsInv, ManualOwn
  <2>3. objs[mn[m].obj].otp = "demo" <=> mn[m].demo
    BY <1>2, <2>1, <2>2 DEF ManualGood
  <2> QED
    BY <1>2, <2>1, <2>2, <2>3 DEF ManualGood
<1> QED
  BY <1>1, <1>2 DEF OwnInputs

LEMMA Always == Spec => []IInv
BY InitIInv, NextIInv, PTL DEF Spec

(* The state of the server keeps its shape (app.py, state.py).             *)
THEOREM ServerTypes == Spec => []Types
<1>1. IInv => Types
  BY DEF IInv
<1> QED
  BY <1>1, Always, PTL

(* A decision rests on every input its own request sent, unless another    *)
(* request uses the object at the same time (standalone_auth, authenticate *)
(* and update_context).                                                    *)
THEOREM OwnsInputs == Spec => []OwnInputs
BY IInvOwnInputs, Always, PTL

(* The chain forks only after two objects were in use at once (get_auth    *)
(* and AuditLog.log_decision).                                             *)
THEOREM WritesAlone == Spec => []OneAuditWriter
<1>1. IInv => OneAuditWriter
  BY DEF IInv, Types, OneObject, OneAuditWriter
<1> QED
  BY <1>1, Always, PTL
=============================================================================
