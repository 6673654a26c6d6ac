-------------------------- MODULE AuditChain_proofs --------------------------
(***************************************************************************)
(* Proofs about the audit file, for any number of AuditLog objects and of  *)
(* entries.  The invariant adds to OrderlyVerifies why the next append is  *)
(* safe: at most one object is in use and it goes by the last hash of the  *)
(* file, which ends with a newline.                                        *)
(***************************************************************************)
EXTENDS AuditChainProps, FiniteSetTheorems, TLAPS

(* TypeOK without its bound on issued and on what an entry chains on to.   *)
Types ==
  /\ file \in Seq(Entry \cup {Junk}) /\ ended \in BOOLEAN
  /\ last_hash \in [Writers -> Nat]
  /\ issued \in Nat /\ cuts \in Nat /\ shared \in BOOLEAN
  /\ open \subseteq Writers

Orderly ==
  /\ VerifyChain(file)
  /\ ended
  /\ \A v, w \in open : v = w
  /\ \A w \in open : last_hash[w] = TailHash(file)

IInv == Types /\ (~shared /\ cuts = 0 => Orderly)

(* The last hash is a number, and the next entry an entry.                 *)
LEMMA TailType ==
  ASSUME NEW f \in Seq(Entry \cup {Junk})
  PROVE  TailHash(f) \in Nat
<1>1. CASE f = <<>>
  BY <1>1 DEF TailHash, GENESIS
<1>2. CASE f # <<>>
  <2>1. Len(f) \in 1..Len(f)
    BY <1>2
  <2>2. f[Len(f)] \in Entry \cup {Junk}
    BY <2>1
  <2>3. f[Len(f)].id \in Nat
    BY <2>2 DEF Entry, Junk
  <2> QED
    BY <1>2, <2>3 DEF TailHash
<1> QED
  BY <1>1, <1>2

LEMMA NewEntryType ==
  ASSUME Types, NEW w \in Writers
  PROVE  NewEntry(w) \in Entry /\ NewEntry(w) # Junk
BY DEF Types, NewEntry, Entry, Junk

(* What a write leaves is a file of lines.                                 *)
LEMMA ExtendType ==
  ASSUME Types, NEW line \in Entry \cup {Junk}
  PROVE  Extend(file, line) \in Seq(Entry \cup {Junk})
<1>1. CASE ended \/ file = <<>>
  BY <1>1 DEF Extend, Types
<1>2. CASE ~(ended \/ file = <<>>)
  <2>1. [file EXCEPT ![Len(file)] = Junk] \in Seq(Entry \cup {Junk})
    BY <1>2 DEF Types
  <2> QED
    BY <1>2, <2>1 DEF Extend
<1> QED
  BY <1>1, <1>2

(* Appending an entry that carries the last hash keeps the chain.          *)
LEMMA ChainGrows ==
  ASSUME NEW f \in Seq(Entry \cup {Junk}), NEW e \in Entry, e # Junk,
         VerifyChain(f), e.prev = TailHash(f)
  PROVE  VerifyChain(Append(f, e)) /\ TailHash(Append(f, e)) = e.id
<1> DEFINE g == Append(f, e)
<1>1. Len(g) = Len(f) + 1 /\ Len(f) \in Nat
  OBVIOUS
<1>2. g[Len(f) + 1] = e /\ \A k \in 1..Len(f) : g[k] = f[k]
  OBVIOUS
<1>3. f = <<>> <=> Len(f) = 0
  OBVIOUS
<1>4. ASSUME NEW k \in 1..Len(g)
      PROVE  g[k] # Junk /\ g[k].prev = IF k = 1 THEN GENESIS ELSE g[k - 1].id
  <2>1. CASE k \in 1..Len(f)
    <3>1. g[k] = f[k]
      BY <1>2, <2>1
    <3>2. k # 1 => k - 1 \in 1..Len(f)
      BY <2>1
    <3>3. k # 1 => g[k - 1] = f[k - 1]
      BY <1>2, <3>2
    <3> QED
      BY <2>1, <3>1, <3>3 DEF VerifyChain
  <2>2. CASE k = Len(f) + 1
    <3>1. g[k] = e
      BY <1>2, <2>2
    <3>2. CASE Len(f) = 0
      BY <1>3, <2>2, <3>1, <3>2 DEF TailHash
    <3>3. CASE Len(f) # 0
      <4>1. k # 1 /\ k - 1 = Len(f) /\ Len(f) \in 1..Len(f)
        BY <1>1, <2>2, <3>3
      <4>2. g[k - 1] = f[Len(f)]
        BY <1>2, <4>1
      <4>3. TailHash(f) = f[Len(f)].id
        BY <1>3, <3>3 DEF TailHash
      <4> QED
        BY <3>1, <4>1, <4>2, <4>3
    <3> QED
      BY <3>2, <3>3
  <2> QED
    BY <1>1, <2>1, <2>2
<1>5. g # <<>> /\ g[Len(g)] = e
  BY <1>1, <1>2
<1> QED
  BY <1>4, <1>5 DEF VerifyChain, TailHash

-----------------------------------------------------------------------------
LEMMA InitIInv == Init => IInv
<1> SUFFICES ASSUME Init PROVE IInv
  OBVIOUS
<1>1. Types
  <2>1. file = <<>> /\ file \in Seq(Entry \cup {Junk})
    BY DEF Init
  <2>2. last_hash \in [Writers -> Nat]
    BY DEF Init, GENESIS
  <2>3. /\ ended \in BOOLEAN /\ shared \in BOOLEAN
        /\ issued \in Nat /\ cuts \in Nat
        /\ open \subseteq Writers
    BY DEF Init
  <2> QED
    BY ONLY <2>1, <2>2, <2>3 DEF Types
<1>2. VerifyChain(file)
  <2>1. 1..Len(file) = {}
    BY DEF Init
  <2> QED
    BY <2>1 DEF VerifyChain
<1>3. Orderly
  BY <1>2 DEF Init, Orderly
<1> QED
  BY <1>1, <1>3 DEF IInv

LEMMA NextIInv == IInv /\ [Next]_vars => IInv'
<1> SUFFICES ASSUME IInv, [Next]_vars PROVE IInv'
  OBVIOUS
<1>t. Types
  BY DEF IInv
<1>1. ASSUME NEW w \in Writers, NEW readable \in BOOLEAN, Open(w, readable)
      PROVE  IInv'
  <2>1. TailHash(file) \in Nat
    BY <1>t, TailType DEF Types
  <2>2. Types'
    BY <1>t, <1>1, <2>1 DEF Open, Types, GENESIS
  <2>3. ASSUME ~shared', cuts' = 0
        PROVE  Orderly'
    <3>1. ~shared /\ open = {} /\ readable /\ cuts = 0
      BY <1>1, <2>3 DEF Open
    <3>2. Orderly
      BY <3>1 DEF IInv
    <3>3. open' = {w} /\ last_hash'[w] = TailHash(file)
      BY <1>t, <1>1, <3>1 DEF Open, Types
    <3> QED
      BY <1>1, <3>2, <3>3 DEF Open, Orderly
  <2> QED
    BY <2>2, <2>3 DEF IInv
<1>2. ASSUME NEW w \in Writers, Close(w)
      PROVE  IInv'
  BY <1>2 DEF Close, IInv, Types, Orderly
<1>3. ASSUME NEW w \in Writers, Log(w)
      PROVE  IInv'
  <2> DEFINE e == NewEntry(w)
  <2>1. e \in Entry /\ e # Junk /\ e.id = issued + 1 /\ e.prev = last_hash[w]
    BY <1>t, NewEntryType DEF NewEntry
  <2>2. Extend(file, e) \in Seq(Entry \cup {Junk})
    BY <1>t, <2>1, ExtendType
  <2>3. Types'
    BY <1>t, <1>3, <2>2 DEF Log, Types
  <2>4. ASSUME ~shared', cuts' = 0
        PROVE  Orderly'
    <3>1. Orderly
      BY <1>3, <2>4 DEF Log, IInv
    <3>2. file' = Append(file, e)
      BY <1>3, <3>1 DEF Log, Extend, Orderly
    <3>3. e.prev = TailHash(file)
      BY <1>3, <2>1, <3>1 DEF Log, Orderly
    <3>4. VerifyChain(file') /\ TailHash(file') = issued + 1
      <4> HIDE DEF e
      <4> QED
        BY <1>t, <2>1, <3>1, <3>2, <3>3, ChainGrows DEF Types, Orderly
    <3>5. last_hash'[w] = issued + 1
      BY <1>t, <1>3 DEF Log, Types
    <3>6. \A v \in open' : v = w
      BY <1>3, <3>1 DEF Log, Orderly
    <3> QED
      BY <1>3, <3>4, <3>5, <3>6 DEF Log, Orderly
  <2> QED
    BY <2>3, <2>4 DEF IInv
<1>4. ASSUME NEW w \in Writers, LogCut(w)
      PROVE  IInv'
  <2>1. NewEntry(w) \in Entry
    BY <1>t, NewEntryType
  <2>2. file' \in Seq(Entry \cup {Junk})
    BY <1>t, <1>4, <2>1, ExtendType DEF LogCut
  <2>e. /\ ended' = FALSE /\ issued' = issued + 1 /\ cuts' = cuts + 1
        /\ UNCHANGED <<open, last_hash, returned, shared>>
    BY <1>4 DEF LogCut
  <2>3. Types'
    <3>1. last_hash' \in [Writers -> Nat] /\ open' \subseteq Writers
      BY <1>t, <2>e DEF Types
    <3>2. issued' \in Nat /\ cuts' \in Nat
      BY <1>t, <2>e DEF Types
    <3>3. ended' \in BOOLEAN
      BY <2>e
    <3>4. shared' \in BOOLEAN
      BY <1>t, <2>e, Zenon DEF Types
    <3> QED
      BY ONLY <2>2, <3>1, <3>2, <3>3, <3>4 DEF Types
  <2>4. cuts' # 0
    BY <1>t, <2>e DEF Types
  <2> QED
    BY <2>3, <2>4 DEF IInv
<1>5. CASE UNCHANGED vars
  BY <1>5 DEF vars, IInv, Types, Orderly
<1> QED
  BY <1>1, <1>2, <1>3, <1>4, <1>5 DEF Next

THEOREM Invariance == Spec => []IInv
<1> QED
  BY InitIInv, NextIInv, PTL DEF Spec

(* One object after the other, uncut, always leaves a chain that verifies. *)
THEOREM OrderlyCorrect == Spec => []OrderlyVerifies
<1>1. IInv => OrderlyVerifies
  BY DEF IInv, Orderly, OrderlyVerifies
<1> QED
  BY <1>1, Invariance, PTL

(* A write never mends a broken chain: it changes no line but one that     *)
(* lacks its newline, and that one it spoils.                              *)
LEMMA ExtendKeepsBreak ==
  ASSUME Types, NEW line \in Entry \cup {Junk}, VerifyChain(Extend(file, line))
  PROVE  VerifyChain(file)
<1> DEFINE g == Extend(file, line)
<1>f. file \in Seq(Entry \cup {Junk}) /\ Len(file) \in Nat
  BY DEF Types
<1>1. CASE ended \/ file = <<>>
  <2>1. g = Append(file, line)
    BY <1>1 DEF Extend
  <2>2. Len(g) = Len(file) + 1 /\ \A k \in 1..Len(file) : g[k] = file[k]
    BY <1>f, <2>1
  <2> HIDE DEF g
  <2>3. ASSUME NEW k \in 1..Len(file)
        PROVE  /\ file[k] # Junk
               /\ file[k].prev = IF k = 1 THEN GENESIS ELSE file[k - 1].id
    <3>1. k \in 1..Len(g) /\ g[k] = file[k]
      BY <1>f, <2>2
    <3>2. k # 1 => g[k - 1] = file[k - 1]
      <4>1. k # 1 => k - 1 \in 1..Len(file)
        BY <1>f
      <4> QED
        BY <2>2, <4>1
    <3>3. VerifyChain(g)
      BY DEF g
    <3> QED
      BY <3>1, <3>2, <3>3 DEF VerifyChain
  <2> QED
    BY <2>3 DEF VerifyChain
<1>2. CASE ~(ended \/ file = <<>>)
  <2>1. g = [file EXCEPT ![Len(file)] = Junk]
    BY <1>2 DEF Extend
  <2>2. Len(file) \in 1..Len(file)
    BY <1>f, <1>2
  <2>3. Len(g) = Len(file) /\ g[Len(file)] = Junk
    BY <1>f, <2>1, <2>2
  <2> HIDE DEF g
  <2>4. ~VerifyChain(g)
    BY <2>2, <2>3 DEF VerifyChain
  <2> QED
    BY <2>4 DEF g
<1> QED
  BY <1>1, <1>2

(* What verify_chain once reports it reports for ever.                     *)
THEOREM EvidenceStays == Spec => BrokenStaysBroken
<1>1. IInv /\ [Next]_vars => [~VerifyChain(file) => ~VerifyChain(file')]_vars
  <2> SUFFICES ASSUME IInv, [Next]_vars, VerifyChain(file')
               PROVE  VerifyChain(file)
    OBVIOUS
  <2>t. Types
    BY DEF IInv
  <2>1. ASSUME NEW w \in Writers, Log(w) \/ LogCut(w)
        PROVE  VerifyChain(file)
    <3>1. PICK line \in {Junk, NewEntry(w)} : file' = Extend(file, line)
      BY <2>1 DEF Log, LogCut
    <3>2. line \in Entry \cup {Junk}
      BY <2>t, NewEntryType
    <3> QED
      BY <2>t, <3>1, <3>2, ExtendKeepsBreak
  <2>2. ASSUME NEW w \in Writers, NEW readable \in BOOLEAN,
               Open(w, readable) \/ Close(w)
        PROVE  VerifyChain(file)
    BY <2>2 DEF Open, Close
  <2>3. CASE UNCHANGED vars
    BY <2>3 DEF vars
  <2> QED
    BY <2>1, <2>2, <2>3 DEF Next
<1> QED
  BY <1>1, Invariance, PTL DEF Spec, BrokenStaysBroken

-----------------------------------------------------------------------------
(* The types, with what an entry chains on to.                             *)

(* A line of the file: made by now, and on to an older entry.              *)
Line(l, n) == l \in Entry \cup {Junk} /\ (l # Junk => l.prev < l.id /\ l.id <= n)

(* A write keeps the lines lines.                                          *)
LEMMA ExtendLines ==
  ASSUME NEW f \in Seq(Entry \cup {Junk}), file = f, NEW n \in Nat,
         \A k \in 1..Len(f) : Line(f[k], n),
         NEW l, Line(l, n + 1)
  PROVE  /\ Extend(f, l) \in Seq(Entry \cup {Junk})
         /\ \A k \in 1..Len(Extend(f, l)) : Line(Extend(f, l)[k], n + 1)
<1>1. \A k \in 1..Len(f) : Line(f[k], n + 1)
  BY DEF Line, Entry, Junk
<1>2. Line(Junk, n + 1) /\ l \in Entry \cup {Junk}
  BY DEF Line
<1>3. CASE ended \/ f = <<>>
  <2>1. Extend(f, l) = Append(f, l)
    BY <1>3 DEF Extend
  <2>2. Len(Append(f, l)) = Len(f) + 1 /\ Append(f, l) \in Seq(Entry \cup {Junk})
    BY <1>2
  <2>3. \A k \in 1..Len(f) + 1 : Append(f, l)[k] = IF k = Len(f) + 1 THEN l ELSE f[k]
    BY <1>2
  <2> QED
    BY <1>1, <2>1, <2>2, <2>3
<1>4. CASE ~(ended \/ f = <<>>)
  <2>1. Extend(f, l) = [f EXCEPT ![Len(f)] = Junk]
    BY <1>4 DEF Extend
  <2>2. Extend(f, l) \in Seq(Entry \cup {Junk}) /\ Len(Extend(f, l)) = Len(f)
    <3>1. /\ [f EXCEPT ![Len(f)] = Junk] \in Seq(Entry \cup {Junk})
          /\ Len([f EXCEPT ![Len(f)] = Junk]) = Len(f)
      BY <1>4
    <3> QED
      BY <2>1, <3>1
  <2>3. \A k \in 1..Len(f) : Extend(f, l)[k] = IF k = Len(f) THEN Junk ELSE f[k]
    BY <2>1
  <2> QED
    BY <1>1, <1>2, <2>2, <2>3
<1> QED
  BY <1>3, <1>4

(* The hash an object starts from is that of an entry made by now.         *)
LEMMA TailBound ==
  ASSUME TypeOK
  PROVE  TailHash(file) \in 0..issued
<1>1. CASE file = <<>>
  BY <1>1 DEF TailHash, GENESIS, TypeOK
<1>2. CASE file # <<>>
  <2>1. Len(file) \in 1..Len(file)
    BY <1>2 DEF TypeOK
  <2>2. file[Len(file)] \in Entry \cup {Junk}
    BY <2>1 DEF TypeOK
  <2>3. file[Len(file)].id \in 0..issued
    BY <2>1, <2>2 DEF TypeOK, Entry, Junk
  <2> QED
    BY <1>2, <2>3 DEF TailHash
<1> QED
  BY <1>1, <1>2

(* Every hash an object can go by is one an entry made by now has.         *)
THEOREM FileTypes == Spec => []TypeOK
<1>1. Init => TypeOK
  <2> SUFFICES ASSUME Init PROVE TypeOK
    OBVIOUS
  <2>1. file \in Seq(Entry \cup {Junk}) /\ 1..Len(file) = {}
    BY DEF Init
  <2>2. last_hash \in [Writers -> 0..issued]
    BY DEF Init, GENESIS
  <2>3. /\ ended \in BOOLEAN /\ shared \in BOOLEAN /\ cuts \in Nat
        /\ issued \in 0..MaxEntries /\ returned \subseteq 1..issued
        /\ open \subseteq Writers
    <3>1. ended \in BOOLEAN /\ shared \in BOOLEAN
      BY Zenon DEF Init
    <3>2. cuts \in Nat /\ issued \in 0..MaxEntries
      BY MaxAssumption DEF Init
    <3> QED
      BY <3>1, <3>2 DEF Init
  <2> QED
    BY <2>1, <2>2, <2>3 DEF TypeOK
<1>2. TypeOK /\ [Next]_vars => TypeOK'
  <2> SUFFICES ASSUME TypeOK, [Next]_vars PROVE TypeOK'
    OBVIOUS
  <2>1. ASSUME NEW w \in Writers, NEW readable \in BOOLEAN, Open(w, readable)
        PROVE  TypeOK'
    <3>1. last_hash' \in [Writers -> 0..issued']
      BY <2>1, TailBound DEF Open, TypeOK, GENESIS
    <3>2. shared' \in BOOLEAN
      BY <2>1 DEF Open
    <3>3. UNCHANGED <<file, ended, issued, returned, cuts>> /\ open' \subseteq Writers
      BY <2>1 DEF Open, TypeOK
    <3> QED
      BY <3>1, <3>2, <3>3 DEF TypeOK
  <2>2. ASSUME NEW w \in Writers, Close(w)
        PROVE  TypeOK'
    BY <2>2 DEF Close, TypeOK
  <2>3. ASSUME NEW w \in Writers, Log(w) \/ LogCut(w)
        PROVE  TypeOK'
    <3>1. Line(NewEntry(w), issued + 1) /\ Line(Junk, issued + 1)
      BY DEF TypeOK, NewEntry, Line, Entry, Junk
    <3>2. \A k \in 1..Len(file) : Line(file[k], issued)
      BY DEF TypeOK, Line
    <3>3. PICK l \in {Junk, NewEntry(w)} : file' = Extend(file, l)
      BY <2>3 DEF Log, LogCut
    <3>4. /\ file' \in Seq(Entry \cup {Junk})
          /\ \A k \in 1..Len(file') : Line(file'[k], issued + 1)
      BY <3>1, <3>2, <3>3, ExtendLines DEF TypeOK
    <3>5. issued' = issued + 1 /\ issued' \in 0..MaxEntries
      BY <2>3, MaxAssumption DEF Log, LogCut, TypeOK
    <3>6. last_hash' \in [Writers -> 0..issued'] /\ open' \subseteq Writers
      <4>1. last_hash \in [Writers -> 0..issued'] /\ issued' \in 0..issued'
        BY <3>5 DEF TypeOK
      <4>2. last_hash' = last_hash \/ last_hash' = [last_hash EXCEPT ![w] = issued']
        BY <2>3 DEF Log, LogCut
      <4> QED
        BY <2>3, <4>1, <4>2 DEF Log, LogCut, TypeOK
    <3>7. returned' \subseteq 1..issued' /\ cuts' \in Nat
      <4>1. returned \subseteq 1..issued' /\ issued' \in 1..issued'
        BY <3>5 DEF TypeOK
      <4>2. returned' = returned \/ returned' = returned \cup {issued'}
        BY <2>3 DEF Log, LogCut
      <4>3. cuts' = cuts \/ cuts' = cuts + 1
        BY <2>3 DEF Log, LogCut
      <4>4. cuts \in Nat
        BY DEF TypeOK
      <4>5. returned' \subseteq 1..issued'
        BY ONLY <4>1, <4>2, Zenon
      <4> QED
        BY ONLY <4>3, <4>4, <4>5
    <3>8. ended' \in BOOLEAN
      BY <2>3, Zenon DEF Log, LogCut
    <3>9. shared' \in BOOLEAN
      BY <2>3, Zenon DEF Log, LogCut, TypeOK
    <3> QED
      BY ONLY <3>4, <3>5, <3>6, <3>7, <3>8, <3>9 DEF TypeOK, Line
  <2>4. CASE UNCHANGED vars
    BY <2>4 DEF vars, TypeOK
  <2> QED
    BY <2>1, <2>2, <2>3, <2>4 DEF Next
<1> QED
  BY <1>1, <1>2, PTL DEF Spec

-----------------------------------------------------------------------------
(* What an append that was cut short costs the readers.                    *)
Lost == returned \ Shown(file)

(* A line without its newline was never returned; the entry it may yet     *)
(* take with it has been paid for by the cut.                              *)
Damage ==
  /\ ~ended /\ file # <<>> => file[Len(file)].id \notin returned
  /\ Cardinality(Lost) + (IF ended THEN 0 ELSE 1) <= cuts

LEMMA LostFinite == TypeOK => IsFiniteSet(Lost)
<1> SUFFICES ASSUME TypeOK PROVE IsFiniteSet(Lost)
  OBVIOUS
<1>1. IsFiniteSet(1..issued)
  BY FS_Interval DEF TypeOK
<1>2. Lost \in SUBSET (1..issued)
  BY DEF Lost, TypeOK
<1> QED
  BY <1>1, <1>2, FS_Subset

(* A write hides the text of an unended line, and shows its own otherwise. *)
LEMMA ExtendShows ==
  ASSUME NEW f \in Seq(Entry \cup {Junk}), file = f, NEW l \in Entry \cup {Junk}
  PROVE  /\ ended \/ f = <<>> =>
              /\ Shown(f) \subseteq Shown(Extend(f, l))
              /\ l # Junk => l.id \in Shown(Extend(f, l))
              /\ Extend(f, l) # <<>>
              /\ Extend(f, l)[Len(Extend(f, l))] = l
         /\ ~(ended \/ f = <<>>) =>
              /\ Shown(f) \ {f[Len(f)].id} \subseteq Shown(Extend(f, l))
              /\ Extend(f, l)[Len(Extend(f, l))] = Junk
<1> DEFINE g == Extend(f, l)
<1>1. CASE ended \/ f = <<>>
  <2>1. g = Append(f, l)
    BY <1>1 DEF Extend
  <2>2. Len(g) = Len(f) + 1 /\ g # <<>>
    BY <2>1
  <2>3. g[Len(g)] = l /\ \A k \in 1..Len(f) : g[k] = f[k] /\ k \in 1..Len(g)
    BY <2>1, <2>2
  <2>4. Len(g) \in 1..Len(g)
    BY <2>2
  <2>5. l # Junk => l.id # Junk.id
    BY DEF Entry, Junk
  <2> HIDE DEF g
  <2> QED
    BY <1>1, <2>2, <2>3, <2>4, <2>5 DEF Shown, g
<1>2. CASE ~(ended \/ f = <<>>)
  <2>1. g = [f EXCEPT ![Len(f)] = Junk]
    BY <1>2 DEF Extend
  <2>2. Len(g) = Len(f) /\ Len(f) \in 1..Len(f)
    BY <1>2, <2>1
  <2>3. g[Len(g)] = Junk /\ \A k \in 1..Len(f) : k # Len(f) => g[k] = f[k]
    BY <2>1, <2>2
  <2> HIDE DEF g
  <2> QED
    BY <1>2, <2>2, <2>3 DEF Shown, g
<1> QED
  BY <1>1, <1>2

LEMMA DamageStep ==
  ASSUME TypeOK, TypeOK', Damage, [Next]_vars
  PROVE  Damage'
<1>1. IsFiniteSet(Lost) /\ IsFiniteSet(Lost')
  <2>1. IsFiniteSet(Lost)
    BY LostFinite
  <2>2. (TypeOK => IsFiniteSet(Lost))'
    BY LostFinite, PTL
  <2> QED
    BY <2>1, <2>2
<1>2. Cardinality(Lost) \in Nat /\ Cardinality(Lost') \in Nat
  BY <1>1, FS_CardinalityType
<1>3. ASSUME Lost' \subseteq Lost PROVE Cardinality(Lost') <= Cardinality(Lost)
  BY <1>1, <1>3, FS_Subset
<1>4. ASSUME NEW e, Lost' \subseteq Lost \cup {e}
      PROVE  Cardinality(Lost') <= Cardinality(Lost) + 1
  <2>1. /\ IsFiniteSet(Lost \cup {e})
        /\ Cardinality(Lost \cup {e}) = Cardinality(Lost)
           \/ Cardinality(Lost \cup {e}) = Cardinality(Lost) + 1
    BY <1>1, FS_AddElement
  <2>2. Cardinality(Lost') <= Cardinality(Lost \cup {e})
    BY <2>1, <1>4, FS_Subset
  <2> QED
    BY <1>2, <2>1, <2>2
<1>5. ASSUME NEW w \in Writers, Log(w)
      PROVE  Damage'
  <2>1. NewEntry(w) \in Entry /\ NewEntry(w) # Junk /\ NewEntry(w).id = issued + 1
    BY DEF TypeOK, NewEntry, Entry, Junk
  <2>2. /\ file' = Extend(file, NewEntry(w)) /\ ended' = TRUE /\ cuts' = cuts
        /\ returned' = returned \cup {issued + 1}
    BY <1>5 DEF Log
  <2>3. CASE ended \/ file = <<>>
    <3>1. Shown(file) \subseteq Shown(file') /\ issued + 1 \in Shown(file')
      BY <2>1, <2>2, <2>3, ExtendShows DEF TypeOK
    <3>2. Lost' \subseteq Lost
      BY <2>2, <3>1 DEF Lost
    <3> QED
      BY <1>2, <1>3, <2>2, <3>2 DEF Damage, TypeOK
  <2>4. CASE ~(ended \/ file = <<>>)
    <3>1. Shown(file) \ {file[Len(file)].id} \subseteq Shown(file')
      BY <2>1, <2>2, <2>4, ExtendShows DEF TypeOK
    <3>2. file[Len(file)].id \notin returned
      BY <2>4 DEF Damage
    <3>3. Lost' \subseteq Lost \cup {issued + 1}
      BY <2>2, <3>1, <3>2 DEF Lost
    <3>4. Cardinality(Lost') <= Cardinality(Lost) + 1
      BY <1>4, <3>3
    <3>5. Cardinality(Lost) + 1 <= cuts /\ cuts \in Nat
      BY <2>4 DEF Damage, TypeOK
    <3> QED
      BY <1>2, <2>2, <3>4, <3>5 DEF Damage
  <2> QED
    BY <2>3, <2>4
<1>6. ASSUME NEW w \in Writers, LogCut(w)
      PROVE  Damage'
  <2>1. NewEntry(w) \in Entry /\ NewEntry(w).id = issued + 1
    BY DEF TypeOK, NewEntry, Entry
  <2>2. /\ ended' = FALSE /\ cuts' = cuts + 1 /\ returned' = returned
    BY <1>6 DEF LogCut
  <2>3. PICK l \in {Junk, NewEntry(w)} : file' = Extend(file, l)
    BY <1>6 DEF LogCut
  <2>4. l \in Entry \cup {Junk} /\ l.id \notin returned /\ Junk.id \notin returned
    BY <2>1 DEF TypeOK, Junk
  <2>5. file'[Len(file')].id \notin returned'
    BY <2>2, <2>3, <2>4, ExtendShows DEF TypeOK
  <2>6. Lost' \subseteq Lost
    <3>1. CASE ended \/ file = <<>>
      BY <2>2, <2>3, <2>4, <3>1, ExtendShows DEF Lost, TypeOK
    <3>2. CASE ~(ended \/ file = <<>>)
      <4>1. Shown(file) \ {file[Len(file)].id} \subseteq Shown(file')
        BY <2>3, <2>4, <3>2, ExtendShows DEF TypeOK
      <4>2. file[Len(file)].id \notin returned
        BY <3>2 DEF Damage
      <4> QED
        BY <2>2, <4>1, <4>2 DEF Lost
    <3> QED
      BY <3>1, <3>2
  <2>7. Cardinality(Lost') <= Cardinality(Lost)
    BY <1>3, <2>6
  <2>8. Cardinality(Lost) <= cuts /\ cuts \in Nat
    BY <1>2 DEF Damage, TypeOK
  <2>9. Cardinality(Lost') + 1 <= cuts'
    BY <1>2, <2>2, <2>7, <2>8
  <2> QED
    BY <2>2, <2>5, <2>9 DEF Damage
<1>7. ASSUME \/ \E w \in Writers : Close(w) \/ \E readable \in BOOLEAN : Open(w, readable)
             \/ UNCHANGED vars
      PROVE  Damage'
  <2>1. UNCHANGED <<file, ended, returned, cuts>>
    BY <1>7 DEF Open, Close, vars
  <2> QED
    BY <2>1 DEF Damage, Lost, Shown
<1> QED
  BY <1>5, <1>6, <1>7 DEF Next

(* However many objects share the file, each append that was cut short     *)
(* costs the readers at most one entry that log_decision had returned.     *)
THEOREM DamageCounted == Spec => []DamageBounded
<1>1. Init => Damage
  <2> SUFFICES ASSUME Init PROVE Damage
    OBVIOUS
  <2>1. Lost = {} /\ ended /\ cuts = 0
    BY DEF Init, Lost
  <2> QED
    BY <2>1, FS_EmptySet DEF Damage
<1>2. TypeOK /\ TypeOK' /\ Damage /\ [Next]_vars => Damage'
  BY DamageStep
<1>3. TypeOK /\ Damage => DamageBounded
  <2> SUFFICES ASSUME TypeOK, Damage PROVE DamageBounded
    OBVIOUS
  <2>1. Cardinality(Lost) \in Nat
    BY LostFinite, FS_CardinalityType
  <2> QED
    BY <2>1 DEF Damage, DamageBounded, Lost, TypeOK
<1> QED
  BY <1>1, <1>2, <1>3, FileTypes, PTL DEF Spec
=============================================================================
