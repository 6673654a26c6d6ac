--------------------------- MODULE AuditChainProps ---------------------------
(* What the audit file promises.                                           *)
EXTENDS AuditChain, FiniteSets

(* Every line is an entry made at some time, chained on to an older one,   *)
(* or does not parse.                                                      *)
TypeOK ==
  /\ file \in Seq(Entry \cup {Junk}) /\ ended \in BOOLEAN
  /\ \A k \in 1..Len(file) :
       file[k] # Junk => file[k].prev < file[k].id /\ file[k].id <= issued
  /\ open \subseteq Writers
  /\ last_hash \in [Writers -> 0..issued]
  /\ issued \in 0..MaxEntries
  /\ returned \subseteq 1..issued
  /\ cuts \in Nat /\ shared \in BOOLEAN

(* While objects on the path follow each other, each able to read what its *)
(* predecessor left, and no append is cut short, the chain verifies.       *)
OrderlyVerifies == ~shared /\ cuts = 0 => VerifyChain(file)

(* A chain that fails to verify is never mended by what is logged later,   *)
(* by whichever object: the evidence stays.                                *)
BrokenStaysBroken == [][~VerifyChain(file) => ~VerifyChain(file')]_vars

(* An append that was cut short costs the readers at most one entry that   *)
(* log_decision had returned, however many objects share the file.         *)
DamageBounded == Cardinality(returned \ Shown(file)) <= cuts
=============================================================================
