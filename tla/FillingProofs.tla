---------------------------- MODULE FillingProofs ----------------------------
(***************************************************************************)
(* Proofs about Filling: what follows for a file of any number of units    *)
(* from the promise that Ranged keeps (RangedProofs).                      *)
(***************************************************************************)
EXTENDS Filling, TLAPS

\* CreditIsCovered is not inductive: a download that is not filling could
\* still hold credit for units that are dropped or lost.
Cover ==
    /\ TypeOK
    /\ CreditIsCovered
    /\ phase # "filling" => credit = {}

LEMMA CoverInit == Init => Cover
BY DEF Init, Cover, TypeOK, CreditIsCovered, Phase

LEMMA CoverStep == Cover /\ [Next]_vars => Cover'
<1> SUFFICES ASSUME Cover, [Next]_vars PROVE Cover'
  OBVIOUS
<1> USE DEF Cover, TypeOK, CreditIsCovered, Phase
<1>1. CASE Start
  BY <1>1 DEF Start
<1>2. ASSUME NEW u \in Unit, Receive(u) PROVE Cover'
  BY <1>2 DEF Receive
<1>3. ASSUME NEW u \in Unit, Stray(u) PROVE Cover'
  BY <1>3 DEF Stray
<1>4. CASE Stop
  BY <1>4 DEF Stop
<1>5. CASE Finish
  <2>1. credit \subseteq file \/ ~trusted
    OBVIOUS
  <2>2. trusted => file = Unit
    BY <1>5, <2>1 DEF Finish
  <2> QED
    BY <1>5, <2>2 DEF Finish
<1>6. CASE GiveUp
  BY <1>6 DEF GiveUp
<1>7. CASE Drop
  BY <1>7 DEF Drop
<1>8. CASE Crash
  BY <1>8 DEF Crash
<1>9. CASE UNCHANGED vars
  BY <1>9 DEF vars
<1> QED
  BY <1>1, <1>2, <1>3, <1>4, <1>5, <1>6, <1>7, <1>8, <1>9 DEF Next

\* A download that keeps the promise of run_ranged counts only what is in
\* the file and succeeds with the whole file, through any number of stops,
\* restarts and crashes, unless a run has resumed from more than the file
\* held.
THEOREM CreditHolds == Spec => []CreditIsCovered
<1>1. Cover => CreditIsCovered
  BY DEF Cover
<1> QED
  BY <1>1, CoverInit, CoverStep, PTL DEF Spec
=============================================================================
