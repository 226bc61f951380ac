--------------------------- MODULE RangeCacheProofs ---------------------------
(***************************************************************************)
(* Proofs about RangeCache: its types, and that the headers of no download *)
(* turn a verdict against a host, for any keys, downloads and limits.      *)
(***************************************************************************)
EXTENDS RangeCache, TLAPS

\* The two ways a method leaves the table.
LEMMA RecordOkType ==
    ASSUME TypeOK, NEW k \in Key, NEW ok \in BOOLEAN
    PROVE  RecordOk(k, ok) \in [Key -> Entry]
BY ProbeAssumption DEF TypeOK, RecordOk, Entry

LEMMA RecordMissType ==
    ASSUME TypeOK, NEW k \in Key
    PROVE  RecordMiss(k) \in [Key -> Entry]
<1> DEFINE m == IF probe[k].misses < MissMax THEN probe[k].misses + 1 ELSE MissMax
<1>1. probe[k] \in Entry /\ m \in 0..MissMax
  BY ProbeAssumption DEF TypeOK, Entry
<1>3. [ok |-> probe[k].ok /\ m < Misses, misses |-> m, age |-> 0] \in Entry
  BY <1>1, ProbeAssumption DEF Entry
<1> QED
  BY <1>3 DEF TypeOK, RecordMiss

LEMMA TickType ==
    ASSUME TypeOK, Tick
    PROVE  probe' \in [Key -> Entry]
<1>1. \A k \in Key : [probe[k] EXCEPT !.age = Aged(@)] \in Entry
  BY ProbeAssumption DEF TypeOK, Entry, Aged
<1> QED
  BY <1>1 DEF Tick

LEMMA AbsentType == Absent \in Entry
BY ProbeAssumption DEF Absent, Entry

\* A download under way has keys: that of its task and that of its request.
Working ==
    \A d \in Download : pc[d] # "idle" => home[d] \in Key /\ asked[d] \in Key

\* TypeOK needs it, as the table is written under those keys.
IInv == TypeOK /\ Working

LEMMA IInvInit == Init => IInv
BY AbsentType
DEF Init, IInv, TypeOK, Working, DownloadStep, Verdict

LEMMA IInvStep == IInv /\ [Next]_vars => IInv'
<1> SUFFICES ASSUME TypeOK, Working, [Next]_vars PROVE TypeOK' /\ Working'
  BY DEF IInv
<1> USE DEF Go, DownloadStep, Verdict, Working
<1>1. CASE Tick
  BY <1>1, TickType DEF Tick, TypeOK
<1>2. ASSUME NEW d \in Download, NEW k \in Key, Begin(d, k)
      PROVE  TypeOK' /\ Working'
  BY <1>2 DEF Begin, TypeOK
<1>3. ASSUME NEW d \in Download, NEW k \in Key, Retry(d, k)
      PROVE  TypeOK' /\ Working'
  BY <1>3 DEF Retry, TypeOK
<1>4. ASSUME NEW d \in Download, NEW k \in Key, NEW header \in BOOLEAN,
             NEW big \in BOOLEAN, Judge(d, header, big, k)
      PROVE  TypeOK' /\ Working'
  <2>1. pc[d] = "judge" /\ asked[d] \in Key
    BY <1>4 DEF Judge
  <2>2. RecordOk(asked[d], header) \in [Key -> Entry]
    BY <2>1, RecordOkType
  <2>3. probe' \in [Key -> Entry]
    BY <1>4, <2>2 DEF Judge, TypeOK
  <2>4. PICK step \in {"ranged", "body"}, seg \in BOOLEAN :
          /\ pc' = [pc EXCEPT ![d] = step]
          /\ asked' = [asked EXCEPT ![d] = IF seg THEN k ELSE @]
          /\ tried' = [tried EXCEPT ![d] = @ \/ seg]
    BY <1>4 DEF Judge, TypeOK
  <2>5. seen' = [seen EXCEPT ![d] = "none"] /\ home' = home
    BY <1>4 DEF Judge
  <2>6. tried' \in [Download -> BOOLEAN]
    BY <2>4 DEF TypeOK
  <2>7. asked' \in [Download -> Key \cup {NoKey}]
    BY <2>4 DEF TypeOK
  <2>8. TypeOK'
    BY <2>3, <2>4, <2>5, <2>6, <2>7 DEF TypeOK
  <2>9. Working'
    BY <2>1, <2>4, <2>5 DEF TypeOK
  <2> QED
    BY <2>8, <2>9
<1>5. ASSUME NEW d \in Download, Sniff(d) PROVE TypeOK' /\ Working'
  <2>1. Cached(asked[d]) \in Verdict
    BY DEF Cached
  <2> QED
    BY <1>5, <2>1 DEF Sniff, TypeOK
<1>6. ASSUME NEW d \in Download, Ignored(d) PROVE TypeOK' /\ Working'
  BY <1>6, RecordMissType DEF Ignored, TypeOK
<1>7. ASSUME NEW d \in Download, Degrade(d) PROVE TypeOK' /\ Working'
  BY <1>7 DEF Degrade, TypeOK
<1>8. ASSUME NEW d \in Download, Done(d) PROVE TypeOK' /\ Working'
  BY <1>8 DEF Done, Forgotten, TypeOK
<1>9. ASSUME NEW d \in Download, Failed(d) PROVE TypeOK' /\ Working'
  BY <1>9, AbsentType DEF Failed, Forgotten, TypeOK
<1>10. CASE UNCHANGED vars
  BY <1>10 DEF vars, TypeOK
<1> QED
  BY <1>1, <1>2, <1>3, <1>4, <1>5, <1>6, <1>7, <1>8, <1>9, <1>10 DEF Next

\* engine.rs: a miss counter that saturates, an age that ends at the TTL.
THEOREM TypesHold == Spec => []TypeOK
<1>1. IInv => TypeOK
  BY DEF IInv
<1> QED
  BY <1>1, IInvInit, IInvStep, PTL DEF Spec

-----------------------------------------------------------------------------

\* No method turns an entry that says no into one that says yes; only time
\* and the removal after a failed task take it away.
LEMMA StepKeepsNo ==
    IInv /\ [Next]_vars => [\A k \in Key : Cached(k) = "no" => Cached(k)' # "yes"]_vars
<1> SUFFICES ASSUME IInv, [Next]_vars, NEW k \in Key, Cached(k) = "no"
             PROVE  Cached(k)' # "yes"
  OBVIOUS
<1>1. ~probe[k].ok /\ probe \in [Key -> Entry]
  BY DEF Cached, IInv, TypeOK
<1>2. ASSUME ~probe'[k].ok \/ probe'[k].age = ProbeTtl PROVE Cached(k)' # "yes"
  BY <1>2 DEF Cached
<1>3. CASE Tick
  BY <1>1, <1>2, <1>3 DEF Tick, Entry
<1>4. ASSUME NEW d \in Download, NEW j \in Key, NEW header \in BOOLEAN,
             NEW big \in BOOLEAN, Judge(d, header, big, j)
      PROVE  Cached(k)' # "yes"
  BY <1>1, <1>2, <1>4 DEF Judge, RecordOk
<1>5. ASSUME NEW d \in Download, Ignored(d) PROVE Cached(k)' # "yes"
  <2>1. asked[d] \in Key
    BY <1>5 DEF Ignored, IInv, Working
  <2>2. ~probe'[k].ok
    BY <1>1, <1>5, <2>1 DEF Ignored, RecordMiss, Entry
  <2> QED
    BY <1>2, <2>2
<1>6. ASSUME NEW d \in Download, Failed(d) PROVE Cached(k)' # "yes"
  BY <1>1, <1>2, <1>6 DEF Failed, Absent
<1>7. CASE UNCHANGED probe
  BY <1>1, <1>2, <1>7
<1> QED
  BY <1>3, <1>4, <1>5, <1>6, <1>7
  DEF Next, vars, Begin, Retry, Sniff, Degrade, Done

\* A verdict against a host is never turned by the headers of another
\* download, whatever it had read of the table before
\* (RunContext::record_range_ok).
THEOREM NegativeHolds == Spec => NegativeStands
BY IInvInit, IInvStep, StepKeepsNo, PTL DEF Spec, NegativeStands
=============================================================================
