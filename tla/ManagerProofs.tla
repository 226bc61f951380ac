---------------------------- MODULE ManagerProofs ----------------------------
(***************************************************************************)
(* Proofs about Manager for every set of tasks, destinations, worker slots *)
(* and callers, every max_concurrent and every set of operations.          *)
(***************************************************************************)
EXTENDS Manager, FiniteSetTheorems, TLAPS

-----------------------------------------------------------------------------
(* The queue                                                               *)

\* The rank of a kept position tells it from every other one.
LEMMA RankInjective ==
    ASSUME NEW K, IsFiniteSet(K), K \subseteq Nat, NEW i \in K, NEW j \in K,
           i < j
    PROVE  Rank(K, i) < Rank(K, j)
<1> DEFINE A == {k \in K : k <= i}
           B == {k \in K : k <= j}
<1>1. IsFiniteSet(A) /\ IsFiniteSet(B)
  BY FS_Subset
<1>2. A \subseteq B /\ j \in B /\ j \notin A
  <2>1. i \in Nat /\ j \in Nat /\ \A k \in K : k \in Nat
    OBVIOUS
  <2>2. \A k \in K : k <= i => k <= j
    BY <2>1
  <2>3. ~(j <= i) /\ j <= j
    BY <2>1
  <2> QED
    BY <2>2, <2>3
<1>3. Cardinality(A) <= Cardinality(B) /\ (Cardinality(A) = Cardinality(B) => A = B)
  BY <1>1, <1>2, FS_Subset
<1>4. Cardinality(A) \in Nat /\ Cardinality(B) \in Nat
  BY <1>1, FS_CardinalityType
<1> QED
  BY <1>2, <1>3, <1>4 DEF Rank

\* Every number up to the size of the kept set is the rank of one of them.
LEMMA RankSurjective ==
    ASSUME NEW K, IsFiniteSet(K), K \subseteq Nat,
           NEW j \in 1..Cardinality(K)
    PROVE  \E i \in K : Rank(K, i) = j
<1> DEFINE n == Cardinality(K)
           rank == [i \in K |-> Rank(K, i)]
<1>1. n \in Nat
  BY FS_CardinalityType
<1>2. ASSUME NEW i \in K PROVE Rank(K, i) \in 1..n
  <2> DEFINE A == {k \in K : k <= i}
  <2>1. IsFiniteSet(A) /\ Cardinality(A) <= n
    BY FS_Subset
  <2>2. Cardinality(A) \in Nat /\ (Cardinality(A) = 0 => A = {})
    BY <2>1, FS_CardinalityType, FS_EmptySet
  <2>3. i \in A
    OBVIOUS
  <2> QED
    BY <1>1, <2>1, <2>2, <2>3 DEF Rank
<1>3. \A i, k \in K : rank[i] = rank[k] => i = k
  <2> SUFFICES ASSUME NEW i \in K, NEW k \in K, i # k
               PROVE  rank[i] # rank[k]
    OBVIOUS
  <2>1. Rank(K, i) \in 1..n /\ Rank(K, k) \in 1..n
    BY <1>2
  <2>2. i \in Nat /\ k \in Nat
    OBVIOUS
  <2>3. i < k => Rank(K, i) < Rank(K, k)
    BY RankInjective
  <2>4. k < i => Rank(K, k) < Rank(K, i)
    BY RankInjective
  <2>5. rank[i] = Rank(K, i) /\ rank[k] = Rank(K, k)
    OBVIOUS
  <2> QED
    BY <1>1, <2>1, <2>2, <2>3, <2>4, <2>5
<1>4. rank \in Injection(K, 1..n)
  BY <1>2, <1>3 DEF Injection, IsInjective
<1>5. IsFiniteSet(1..n) /\ Cardinality(1..n) = n
  BY <1>1, FS_Interval
<1>6. rank \in Surjection(K, 1..n)
  BY <1>4, <1>5, FS_Injection
<1> QED
  BY <1>6 DEF Surjection

\* Retain keeps a queue a queue, drops every occurrence of the task and
\* leaves an empty queue empty (VecDeque::retain).
LEMMA RetainProperties ==
    ASSUME NEW q \in Seq(Task), NEW t
    PROVE  /\ Retain(q, t) \in Seq(Task)
           /\ t \notin Elements(Retain(q, t))
           /\ q = <<>> => Retain(q, t) = <<>>
<1> DEFINE K == Kept(q, t)
           at(j) == CHOOSE i \in K : Rank(K, i) = j
<1>1. IsFiniteSet(K) /\ K \subseteq Nat /\ K \subseteq DOMAIN q
  <2>1. IsFiniteSet(1..Len(q))
    BY FS_Interval
  <2>2. K \subseteq 1..Len(q)
    BY DEF Kept
  <2> QED
    BY <2>1, <2>2, FS_Subset
<1>2. Cardinality(K) \in Nat
  BY <1>1, FS_CardinalityType
<1>3. \A j \in 1..Cardinality(K) : at(j) \in K
  BY <1>1, RankSurjective
<1>4. \A j \in 1..Cardinality(K) : q[at(j)] \in Task /\ q[at(j)] # t
  <2>1. \A i \in K : q[i] \in Task /\ q[i] # t
    BY DEF Kept
  <2> HIDE DEF K, at
  <2> QED
    BY <1>3, <2>1
<1>5. Retain(q, t) = [j \in 1..Cardinality(K) |-> q[at(j)]]
  BY DEF Retain
<1>6. Retain(q, t) \in [1..Cardinality(K) -> Task]
  BY <1>4, <1>5
<1>7. Retain(q, t) \in Seq(Task)
  BY <1>2, <1>6
<1>8. t \notin Elements(Retain(q, t))
  BY <1>4, <1>5 DEF Elements
<1>9. q = <<>> => Retain(q, t) = <<>>
  <2> SUFFICES ASSUME q = <<>> PROVE Retain(q, t) = <<>>
    OBVIOUS
  <2>1. K = {}
    BY DEF Kept
  <2>2. Cardinality(K) = 0
    BY <2>1, FS_EmptySet
  <2>3. Len(Retain(q, t)) = 0
    BY <1>6, <1>7, <2>2
  <2> QED
    BY <1>7, <2>3
<1> QED
  BY <1>7, <1>8, <1>9
-----------------------------------------------------------------------------
(* The inductive invariant                                                 *)

\* A worker, the dispatcher and a call know the task they are working on.
TaskKnown ==
    /\ \A w \in Worker : wpc[w] # "free" => wtask[w] \in Task
    /\ dpc \in {"get", "acquire", "putback", "store"} => held \in Task
    /\ \A c \in Caller :
          /\ cop[c] \notin {"none", "shutdown"} => ctask[c] \in Task
          /\ cpc[c] = "idle" <=> cop[c] = "none"
          /\ cop[c] = "shutdown" =>
                cpc[c] \in {"stop_all", "take_all", "await", "abort"}
          /\ cpc[c] \in {"stop_all", "take_all", "abort"} =>
                cop[c] = "shutdown"

IInv == /\ TypeOK
        /\ TaskKnown
        /\ PermitsConserved
        /\ OneWriterPerDest
        /\ NoLostWakeup

Holders == {w \in Worker : Holding(w)}

LEMMA HoldersFinite == IsFiniteSet(Holders) /\ Cardinality(Holders) \in Nat
<1>1. Holders \in SUBSET Worker
  BY DEF Holders
<1>2. IsFiniteSet(Holders)
  BY <1>1, FS_Subset, WorkerAssumption
<1> QED
  BY <1>2, FS_CardinalityType

\* The initial state satisfies the invariant.
LEMMA InitIInv == Init => IInv
<1> SUFFICES ASSUME Init PROVE IInv
  OBVIOUS
<1> USE MaxConcurrentAssumption, OpsAssumption
<1>1. TypeOK
  <2>1. queue \in Seq(Task) /\ permits \in 0..MaxConcurrent
    BY DEF Init
  <2>2. /\ tasks \subseteq Task /\ destLocks \subseteq Dest /\ part \subseteq Dest
        /\ state \in [Task -> TaskState \cup {"absent"}]
        /\ cancelled \in [Task -> BOOLEAN]
        /\ handle \in [Task -> Worker \cup {None}]
        /\ notified \in BOOLEAN /\ aborted \in BOOLEAN
    BY DEF Init
  <2>3. /\ dpc \in DispatcherStep /\ held \in Task \cup {None}
        /\ spawned \in Worker \cup {None}
        /\ wpc \in [Worker -> WorkerStep]
        /\ wtask \in [Worker -> Task \cup {None}]
        /\ wtoken \in [Worker -> TokenView]
    BY DEF Init, DispatcherStep, WorkerStep, TokenView
  <2>4. /\ cpc \in [Caller -> CallerStep]
        /\ cop \in [Caller -> AllOps \cup {"add", "none"}]
        /\ ctask \in [Caller -> Task \cup {None}]
        /\ cstop \in [Caller -> SUBSET Task]
        /\ ctake \in [Caller -> SUBSET Task]
        /\ cwaits \in [Caller -> SUBSET Worker]
        /\ calls \in [Caller -> 0..MaxCalls]
    BY DEF Init, CallerStep
  <2> QED
    BY <2>1, <2>2, <2>3, <2>4 DEF TypeOK
<1>2. TaskKnown
  BY DEF Init, TaskKnown
<1>3. PermitsConserved
  <2>1. Holders = {}
    BY DEF Init, Holders, Holding
  <2>2. Cardinality(Holders) = 0
    BY <2>1, FS_EmptySet
  <2>3. permits = MaxConcurrent
    BY DEF Init
  <2> QED
    BY <2>2, <2>3 DEF PermitsConserved, Holders
<1>4. OneWriterPerDest
  BY DEF Init, OneWriterPerDest, Guarding
<1>5. NoLostWakeup
  BY DEF Init, NoLostWakeup
<1> QED
  BY <1>1, <1>2, <1>3, <1>4, <1>5 DEF IInv

\* With no permit left somebody holds one.
LEMMA NoPermitMeansHolder ==
    ASSUME PermitsConserved, permits = 0
    PROVE  \E w \in Worker : Holding(w)
<1>1. Cardinality(Holders) = MaxConcurrent
  BY HoldersFinite, MaxConcurrentAssumption DEF PermitsConserved, Holders
<1>2. Holders # {}
  BY <1>1, MaxConcurrentAssumption, FS_EmptySet
<1> QED
  BY <1>2 DEF Holders

\* A step of the dispatch loop keeps the invariant.
LEMMA DispatcherIInv == IInv /\ Dispatcher => IInv'
<1> SUFFICES ASSUME IInv, Dispatcher PROVE IInv'
  OBVIOUS
<1> USE DEF IInv
<1>1. TypeOK' /\ TaskKnown'
  <2> USE DEF TypeOK, TaskKnown, DUnchanged, entryVars, workerVars, callerVars,
              DispatcherStep
  <2>1. CASE DPop
    <3>1. CASE queue = <<>>
      BY <2>1, <3>1 DEF DPop
    <3>2. CASE queue # <<>>
      <4>1. Head(queue) \in Task /\ Tail(queue) \in Seq(Task)
        BY <3>2
      <4> QED
        BY <2>1, <3>2, <4>1 DEF DPop
    <3> QED
      BY <3>1, <3>2
  <2>2. CASE DGet
    BY <2>2 DEF DGet
  <2>3. CASE DNoPermit
    BY <2>3 DEF DNoPermit
  <2>4. CASE DPutBack
    BY <2>4 DEF DPutBack
  <2>5. CASE DStore
    BY <2>5 DEF DStore
  <2>6. CASE DWake
    BY <2>6 DEF DWake
  <2>7. CASE DAborted
    BY <2>7 DEF DAborted
  <2>8. ASSUME NEW w \in Worker, DSpawn(w) PROVE TypeOK' /\ TaskKnown'
    BY <2>8, MaxConcurrentAssumption DEF DSpawn, WorkerStep, TokenView
  <2> QED
    BY <2>1, <2>2, <2>3, <2>4, <2>5, <2>6, <2>7, <2>8 DEF Dispatcher
<1>2. PermitsConserved' /\ OneWriterPerDest'
  <2>1. ASSUME UNCHANGED <<workerVars, permits, destLocks>>
        PROVE  PermitsConserved' /\ OneWriterPerDest'
    BY <2>1 DEF PermitsConserved, OneWriterPerDest, Holding, Guarding, WDest,
                workerVars
  <2>2. ASSUME NEW w \in Worker, DSpawn(w)
        PROVE  PermitsConserved' /\ OneWriterPerDest'
    <3> USE <2>2 DEF DSpawn, DUnchanged, TypeOK
    <3>1. PermitsConserved'
      <4>1. Holders' = Holders \cup {w} /\ w \notin Holders
        BY DEF Holders, Holding
      <4>2. Cardinality(Holders') = Cardinality(Holders) + 1
        BY <4>1, HoldersFinite, FS_AddElement
      <4> QED
        BY <4>2, HoldersFinite, MaxConcurrentAssumption
           DEF PermitsConserved, Holders
    <3>2. \A v \in Worker : /\ Guarding(v)' <=> Guarding(v)
                            /\ Guarding(v) => WDest(v)' = WDest(v)
      BY DEF Guarding, WDest
    <3>3. OneWriterPerDest'
      BY <3>2 DEF OneWriterPerDest
    <3> QED
      BY <3>1, <3>3
  <2> QED
    BY <2>1, <2>2 DEF Dispatcher, DPop, DGet, DNoPermit, DPutBack, DStore,
                      DWake, DAborted, DUnchanged
<1>3. NoLostWakeup'
  <2> USE DEF NoLostWakeup, WillNotify, DUnchanged, callerVars, workerVars,
              Holding
  <2>1. CASE DPop
    BY <2>1 DEF DPop
  <2>2. CASE DGet
    BY <2>2 DEF DGet
  <2>3. CASE DNoPermit
    BY <2>3, NoPermitMeansHolder DEF DNoPermit
  <2>4. CASE DPutBack
    BY <2>4 DEF DPutBack
  <2>5. CASE DStore
    BY <2>5 DEF DStore
  <2>6. CASE DWake
    BY <2>6 DEF DWake
  <2>7. CASE DAborted
    BY <2>7 DEF DAborted
  <2>8. ASSUME NEW w \in Worker, DSpawn(w) PROVE NoLostWakeup'
    BY <2>8 DEF DSpawn
  <2> QED
    BY <2>1, <2>2, <2>3, <2>4, <2>5, <2>6, <2>7, <2>8 DEF Dispatcher
<1> QED
  BY <1>1, <1>2, <1>3

\* The step of a worker keeps the invariant.
LEMMA WorkerIInv == ASSUME NEW w \in Worker PROVE IInv /\ WorkerNext(w) => IInv'
<1> SUFFICES ASSUME IInv, WorkerNext(w) PROVE IInv'
  OBVIOUS
<1> USE DEF IInv
<1>1. wpc[w] # "free" /\ wtask[w] \in Task /\ WDest(w) \in Dest
  <2>1. wpc[w] # "free"
    BY DEF WorkerNext, WorkerBody, EngineEnd, WLock, WBusy, WBusyFail, WStart,
           WToken, WFinish, WRelease, WNotify, WReturn, EngineIO, EngineOk,
           EngineCancelled, EngineFailed, Ended, Step
  <2> QED
    BY <2>1, DestOfAssumption DEF TaskKnown, WDest
<1>2. PermitsConserved' /\ (WRelease(w) => permits < MaxConcurrent)
  <2>1. CASE WRelease(w)
    <3>1. Holders' = Holders \ {w} /\ w \in Holders
      BY <2>1 DEF WRelease, Step, Holders, Holding, TypeOK
    <3>2. Cardinality(Holders') = Cardinality(Holders) - 1
      BY <3>1, HoldersFinite, FS_RemoveElement
    <3>3. Cardinality(Holders) > 0
      BY <3>1, HoldersFinite, FS_EmptySet
    <3> QED
      BY <2>1, <3>2, <3>3, HoldersFinite, MaxConcurrentAssumption
         DEF WRelease, PermitsConserved, Holders, TypeOK
  <2>2. CASE ~WRelease(w)
    <3>1. permits' = permits
      BY <2>2 DEF WorkerNext, WorkerBody, EngineEnd, WLock, WBusy, WBusyFail,
             WStart, WToken, WFinish, WNotify, WReturn, EngineIO, EngineOk,
             EngineCancelled, EngineFailed
    <3>2. Holders' = Holders
      <4> USE <2>2 DEF Step, Ended, Holders, Holding, TypeOK
      <4>1. CASE WLock(w) \/ WBusy(w) \/ WBusyFail(w)
        BY <4>1 DEF WLock, WBusy, WBusyFail
      <4>2. CASE WStart(w) \/ WToken(w) \/ EngineIO(w)
        BY <4>2 DEF WStart, WToken, EngineIO
      <4>3. CASE EngineEnd(w)
        BY <4>3 DEF EngineEnd, EngineOk, EngineCancelled, EngineFailed
      <4>4. CASE WFinish(w)
        BY <4>4 DEF WFinish
      <4>5. CASE WNotify(w) \/ WReturn(w)
        BY <4>5 DEF WNotify, WReturn
      <4> QED
        BY <4>1, <4>2, <4>3, <4>4, <4>5 DEF WorkerNext, WorkerBody
    <3> QED
      BY <2>2, <3>1, <3>2 DEF PermitsConserved, Holders
  <2> QED
    BY <2>1, <2>2
<1>3. TypeOK' /\ TaskKnown'
  <2> USE <1>1 DEF TypeOK, TaskKnown, WUnchanged, NoReturn, Step, Ended,
               WorkerStep, TokenView, TaskState
  <2>r. ASSUME Returned(w)
        PROVE  /\ handle' \in [Task -> Worker \cup {None}]
               /\ spawned' \in Worker \cup {None}
               /\ cwaits' \in [Caller -> SUBSET Worker]
               /\ wtask' \in [Worker -> Task \cup {None}]
               /\ \A v \in Worker \ {w} : wtask'[v] = wtask[v]
    BY <2>r DEF Returned
  <2>1. CASE WLock(w)
    BY <2>1 DEF WLock
  <2>2. CASE WBusy(w)
    BY <2>2 DEF WBusy
  <2>3. CASE WBusyFail(w)
    BY <2>3 DEF WBusyFail
  <2>4. CASE WStart(w)
    BY <2>4 DEF WStart
  <2>5. CASE WToken(w)
    BY <2>5 DEF WToken
  <2>6. CASE WFinish(w)
    <3>1. wpc' \in [Worker -> WorkerStep] /\ \A v \in Worker : wpc'[v] # "free" => wpc[v] # "free"
      BY <2>6 DEF WFinish
    <3>2. state' \in [Task -> TaskState \cup {"absent"}]
      BY <2>6 DEF WFinish
    <3> QED
      BY <2>6, <3>1, <3>2 DEF WFinish
  <2>7. CASE WRelease(w)
    <3>1. permits' \in 0..MaxConcurrent
      BY <2>7, <1>2, MaxConcurrentAssumption DEF WRelease
    <3>2. wpc' \in [Worker -> WorkerStep] /\ \A v \in Worker : wpc'[v] # "free" => wpc[v] # "free"
      BY <2>7 DEF WRelease
    <3> QED
      BY <2>7, <3>1, <3>2 DEF WRelease
  <2>8. CASE WNotify(w)
    <3>1. CASE Step(w, "notify", "return") /\ NoReturn
      BY <2>8, <3>1 DEF WNotify
    <3>2. CASE Step(w, "busy_notify", "free") /\ Returned(w)
      BY <2>8, <2>r, <3>2 DEF WNotify
    <3> QED
      BY <2>8, <3>1, <3>2 DEF WNotify
  <2>9. CASE WReturn(w)
    <3>1. wpc' \in [Worker -> WorkerStep] /\ destLocks' \in SUBSET Dest
      BY <2>9 DEF WReturn
    <3>2. \A v \in Worker : wpc'[v] # "free" => wtask'[v] \in Task
      BY <2>9, <2>r DEF WReturn
    <3> QED
      BY <2>9, <2>r, <3>1, <3>2 DEF WReturn
  <2>10. CASE EngineIO(w)
    BY <2>10 DEF EngineIO
  <2>11. CASE EngineOk(w)
    BY <2>11 DEF EngineOk
  <2>12. CASE EngineCancelled(w)
    BY <2>12 DEF EngineCancelled
  <2>13. CASE EngineFailed(w)
    BY <2>13 DEF EngineFailed
  <2> QED
    BY <2>1, <2>2, <2>3, <2>4, <2>5, <2>6, <2>7, <2>8, <2>9, <2>10, <2>11, <2>12, <2>13
       DEF WorkerNext, WorkerBody, EngineEnd
<1>4. OneWriterPerDest'
  <2> USE <1>1 DEF TypeOK
  <2>1. CASE WLock(w)
    BY <2>1 DEF WLock, WUnchanged, NoReturn, Step, OneWriterPerDest, Guarding,
                WDest
  <2>2. CASE WReturn(w)
    <3>1. /\ Guarding(w) /\ ~Guarding(w)'
          /\ \A v \in Worker \ {w} : /\ Guarding(v)' <=> Guarding(v)
                                     /\ WDest(v)' = WDest(v)
          /\ destLocks' = destLocks \ {WDest(w)}
      BY <2>2 DEF WReturn, Returned, Step, Guarding, WDest
    <3>2. \A u, v \in Worker :
             Guarding(u)' /\ Guarding(v)' /\ WDest(u)' = WDest(v)' => u = v
      BY <3>1 DEF OneWriterPerDest
    <3>3. \A v \in Worker \ {w} : Guarding(v) => WDest(v) # WDest(w)
      BY <3>1 DEF OneWriterPerDest
    <3>4. destLocks = {WDest(v) : v \in {u \in Worker : Guarding(u)}}
      BY DEF OneWriterPerDest
    <3>5. ASSUME NEW d
          PROVE  d \in destLocks' <=> \E v \in Worker : Guarding(v)' /\ d = WDest(v)'
      BY <3>1, <3>3, <3>4
    <3>6. destLocks' = {WDest(v)' : v \in {u \in Worker : Guarding(u)'}}
      BY <3>5
    <3> QED
      BY <3>2, <3>6 DEF OneWriterPerDest
  <2>3. CASE ~WLock(w) /\ ~WReturn(w)
    <3>1. /\ \A v \in Worker : /\ Guarding(v)' <=> Guarding(v)
                               /\ Guarding(v) => wtask'[v] = wtask[v]
          /\ destLocks' = destLocks
      <4> USE <2>3 DEF Step, Ended, Guarding, NoReturn
      <4>1. CASE WBusy(w) \/ WBusyFail(w)
        BY <4>1 DEF WBusy, WBusyFail
      <4>2. CASE WStart(w) \/ WToken(w) \/ EngineIO(w)
        BY <4>2 DEF WStart, WToken, EngineIO
      <4>3. CASE EngineEnd(w)
        BY <4>3 DEF EngineEnd, EngineOk, EngineCancelled, EngineFailed
      <4>4. CASE WFinish(w)
        BY <4>4 DEF WFinish
      <4>5. CASE WRelease(w)
        BY <4>5 DEF WRelease
      <4>6. CASE WNotify(w)
        BY <4>6 DEF WNotify, Returned
      <4> QED
        BY <4>1, <4>2, <4>3, <4>4, <4>5, <4>6 DEF WorkerNext, WorkerBody
    <3>2. \A v \in Worker : Guarding(v) => WDest(v)' = WDest(v)
      BY <3>1 DEF WDest
    <3> QED
      BY <3>1, <3>2 DEF OneWriterPerDest
  <2> QED
    BY <2>1, <2>2, <2>3
<1>5. NoLostWakeup'
  <2> USE <1>1 DEF NoLostWakeup, WillNotify, Holding, WUnchanged, Step, Ended,
               TypeOK
  <2>1. CASE WLock(w)
    BY <2>1 DEF WLock
  <2>2. CASE WBusy(w)
    BY <2>2 DEF WBusy
  <2>3. CASE WBusyFail(w)
    BY <2>3 DEF WBusyFail
  <2>4. CASE WStart(w)
    BY <2>4 DEF WStart
  <2>5. CASE WToken(w)
    BY <2>5 DEF WToken
  <2>6. CASE WFinish(w)
    BY <2>6 DEF WFinish
  <2>7. CASE WRelease(w)
    BY <2>7 DEF WRelease
  <2>8. CASE WNotify(w)
    BY <2>8 DEF WNotify
  <2>9. CASE WReturn(w)
    BY <2>9 DEF WReturn
  <2>10. CASE EngineIO(w)
    BY <2>10 DEF EngineIO
  <2>11. CASE EngineOk(w)
    BY <2>11 DEF EngineOk
  <2>12. CASE EngineCancelled(w)
    BY <2>12 DEF EngineCancelled
  <2>13. CASE EngineFailed(w)
    BY <2>13 DEF EngineFailed
  <2> QED
    BY <2>1, <2>2, <2>3, <2>4, <2>5, <2>6, <2>7, <2>8, <2>9, <2>10, <2>11, <2>12, <2>13
       DEF WorkerNext, WorkerBody, EngineEnd
<1> QED
  BY <1>2, <1>3, <1>4, <1>5

\* TypeOK in two parts: what the calls do, and where they are.
DataOK ==
    /\ tasks \subseteq Task
    /\ state \in [Task -> TaskState \cup {"absent"}]
    /\ queue \in Seq(Task)
    /\ cancelled \in [Task -> BOOLEAN]
    /\ handle \in [Task -> Worker \cup {None}]
    /\ notified \in BOOLEAN /\ aborted \in BOOLEAN
    /\ part \subseteq Dest
    /\ wtoken \in [Worker -> TokenView]
    /\ cstop \in [Caller -> SUBSET Task]
    /\ ctake \in [Caller -> SUBSET Task]
    /\ cwaits \in [Caller -> SUBSET Worker]

ControlOK ==
    /\ cpc \in [Caller -> CallerStep]
    /\ cop \in [Caller -> AllOps \cup {"add", "none"}]
    /\ ctask \in [Caller -> Task \cup {None}]
    /\ calls \in [Caller -> 0..MaxCalls]

\* The step of a call keeps the invariant.
LEMMA CallerIInv ==
    ASSUME NEW c \in Caller
    PROVE  IInv /\ (CallerBegin(c) \/ CallerStepNext(c)) => IInv'
<1> SUFFICES ASSUME IInv, CallerBegin(c) \/ CallerStepNext(c) PROVE IInv'
  OBVIOUS
<1> USE DEF IInv
<1>1. UNCHANGED <<permits, destLocks, dpc, held, spawned, wpc, wtask>>
  BY DEF CallerBegin, CallerStepNext, PauseRead, ResumeCheck, RetryCheck,
         Requeue, Renew, Enqueue, Notify, Dequeue, Stop, Write, Take, Await,
         Unlink, Unmap, StoppedAll, TookAll, Abort, StopOne, TakeOne, Shutdown,
         Add, Call, CUnchanged, dispVars
<1>2. PermitsConserved'
  BY <1>1 DEF PermitsConserved, Holding
<1>3. OneWriterPerDest'
  BY <1>1 DEF OneWriterPerDest, Guarding, WDest
<1>4. DataOK'
  <2> USE <1>1 DEF TypeOK, DataOK, CallKept, entryVars, TaskState, TokenView
  <2>1. CASE PauseRead(c)
    BY <2>1 DEF PauseRead
  <2>2. CASE ResumeCheck(c)
    BY <2>2 DEF ResumeCheck, Requeue
  <2>3. CASE RetryCheck(c)
    BY <2>3 DEF RetryCheck, Requeue
  <2>4. CASE Renew(c)
    BY <2>4 DEF Renew
  <2>5. CASE Enqueue(c)
    <3>1. ctask[c] \in Task
      BY <2>5 DEF Enqueue, CStep, TaskKnown
    <3>2. queue' \in Seq(Task)
      BY <2>5, <3>1 DEF Enqueue
    <3> QED
      BY <2>5, <3>2 DEF Enqueue
  <2>6. CASE Notify(c)
    BY <2>6 DEF Notify
  <2>7. CASE Dequeue(c)
    BY <2>7, RetainProperties DEF Dequeue
  <2>8. CASE Stop(c)
    BY <2>8 DEF Stop
  <2>9. CASE Write(c)
    BY <2>9 DEF Write
  <2>10. CASE Take(c)
    <3>1. ctask[c] \in Task
      BY <2>10 DEF Take, CStep, TaskKnown
    <3>2. /\ cwaits' \in [Caller -> SUBSET Worker]
          /\ handle' \in [Task -> Worker \cup {None}]
      BY <2>10, <3>1 DEF Take
    <3> QED
      BY <2>10, <3>2 DEF Take
  <2>11. CASE Await(c)
    BY <2>11 DEF Await
  <2>12. CASE Unlink(c)
    BY <2>12 DEF Unlink
  <2>13. CASE Unmap(c)
    BY <2>13 DEF Unmap
  <2>14. CASE StoppedAll(c)
    BY <2>14 DEF StoppedAll
  <2>15. CASE TookAll(c)
    BY <2>15 DEF TookAll
  <2>16. CASE Abort(c)
    BY <2>16 DEF Abort
  <2>17. ASSUME NEW t \in Task, StopOne(c, t) PROVE DataOK'
    BY <2>17 DEF StopOne
  <2>18. ASSUME NEW t \in Task, TakeOne(c, t) PROVE DataOK'
    BY <2>18 DEF TakeOne
  <2>19. CASE Shutdown(c)
    BY <2>19 DEF Shutdown
  <2>20. ASSUME NEW t \in Task, Add(c, t) PROVE DataOK'
    BY <2>20 DEF Add
  <2>21. ASSUME NEW t \in Task, NEW op \in Ops, Call(c, op, t) PROVE DataOK'
    BY <2>21 DEF Call
  <2> QED
    BY <2>1, <2>2, <2>3, <2>4, <2>5, <2>6, <2>7, <2>8, <2>9, <2>10, <2>11,
         <2>12, <2>13, <2>14, <2>15, <2>16, <2>17, <2>18, <2>19, <2>20, <2>21
       DEF CallerBegin, CallerStepNext
<1>5. ASSUME NEW from, NEW to, CStep(c, from, to), from # "idle",
             to \in CallerStep,
             cop[c] = "shutdown" => to \in {"idle", "take_all", "await", "abort"},
             to \in {"stop_all", "take_all", "abort"} => cop[c] = "shutdown"
      PROVE  ControlOK' /\ TaskKnown'
  <2> USE <1>1, <1>5 DEF TypeOK, TaskKnown, ControlOK, CStep
  <2>1. CASE to = "idle"
    <3>1. ControlOK'
      BY <2>1
    <3>2. TaskKnown'
      BY <2>1
    <3> QED
      BY <3>1, <3>2
  <2>2. CASE to # "idle"
    <3>1. ControlOK'
      BY <2>2
    <3>2. TaskKnown'
      BY <2>2
    <3> QED
      BY <3>1, <3>2
  <2> QED
    BY <2>1, <2>2
<1>6. ASSUME NEW op \in AllOps \cup {"add"}, NEW t \in Task \cup {None},
             NEW to \in CallerStep, Begin(c, op, t, to), to # "idle",
             op # "shutdown" => t \in Task /\ to \notin {"stop_all", "take_all", "abort"},
             op = "shutdown" => to = "stop_all"
      PROVE  ControlOK' /\ TaskKnown'
  <2> USE <1>1, <1>6 DEF TypeOK, TaskKnown, ControlOK, Begin
  <2>1. calls' \in [Caller -> 0..MaxCalls]
    <3>1. CASE op = "add"
      BY <3>1
    <3>2. CASE op # "add"
      <4>1. calls[c] + 1 \in 0..MaxCalls
        BY <3>2, OpsAssumption
      <4> QED
        BY <3>2, <4>1
    <3> QED
      BY <3>1, <3>2
  <2>2. ControlOK'
    BY <2>1 DEF CallerStep, AllOps
  <2>3. TaskKnown'
    BY DEF AllOps
  <2> QED
    BY <2>2, <2>3
<1>7. ControlOK' /\ TaskKnown'
  <2> USE <1>1 DEF CallerStep
  <2>1. CASE PauseRead(c)
    BY <2>1, <1>5 DEF PauseRead, CStep, TypeOK, TaskKnown
  <2>2. CASE ResumeCheck(c)
    BY <2>2, <1>5 DEF ResumeCheck, Requeue, CStep, TypeOK, TaskKnown
  <2>3. CASE RetryCheck(c)
    BY <2>3, <1>5 DEF RetryCheck, Requeue, CStep, TypeOK, TaskKnown
  <2>4. CASE Renew(c)
    BY <2>4, <1>5 DEF Renew, CStep, TypeOK, TaskKnown
  <2>5. CASE Enqueue(c)
    BY <2>5, <1>5 DEF Enqueue, CStep, TypeOK, TaskKnown
  <2>6. CASE Notify(c)
    BY <2>6, <1>5 DEF Notify, CStep, TypeOK, TaskKnown
  <2>7. CASE Dequeue(c)
    BY <2>7, <1>5 DEF Dequeue, CStep, TypeOK, TaskKnown
  <2>8. CASE Stop(c)
    BY <2>8, <1>5 DEF Stop, CStep, TypeOK, TaskKnown
  <2>9. CASE Write(c)
    BY <2>9, <1>5 DEF Write, CStep, TypeOK, TaskKnown
  <2>10. CASE Take(c)
    BY <2>10, <1>5 DEF Take, CStep, TypeOK, TaskKnown
  <2>11. CASE Await(c)
    BY <2>11, <1>5 DEF Await, CStep, TypeOK, TaskKnown
  <2>12. CASE Unlink(c)
    BY <2>12, <1>5 DEF Unlink, CStep, TypeOK, TaskKnown
  <2>13. CASE Unmap(c)
    BY <2>13, <1>5 DEF Unmap, CStep, TypeOK, TaskKnown
  <2>14. CASE StoppedAll(c)
    BY <2>14, <1>5 DEF StoppedAll, CStep, TypeOK, TaskKnown
  <2>15. CASE TookAll(c)
    BY <2>15, <1>5 DEF TookAll, CStep, TypeOK, TaskKnown
  <2>16. CASE Abort(c)
    BY <2>16, <1>5 DEF Abort, CStep, TypeOK, TaskKnown
  <2>17. ASSUME NEW t \in Task, StopOne(c, t) PROVE ControlOK' /\ TaskKnown'
    BY <2>17 DEF StopOne, TypeOK, TaskKnown, ControlOK
  <2>18. ASSUME NEW t \in Task, TakeOne(c, t) PROVE ControlOK' /\ TaskKnown'
    BY <2>18 DEF TakeOne, TypeOK, TaskKnown, ControlOK
  <2>19. CASE Shutdown(c)
    BY <2>19, <1>6 DEF Shutdown, AllOps
  <2>20. ASSUME NEW t \in Task, Add(c, t) PROVE ControlOK' /\ TaskKnown'
    BY <2>20, <1>6 DEF Add
  <2>21. ASSUME NEW t \in Task, NEW op \in Ops, Call(c, op, t) PROVE ControlOK' /\ TaskKnown'
    BY <2>21, <1>6, OpsAssumption DEF Call, AllOps, FirstStep
  <2> QED
    BY <2>1, <2>2, <2>3, <2>4, <2>5, <2>6, <2>7, <2>8, <2>9, <2>10, <2>11,
         <2>12, <2>13, <2>14, <2>15, <2>16, <2>17, <2>18, <2>19, <2>20, <2>21
       DEF CallerBegin, CallerStepNext
<1>8. TypeOK'
  BY <1>1, <1>4, <1>7 DEF TypeOK, DataOK, ControlOK
<1>9. NoLostWakeup'
  <2> USE <1>1 DEF NoLostWakeup, WillNotify, Holding, CStep, entryVars, TypeOK
  <2>1. CASE PauseRead(c)
    BY <2>1 DEF PauseRead
  <2>2. CASE ResumeCheck(c)
    BY <2>2 DEF ResumeCheck, Requeue
  <2>3. CASE RetryCheck(c)
    BY <2>3 DEF RetryCheck, Requeue
  <2>4. CASE Renew(c)
    BY <2>4 DEF Renew
  <2>5. CASE Enqueue(c)
    BY <2>5 DEF Enqueue
  <2>6. CASE Notify(c)
    BY <2>6 DEF Notify
  <2>7. CASE Dequeue(c)
    BY <2>7, RetainProperties DEF Dequeue
  <2>8. CASE Stop(c)
    BY <2>8 DEF Stop
  <2>9. CASE Write(c)
    BY <2>9 DEF Write
  <2>10. CASE Take(c)
    BY <2>10 DEF Take
  <2>11. CASE Await(c)
    BY <2>11 DEF Await
  <2>12. CASE Unlink(c)
    BY <2>12 DEF Unlink
  <2>13. CASE Unmap(c)
    BY <2>13 DEF Unmap
  <2>14. CASE StoppedAll(c)
    BY <2>14 DEF StoppedAll
  <2>15. CASE TookAll(c)
    BY <2>15 DEF TookAll
  <2>16. CASE Abort(c)
    BY <2>16 DEF Abort
  <2>17. ASSUME NEW t \in Task, StopOne(c, t) PROVE NoLostWakeup'
    BY <2>17 DEF StopOne
  <2>18. ASSUME NEW t \in Task, TakeOne(c, t) PROVE NoLostWakeup'
    BY <2>18 DEF TakeOne
  <2>19. CASE Shutdown(c)
    BY <2>19 DEF Shutdown, Begin
  <2>20. ASSUME NEW t \in Task, Add(c, t) PROVE NoLostWakeup'
    BY <2>20 DEF Add, Begin
  <2>21. ASSUME NEW t \in Task, NEW op \in Ops, Call(c, op, t) PROVE NoLostWakeup'
    BY <2>21, OpsAssumption DEF Call, Begin, FirstStep
  <2> QED
    BY <2>1, <2>2, <2>3, <2>4, <2>5, <2>6, <2>7, <2>8, <2>9, <2>10, <2>11,
         <2>12, <2>13, <2>14, <2>15, <2>16, <2>17, <2>18, <2>19, <2>20, <2>21
       DEF CallerBegin, CallerStepNext
<1> QED
  BY <1>2, <1>3, <1>7, <1>8, <1>9

\* Every step, a stuttering one included, keeps the invariant.
LEMMA NextIInv == IInv /\ [Next]_vars => IInv'
<1>1. IInv /\ Next => IInv'
  BY DispatcherIInv, WorkerIInv, CallerIInv DEF Next
<1>2. IInv /\ UNCHANGED vars => IInv'
  <2> SUFFICES ASSUME IInv, UNCHANGED vars PROVE IInv'
    OBVIOUS
  <2> USE DEF IInv, vars, entryVars, dispVars, workerVars, callerVars
  <2>1. TypeOK' /\ TaskKnown'
    BY DEF TypeOK, TaskKnown
  <2>2. PermitsConserved'
    BY DEF PermitsConserved, Holding
  <2>3. OneWriterPerDest'
    BY DEF OneWriterPerDest, Guarding, WDest
  <2>4. NoLostWakeup'
    BY DEF NoLostWakeup, WillNotify, Holding
  <2> QED
    BY <2>1, <2>2, <2>3, <2>4
<1> QED
  BY <1>1, <1>2

-----------------------------------------------------------------------------
(* Theorems                                                                *)

\* The invariant holds in every reachable state.
THEOREM Invariance == Spec => []IInv
BY InitIInv, NextIInv, PTL DEF Spec

\* Type correctness.
THEOREM TypeCorrect == Spec => []TypeOK
<1>1. IInv => TypeOK
  BY DEF IInv
<1> QED
  BY <1>1, Invariance, PTL

\* No path of a worker loses a permit or gives one back twice: permits and
\* their holders always add up to max_concurrent.
THEOREM PermitsAreConserved == Spec => []PermitsConserved
<1>1. IInv => PermitsConserved
  BY DEF IInv
<1> QED
  BY <1>1, Invariance, PTL

\* At no time do two workers hold the guard of one destination, and a
\* destination is locked exactly while a worker holds its guard.
THEOREM DestinationsAreExclusive == Spec => []OneWriterPerDest
<1>1. IInv => OneWriterPerDest
  BY DEF IInv
<1> QED
  BY <1>1, Invariance, PTL

\* The dispatcher never sleeps next to a queued task that nobody is going to
\* announce, however the calls and the workers interleave.
THEOREM WakeupsAreNotLost == Spec => []NoLostWakeup
<1>1. IInv => NoLostWakeup
  BY DEF IInv
<1> QED
  BY <1>1, Invariance, PTL

-----------------------------------------------------------------------------
(* No task is forgotten                                                    *)

\* Retain keeps every other task.
LEMMA RetainKeeps ==
    ASSUME NEW q \in Seq(Task), NEW t, NEW u \in Elements(q), u # t
    PROVE  u \in Elements(Retain(q, t))
<1> DEFINE K == Kept(q, t)
           at(j) == CHOOSE i \in K : Rank(K, i) = j
<1>1. IsFiniteSet(K) /\ K \subseteq Nat /\ K \subseteq DOMAIN q
  <2>1. IsFiniteSet(1..Len(q))
    BY FS_Interval
  <2>2. K \subseteq 1..Len(q)
    BY DEF Kept
  <2> QED
    BY <2>1, <2>2, FS_Subset
<1>2. PICK i \in K : q[i] = u
  BY DEF Elements, Kept
<1>3. PICK j : j = Rank(K, i)
  OBVIOUS
<1>4. j \in 1..Cardinality(K)
  <2>1. IsFiniteSet({k \in K : k <= i}) /\ Cardinality({k \in K : k <= i}) <= Cardinality(K)
    BY <1>1, FS_Subset
  <2>2. i \in {k \in K : k <= i}
    BY <1>1, <1>2
  <2>3. /\ Cardinality({k \in K : k <= i}) \in Nat /\ Cardinality(K) \in Nat
        /\ Cardinality({k \in K : k <= i}) # 0
    BY <1>1, <2>1, <2>2, FS_CardinalityType, FS_EmptySet
  <2> QED
    BY <1>3, <2>1, <2>3 DEF Rank
<1>5. at(j) = i
  <2>1. at(j) \in K /\ Rank(K, at(j)) = j
    BY <1>2, <1>3
  <2>2. i \in Nat /\ at(j) \in Nat
    BY <1>1, <1>2, <2>1
  <2>3. \A a \in K : \A b \in K : a < b => Rank(K, a) < Rank(K, b)
    BY <1>1, RankInjective
  <2>4. \A a \in K : Rank(K, a) \in Nat
    <3> SUFFICES ASSUME NEW a \in K PROVE Rank(K, a) \in Nat
      OBVIOUS
    <3>1. IsFiniteSet({k \in K : k <= a})
      BY <1>1, FS_Subset
    <3> QED
      BY <3>1, FS_CardinalityType DEF Rank
  <2> HIDE DEF K, at
  <2> QED
    BY <1>2, <1>3, <2>1, <2>2, <2>3, <2>4
<1>6. Retain(q, t) = [k \in 1..Cardinality(K) |-> q[at(k)]]
  BY DEF Retain
<1>7. j \in DOMAIN Retain(q, t) /\ Retain(q, t)[j] = u
  BY <1>2, <1>4, <1>5, <1>6
<1> QED
  BY <1>7 DEF Elements

\* Callers that do not race each other on one task.
OneCallPerTask ==
    \A c, d \in Caller : ctask[c] = ctask[d] /\ ctask[c] # None => c = d

\* A task that is going to be started.
Turn(t) ==
    \/ t \in Elements(queue)
    \/ held = t /\ dpc \in {"get", "acquire", "putback"}
    \/ \E w \in Worker : wtask[w] = t /\ wpc[w] \in {"lock", "busy", "start"}

\* A call that will queue its task, or write another state over Queued.
Excused(c) ==
    \/ cpc[c] \in {"renew", "enqueue"}
    \/ cpc[c] = "write" /\ cop[c] = "pause"

\* A call that has found, or written, another state than Queued.
Past(c) ==
    \/ cpc[c] \in {"stop", "take", "await", "unlink", "unmap"}
    \/ cpc[c] = "dequeue" /\ cop[c] # "pause"

Covered ==
    \A t \in tasks : state[t] = "Queued" =>
        Turn(t) \/ \E c \in Caller : ctask[c] = t /\ Excused(c)

PastQueued == \A c \in Caller : ctask[c] # None /\ Past(c) => state[ctask[c]] # "Queued"

Added ==
    /\ \A t \in tasks : state[t] # "absent"
    /\ \A c \in Caller :
          /\ ctask[c] # None => state[ctask[c]] # "absent"
          /\ cpc[c] = "pause_read" => cop[c] = "pause"
          /\ cop[c] = "shutdown" => ctask[c] = None

QueueInv == Covered /\ PastQueued /\ Added

\* What the dispatcher and the workers do keeps it: they hand a queued task
\* on, or end its being queued.
LEMMA HandOn ==
    ASSUME IInv, QueueInv, UNCHANGED <<tasks, cpc, cop, ctask>>,
           \A t \in Task : state'[t] = state[t]
                            \/ state'[t] \in {"Downloading", "Completed", "Failed"},
           \A t \in tasks : state'[t] = "Queued" /\ Turn(t) => Turn(t)'
    PROVE  QueueInv'
<1> USE DEF QueueInv
<1>1. tasks \subseteq Task /\ \A c \in Caller : ctask[c] # None => ctask[c] \in Task
  BY DEF IInv, TypeOK
<1>2. \A c \in Caller : (Excused(c)' <=> Excused(c)) /\ (Past(c)' <=> Past(c))
  BY DEF Excused, Past
<1>3. \A t \in Task : /\ state'[t] = "Queued" => state[t] = "Queued"
                      /\ state'[t] = "absent" => state[t] = "absent"
  OBVIOUS
<1>4. Covered'
  BY <1>1, <1>2, <1>3 DEF Covered
<1>5. PastQueued'
  BY <1>1, <1>2, <1>3 DEF PastQueued
<1>6. Added'
  BY <1>1, <1>3 DEF Added
<1> QED
  BY <1>4, <1>5, <1>6

\* The dispatcher hands a queued task on to a worker or puts it back.
LEMMA DispatcherQueue ==
    ASSUME IInv, QueueInv, Dispatcher
    PROVE  QueueInv'
<1> USE DEF DUnchanged, entryVars, workerVars, callerVars
<1>1. UNCHANGED <<tasks, state, cpc, cop, ctask>>
  BY DEF Dispatcher, DPop, DGet, DNoPermit, DPutBack, DStore, DWake, DAborted, DSpawn
<1>2. queue \in Seq(Task) /\ wpc \in [Worker -> WorkerStep]
      /\ wtask \in [Worker -> Task \cup {None}]
  BY DEF IInv, TypeOK
<1>3. ASSUME NEW t \in tasks, Turn(t) PROVE Turn(t)'
  <2> USE DEF Turn
  <2>1. CASE DPop
    <3>1. CASE queue = <<>>
      BY <1>3, <2>1, <3>1 DEF DPop, Elements
    <3>2. CASE queue # <<>>
      <4>1. t \in Elements(queue) => t = Head(queue) \/ t \in Elements(Tail(queue))
        <5> SUFFICES ASSUME NEW i \in DOMAIN queue, t = queue[i], i # 1
                     PROVE  t \in Elements(Tail(queue))
          BY <1>2, <3>2 DEF Elements
        <5>1. i - 1 \in DOMAIN Tail(queue) /\ Tail(queue)[i - 1] = queue[i]
          BY <1>2, <3>2
        <5> QED
          BY <5>1 DEF Elements
      <4> QED
        BY <1>3, <2>1, <3>2, <4>1 DEF DPop
    <3> QED
      BY <3>1, <3>2
  <2>2. CASE DGet
    BY <1>3, <2>2 DEF DGet, Elements
  <2>3. CASE DNoPermit
    BY <1>3, <2>3 DEF DNoPermit, Elements
  <2>4. CASE DPutBack
    <3>1. held \in Task
      BY <2>4 DEF DPutBack, IInv, TaskKnown
    <3>2. PICK q \in Seq(Task) : q = <<held>> \o queue
      <4>1. <<held>> \in Seq(Task)
        BY <3>1
      <4>2. <<held>> \o queue \in Seq(Task)
        BY <1>2, <4>1
      <4> QED
        BY <4>2
    <3>3. t \in Elements(queue) \/ t = held => t \in Elements(q)
      <4>1. q[1] = held /\ 1 \in DOMAIN q
        BY <1>2, <3>1, <3>2
      <4>2. \A i \in DOMAIN queue : i + 1 \in DOMAIN q /\ q[i + 1] = queue[i]
        BY <1>2, <3>1, <3>2
      <4> QED
        BY <4>1, <4>2 DEF Elements
    <3> QED
      BY <1>3, <2>4, <3>2, <3>3 DEF DPutBack
  <2>5. CASE DStore
    BY <1>3, <2>5 DEF DStore, Elements
  <2>6. CASE DWake
    BY <1>3, <2>6 DEF DWake, Elements
  <2>7. CASE DAborted
    BY <1>3, <2>7 DEF DAborted, Elements
  <2>8. ASSUME NEW w \in Worker, DSpawn(w) PROVE Turn(t)'
    BY <1>2, <1>3, <2>8 DEF DSpawn, Elements
  <2> QED
    BY <2>1, <2>2, <2>3, <2>4, <2>5, <2>6, <2>7, <2>8 DEF Dispatcher
<1> QED
  BY <1>1, <1>3, HandOn

\* A worker has its queued task until it writes another state.
LEMMA WorkerQueue ==
    ASSUME IInv, QueueInv, NEW w \in Worker, WorkerNext(w)
    PROVE  QueueInv'
<1> USE DEF WUnchanged, NoReturn, Step, Ended
<1>1. UNCHANGED <<tasks, queue, held, dpc, cpc, cop, ctask>>
  BY DEF WorkerNext, WorkerBody, EngineEnd, WLock, WBusy, WBusyFail, WStart,
         WToken, WFinish, WRelease, WNotify, WReturn, EngineIO, EngineOk,
         EngineCancelled, EngineFailed
<1>2. /\ wpc \in [Worker -> WorkerStep] /\ wtask \in [Worker -> Task \cup {None}]
      /\ state \in [Task -> TaskState \cup {"absent"}]
  BY DEF IInv, TypeOK
<1>3. /\ \A v \in Worker \ {w} : wpc'[v] = wpc[v] /\ wtask'[v] = wtask[v]
      /\ \/ /\ UNCHANGED state
            /\ wpc[w] \in {"lock", "busy", "start"} =>
                  wtask'[w] = wtask[w] /\ wpc'[w] \in {"lock", "busy", "start"}
         \/ \E s \in {"Downloading", "Completed", "Failed"} :
               state' = [state EXCEPT ![wtask[w]] = s]
  <2> USE <1>2
  <2>1. CASE WLock(w) \/ WBusy(w) \/ WToken(w) \/ WRelease(w)
    BY <2>1 DEF WLock, WBusy, WToken, WRelease
  <2>2. CASE WBusyFail(w) \/ WStart(w) \/ WFinish(w)
    BY <2>2 DEF WBusyFail, WStart, WFinish
  <2>3. CASE WNotify(w) \/ WReturn(w)
    BY <2>3 DEF WNotify, WReturn, Returned
  <2>4. CASE EngineIO(w) \/ EngineEnd(w)
    BY <2>4 DEF EngineIO, EngineEnd, EngineOk, EngineCancelled, EngineFailed
  <2> QED
    BY <2>1, <2>2, <2>3, <2>4 DEF WorkerNext, WorkerBody
<1>4. \A t \in Task : \/ state'[t] = state[t]
                      \/ state'[t] \in {"Downloading", "Completed", "Failed"}
  BY <1>2, <1>3
<1>5. ASSUME NEW t \in tasks, state'[t] = "Queued", Turn(t) PROVE Turn(t)'
  <2>1. t \in Task
    BY DEF IInv, TypeOK
  <2>2. CASE t \in Elements(queue) \/ (held = t /\ dpc \in {"get", "acquire", "putback"})
    BY <1>1, <2>2 DEF Turn, Elements
  <2>3. CASE \E v \in Worker : wtask[v] = t /\ wpc[v] \in {"lock", "busy", "start"}
    <3>1. PICK v \in Worker : wtask[v] = t /\ wpc[v] \in {"lock", "busy", "start"}
      BY <2>3
    <3>2. v = w => UNCHANGED state
      BY <1>2, <1>3, <1>5, <2>1, <3>1
    <3>3. wtask'[v] = t /\ wpc'[v] \in {"lock", "busy", "start"}
      BY <1>2, <1>3, <1>5, <2>1, <3>1
    <3> QED
      BY <3>3 DEF Turn
  <2> QED
    BY <1>5, <2>2, <2>3 DEF Turn
<1> QED
  BY <1>1, <1>4, <1>5, HandOn

\* A step of one caller leaves the others where they are.
OnlyMoves(c) ==
    /\ UNCHANGED <<held, dpc, wpc, wtask>>
    /\ \A d \in Caller \ {c} :
          cpc'[d] = cpc[d] /\ cop'[d] = cop[d] /\ ctask'[d] = ctask[d]

\* A step of a call that changes no state and leaves the queue alone.
LEMMA CalmKeeps ==
    ASSUME IInv, QueueInv, NEW c \in Caller, OnlyMoves(c),
           UNCHANGED <<state, queue>>, tasks' \subseteq tasks,
           Excused(c) => Excused(c)' /\ ctask'[c] = ctask[c],
           Past(c)' /\ ctask'[c] # None => state[ctask'[c]] # "Queued",
           ctask'[c] \in tasks \cup {ctask[c], None},
           cpc'[c] = "pause_read" => cop'[c] = "pause",
           cop'[c] = "shutdown" => ctask'[c] = None
    PROVE  QueueInv'
<1> USE DEF QueueInv, OnlyMoves
<1>1. \A d \in Caller \ {c} : (Excused(d)' <=> Excused(d)) /\ (Past(d)' <=> Past(d))
  BY DEF Excused, Past
<1>2. \A t : Turn(t) => Turn(t)'
  BY DEF Turn, Elements
<1>3. Covered'
  <2> SUFFICES ASSUME NEW t \in tasks', state'[t] = "Queued"
               PROVE  Turn(t)' \/ \E d \in Caller : ctask'[d] = t /\ Excused(d)'
    BY DEF Covered
  <2>1. Turn(t) \/ \E d \in Caller : ctask[d] = t /\ Excused(d)
    BY DEF Covered
  <2> QED
    BY <1>1, <1>2, <2>1
<1>4. PastQueued'
  <2> SUFFICES ASSUME NEW d \in Caller, ctask'[d] # None, Past(d)'
               PROVE  state'[ctask'[d]] # "Queued"
    BY DEF PastQueued
  <2> QED
    BY <1>1 DEF PastQueued
<1>5. Added'
  BY DEF Added
<1> QED
  BY <1>3, <1>4, <1>5

\* A step that writes a new state for the task of the call: the others'
\* calls are on other tasks.
LEMMA WriteKeeps ==
    ASSUME IInv, QueueInv, NEW c \in Caller, NEW t \in Task, OnlyMoves(c),
           \A d \in Caller \ {c} : ctask[d] # t,
           ctask'[c] = t, ctask[c] \in {t} \/ ~Excused(c),
           UNCHANGED queue, tasks' \subseteq tasks \cup {t},
           \A u \in Task \ {t} : state'[u] = state[u],
           state'[t] # "absent",
           state'[t] = "Queued" => Excused(c)',
           Past(c)' => state'[t] # "Queued",
           cpc'[c] # "pause_read", cop'[c] # "shutdown"
    PROVE  QueueInv'
<1> USE DEF QueueInv, OnlyMoves
<1>1. \A d \in Caller \ {c} : (Excused(d)' <=> Excused(d)) /\ (Past(d)' <=> Past(d))
  BY DEF Excused, Past
<1>2. \A u : Turn(u) => Turn(u)'
  BY DEF Turn, Elements
<1>3. tasks \subseteq Task /\ \A d \in Caller : ctask[d] # None => ctask[d] \in Task
  BY DEF IInv, TypeOK
<1>4. Covered'
  <2> SUFFICES ASSUME NEW u \in tasks', state'[u] = "Queued"
               PROVE  Turn(u)' \/ \E d \in Caller : ctask'[d] = u /\ Excused(d)'
    BY DEF Covered
  <2>1. CASE u = t
    BY <2>1
  <2>2. CASE u # t
    <3>1. u \in tasks /\ state[u] = "Queued"
      BY <1>3, <2>2
    <3>2. Turn(u) \/ \E d \in Caller \ {c} : ctask[d] = u /\ Excused(d)
      BY <2>2, <3>1 DEF Covered
    <3> QED
      BY <1>1, <1>2, <3>2
  <2> QED
    BY <2>1, <2>2
<1>5. PastQueued'
  <2> SUFFICES ASSUME NEW d \in Caller, ctask'[d] # None, Past(d)'
               PROVE  state'[ctask'[d]] # "Queued"
    BY DEF PastQueued
  <2>1. CASE d = c
    BY <2>1
  <2>2. CASE d # c
    <3>1. ctask'[d] = ctask[d] /\ ctask[d] \in Task \ {t} /\ Past(d)
      BY <1>1, <1>3, <2>2
    <3> QED
      BY <3>1 DEF PastQueued
  <2> QED
    BY <2>1, <2>2
<1>6. Added'
  <2>1. \A u \in tasks' : state'[u] # "absent"
    BY <1>3 DEF Added
  <2>2. ASSUME NEW d \in Caller
        PROVE  /\ ctask'[d] # None => state'[ctask'[d]] # "absent"
               /\ cpc'[d] = "pause_read" => cop'[d] = "pause"
               /\ cop'[d] = "shutdown" => ctask'[d] = None
    <3>1. CASE d = c
      BY <3>1
    <3>2. CASE d # c
      <4>1. /\ ctask'[d] = ctask[d] /\ cpc'[d] = cpc[d] /\ cop'[d] = cop[d]
            /\ ctask[d] # None => ctask[d] \in Task \ {t}
        BY <1>3, <3>2
      <4> QED
        BY <4>1 DEF Added
    <3> QED
      BY <3>1, <3>2
  <2> QED
    BY <2>1, <2>2 DEF Added
<1> QED
  BY <1>4, <1>5, <1>6

\* A call keeps it, for no other call is on its task.
LEMMA CallerQueue ==
    ASSUME IInv, QueueInv, OneCallPerTask,
           NEW c \in Caller, CallerBegin(c) \/ CallerStepNext(c)
    PROVE  QueueInv'
<1> USE DEF CUnchanged, CallKept, entryVars, dispVars
<1>1. /\ cpc \in [Caller -> CallerStep] /\ cop \in [Caller -> AllOps \cup {"add", "none"}]
      /\ ctask \in [Caller -> Task \cup {None}]
      /\ state \in [Task -> TaskState \cup {"absent"}]
      /\ tasks \subseteq Task /\ queue \in Seq(Task)
      /\ None \notin Task
  BY WorkerAssumption DEF IInv, TypeOK
<1>2. OnlyMoves(c)
  BY <1>1 DEF OnlyMoves, CallerBegin, CallerStepNext, Begin, CStep, Shutdown, Add, Call,
     PauseRead, ResumeCheck, RetryCheck, Requeue, Renew, Enqueue, Notify, Dequeue, Stop,
     Write, Take, Await, Unlink, Unmap, StoppedAll, TookAll, Abort, StopOne, TakeOne
\* What the call knows of itself.
<1>3. /\ cpc[c] \notin {"idle", "stop_all", "take_all", "await", "abort"} =>
             ctask[c] \in Task /\ cop[c] # "shutdown"
      /\ cpc[c] = "idle" => ~Excused(c)
      /\ cpc[c] \in {"stop_all", "take_all", "abort"} => ctask[c] = None
      /\ cpc[c] = "await" => ctask[c] \in Task \/ ctask[c] = None
      /\ cpc[c] = "pause_read" => cop[c] = "pause"
      /\ cop[c] = "shutdown" => ctask[c] = None
  BY <1>1 DEF IInv, TaskKnown, Excused, QueueInv, Added
<1>4. ctask[c] \in Task => \A d \in Caller \ {c} : ctask[d] # ctask[c]
  BY <1>1 DEF OneCallPerTask
<1>5. ctask[c] # None /\ Past(c) => state[ctask[c]] # "Queued"
  BY DEF QueueInv, PastQueued
<1>6. CASE PauseRead(c)
  <2>1. /\ cpc[c] = "pause_read" /\ ctask[c] \in Task /\ cop[c] = "pause"
        /\ UNCHANGED <<state, queue, tasks>>
    BY <1>3, <1>6 DEF PauseRead, CStep
  <2>2. \/ cpc'[c] = "idle" /\ ctask'[c] = None /\ cop'[c] = "none"
        \/ /\ cpc'[c] = "dequeue" \/ (cpc'[c] = "stop" /\ state[ctask[c]] # "Queued")
           /\ ctask'[c] = ctask[c] /\ cop'[c] = "pause"
    <3>1. CASE state[ctask[c]] \in {"Completed", "Cancelled"}
      BY <1>1, <1>6, <2>1, <3>1 DEF PauseRead, CStep
    <3>2. CASE state[ctask[c]] = "Queued"
      BY <1>1, <1>6, <2>1, <3>2 DEF PauseRead, CStep
    <3>3. CASE state[ctask[c]] \notin {"Queued", "Completed", "Cancelled"}
      BY <1>1, <1>6, <2>1, <3>3 DEF PauseRead, CStep
    <3> QED
      BY <3>1, <3>2, <3>3
  <2>3. ~Excused(c)
    BY <2>1 DEF Excused
  <2>4. Past(c)' => cpc'[c] = "stop"
    BY <2>2 DEF Past
  <2> QED
    BY <1>2, <2>1, <2>2, <2>3, <2>4, CalmKeeps
<1>7. CASE ResumeCheck(c) \/ RetryCheck(c)
  <2>1. PICK from \in {"resume_check", "retry_check"},
             allowed \in {{"Paused"}, {"Failed", "Cancelled"}} :
                Requeue(c, from, allowed)
    BY <1>7 DEF ResumeCheck, RetryCheck
  <2>2. /\ cpc[c] = from /\ ctask[c] \in Task /\ UNCHANGED <<queue, tasks>>
        /\ cop[c] # "shutdown"
    BY <1>3, <2>1 DEF Requeue, CStep
  <2>3. ~Excused(c)
    BY <2>2 DEF Excused
  <2>4. CASE state[ctask[c]] \in allowed
    <3>1. /\ cpc'[c] = "renew" /\ ctask'[c] = ctask[c] /\ cop'[c] = cop[c]
          /\ state' = [state EXCEPT ![ctask[c]] = "Queued"]
      BY <1>1, <2>1, <2>4 DEF Requeue, CStep
    <3>2. Excused(c)' /\ ~Past(c)'
      BY <3>1 DEF Excused, Past
    <3>3. PICK t \in Task : t = ctask[c]
      BY <2>2
    <3>4. state'[t] = "Queued" /\ \A u \in Task \ {t} : state'[u] = state[u]
      BY <1>1, <3>1, <3>3
    <3> QED
      BY <1>2, <1>4, <2>2, <3>1, <3>2, <3>3, <3>4, WriteKeeps
  <2>5. CASE state[ctask[c]] \notin allowed
    <3>1. cpc'[c] = "idle" /\ ctask'[c] = None /\ cop'[c] = "none" /\ UNCHANGED state
      BY <1>1, <2>1, <2>5 DEF Requeue, CStep
    <3> QED
      BY <1>2, <2>2, <2>3, <3>1, CalmKeeps DEF Past
  <2> QED
    BY <2>4, <2>5
<1>8. CASE Renew(c)
  <2>1. /\ cpc'[c] = "enqueue" /\ ctask'[c] = ctask[c] /\ cop'[c] = cop[c]
        /\ cpc[c] = "renew" /\ UNCHANGED <<state, queue, tasks>>
    BY <1>1, <1>8 DEF Renew, CStep
  <2>2. Excused(c)' /\ ~Past(c)'
    BY <2>1 DEF Excused, Past
  <2> QED
    BY <1>2, <1>3, <2>1, <2>2, CalmKeeps
<1>9. CASE Enqueue(c)
  <2>1. /\ cpc'[c] = "notify" /\ ctask'[c] = ctask[c] /\ cop'[c] = cop[c]
        /\ cpc[c] = "enqueue" /\ UNCHANGED <<state, tasks>>
        /\ queue' = Append(queue, ctask[c]) /\ ctask[c] \in Task
    BY <1>1, <1>3, <1>9 DEF Enqueue, CStep
  <2>2. \A t : t \in Elements(queue) \/ t = ctask[c] => t \in Elements(queue')
    <3>1. /\ Len(queue) + 1 \in DOMAIN queue' /\ queue'[Len(queue) + 1] = ctask[c]
          /\ \A i \in DOMAIN queue : i \in DOMAIN queue' /\ queue'[i] = queue[i]
      BY <1>1, <2>1
    <3> QED
      BY <3>1 DEF Elements
  <2>3. /\ \A t : Turn(t) => Turn(t)'
        /\ Turn(ctask[c])'
    <3>1. ASSUME NEW t, Turn(t) PROVE Turn(t)'
      <4>1. CASE t \in Elements(queue)
        BY <2>2, <4>1 DEF Turn, Elements
      <4>2. CASE t \notin Elements(queue)
        BY <1>2, <3>1, <4>2 DEF Turn, OnlyMoves
      <4> QED
        BY <4>1, <4>2
    <3>2. Turn(ctask[c])'
      BY <2>1, <2>2 DEF Turn, Elements
    <3> QED
      BY <3>1, <3>2
  <2>4. \A d \in Caller \ {c} : (Excused(d)' <=> Excused(d)) /\ (Past(d)' <=> Past(d))
    BY <1>2 DEF OnlyMoves, Excused, Past
  <2>5. ~Past(c)'
    BY <2>1 DEF Past
  <2>6. Covered'
    BY <1>2, <2>1, <2>3, <2>4 DEF QueueInv, Covered, OnlyMoves
  <2>7. PastQueued'
    BY <1>2, <2>1, <2>4, <2>5 DEF QueueInv, PastQueued, OnlyMoves
  <2>8. Added'
    BY <1>2, <2>1 DEF QueueInv, Added, OnlyMoves
  <2> QED
    BY <2>6, <2>7, <2>8 DEF QueueInv
<1>10. CASE Notify(c) \/ Abort(c)
  <2>1. /\ cpc'[c] = "idle" /\ ctask'[c] = None /\ cop'[c] = "none"
        /\ cpc[c] \in {"notify", "abort"} /\ UNCHANGED <<state, queue, tasks>>
    BY <1>1, <1>10 DEF Notify, Abort, CStep
  <2> QED
    BY <1>2, <2>1, CalmKeeps DEF Past, Excused
<1>11. CASE Dequeue(c)
  <2>1. /\ ctask'[c] = ctask[c] /\ cop'[c] = cop[c] /\ cpc[c] = "dequeue"
        /\ cpc'[c] = IF cop[c] = "pause" THEN "write" ELSE "stop"
        /\ UNCHANGED <<state, tasks>>
        /\ queue' = Retain(queue, ctask[c]) /\ ctask[c] \in Task
    BY <1>1, <1>3, <1>11 DEF Dequeue, CStep
  <2>2. \A t : Turn(t) /\ t # ctask[c] => Turn(t)'
    BY <1>1, <1>2, <2>1, RetainKeeps DEF Turn, OnlyMoves
  <2>3. \A d \in Caller \ {c} : (Excused(d)' <=> Excused(d)) /\ (Past(d)' <=> Past(d))
    BY <1>2 DEF OnlyMoves, Excused, Past
  \* The task of the call is to be Paused, or is Cancelled already.
  <2>4. Excused(c)' \/ state[ctask[c]] # "Queued"
    BY <1>1, <1>5, <2>1 DEF Excused, Past
  <2>5. ~Excused(c) /\ (Past(c)' => Past(c))
    BY <2>1 DEF Excused, Past
  <2>6. Covered'
    BY <1>2, <2>1, <2>2, <2>3, <2>4, <2>5 DEF QueueInv, Covered, OnlyMoves
  <2>7. PastQueued'
    BY <1>2, <1>5, <2>1, <2>3, <2>5 DEF QueueInv, PastQueued, OnlyMoves
  <2>8. Added'
    BY <1>2, <2>1 DEF QueueInv, Added, OnlyMoves
  <2> QED
    BY <2>6, <2>7, <2>8 DEF QueueInv
<1>12. CASE Write(c)
  <2>1. /\ ctask'[c] = ctask[c] /\ cop'[c] = cop[c] /\ cpc[c] = "write"
        /\ cpc'[c] \in {"take", "dequeue"} /\ ctask[c] \in Task /\ cop[c] # "shutdown"
        /\ UNCHANGED <<queue, tasks>>
    BY <1>1, <1>3, <1>12 DEF Write, CStep
  <2>2. PICK t \in Task : t = ctask[c]
    BY <2>1
  <2>3. /\ state'[t] \in {"Paused", "Cancelled"}
        /\ \A u \in Task \ {t} : state'[u] = state[u]
    BY <1>1, <1>12, <2>2 DEF Write
  <2> QED
    BY <1>2, <1>4, <2>1, <2>2, <2>3, WriteKeeps
<1>13. CASE Stop(c) \/ Take(c)
  <2>1. /\ ctask'[c] = ctask[c] /\ cop'[c] = cop[c] /\ cpc[c] \in {"stop", "take"}
        /\ cpc'[c] \in {"write", "take", "await"} /\ ctask[c] \in Task
        /\ UNCHANGED <<state, queue, tasks>> /\ cop[c] # "shutdown"
    BY <1>1, <1>3, <1>13 DEF Stop, Take, CStep
  <2>2. ~Excused(c) /\ Past(c)
    BY <2>1 DEF Excused, Past
  <2> QED
    BY <1>1, <1>2, <1>5, <2>1, <2>2, CalmKeeps
<1>14. CASE Await(c) \/ Unlink(c) \/ Unmap(c)
  <2>1. /\ cpc[c] \in {"await", "unlink", "unmap"}
        /\ \/ cpc'[c] = "idle" /\ ctask'[c] = None /\ cop'[c] = "none"
           \/ /\ cpc'[c] \in {"abort", "unlink", "unmap"}
              /\ ctask'[c] = ctask[c] /\ cop'[c] = cop[c]
        /\ UNCHANGED <<state, queue>> /\ tasks' \subseteq tasks
    <3>1. CASE Await(c)
      <4>1. CASE cop[c] = "pause"
        BY <1>1, <3>1, <4>1 DEF Await, CStep
      <4>2. CASE cop[c] = "shutdown"
        BY <1>1, <3>1, <4>2 DEF Await, CStep
      <4>3. CASE cop[c] \notin {"pause", "shutdown"}
        BY <1>1, <3>1, <4>3 DEF Await, CStep
      <4> QED
        BY <4>1, <4>2, <4>3
    <3>2. CASE Unlink(c) \/ Unmap(c)
      BY <1>1, <3>2 DEF Unlink, Unmap, CStep
    <3> QED
      BY <1>14, <3>1, <3>2
  <2>2. ~Excused(c) /\ Past(c)
    BY <2>1 DEF Excused, Past
  <2> QED
    BY <1>2, <1>3, <1>5, <2>1, <2>2, CalmKeeps
<1>15. CASE StoppedAll(c) \/ TookAll(c) \/ \E t \in Task : StopOne(c, t) \/ TakeOne(c, t)
  <2>1. /\ cpc[c] \in {"stop_all", "take_all"} /\ cpc'[c] \in {"stop_all", "take_all", "await"}
        /\ ctask'[c] = ctask[c] /\ cop'[c] = cop[c]
        /\ UNCHANGED <<state, queue, tasks>>
    BY <1>1, <1>15 DEF StoppedAll, TookAll, StopOne, TakeOne, CStep
  <2>2. ~Excused(c)
    BY <2>1 DEF Excused
  <2> QED
    BY <1>2, <1>3, <2>1, <2>2, CalmKeeps
<1>16. CASE Shutdown(c) \/ \E t \in Task, op \in Ops : Call(c, op, t)
  <2>1. /\ cpc[c] = "idle" /\ UNCHANGED <<state, queue, tasks>>
        /\ \/ cpc'[c] = "stop_all" /\ ctask'[c] = None
           \/ /\ cpc'[c] \in {"pause_read", "resume_check", "retry_check", "write"}
              /\ ctask'[c] \in tasks /\ cop'[c] # "shutdown"
              /\ cpc'[c] = "pause_read" => cop'[c] = "pause"
    <3>1. CASE Shutdown(c)
      BY <1>1, <3>1 DEF Shutdown, Begin
    <3>2. ASSUME NEW t \in Task, NEW op \in Ops, Call(c, op, t)
          PROVE  /\ cpc[c] = "idle" /\ UNCHANGED <<state, queue, tasks>>
                 /\ cpc'[c] \in {"pause_read", "resume_check", "retry_check", "write"}
                 /\ ctask'[c] \in tasks /\ cop'[c] # "shutdown"
                 /\ cpc'[c] = "pause_read" => cop'[c] = "pause"
      <4>1. /\ cpc[c] = "idle" /\ UNCHANGED <<state, queue, tasks>>
            /\ cpc'[c] = FirstStep(op) /\ ctask'[c] = t /\ t \in tasks
            /\ cop'[c] = op /\ op # "shutdown"
        BY <1>1, <3>2 DEF Call, Begin
      <4>2. /\ FirstStep(op) \in {"pause_read", "resume_check", "retry_check", "write"}
            /\ FirstStep(op) = "pause_read" => op = "pause"
        BY DEF FirstStep
      <4> QED
        BY <4>1, <4>2
    <3> QED
      BY <1>16, <3>1, <3>2
  <2>2. ~Excused(c) /\ ~Past(c)'
    BY <2>1 DEF Excused, Past
  <2> QED
    BY <1>2, <2>1, <2>2, CalmKeeps
<1>17. ASSUME NEW t \in Task, Add(c, t) PROVE QueueInv'
  <2>1. /\ state[t] = "absent" /\ cpc[c] = "idle" /\ cpc'[c] = "enqueue"
        /\ ctask'[c] = t /\ cop'[c] = "add" /\ tasks' = tasks \cup {t}
        /\ UNCHANGED queue
        /\ state' = [state EXCEPT ![t] = "Queued"]
    BY <1>1, <1>17 DEF Add, Begin
  <2>2. \A d \in Caller \ {c} : ctask[d] # t
    BY <1>1, <2>1 DEF QueueInv, Added
  <2>3. ~Excused(c) /\ Excused(c)' /\ ~Past(c)'
    BY <2>1 DEF Excused, Past
  <2>4. state'[t] = "Queued" /\ \A u \in Task \ {t} : state'[u] = state[u]
    BY <1>1, <2>1
  <2> QED
    BY <1>2, <2>1, <2>2, <2>3, <2>4, WriteKeeps
<1> QED
  BY <1>6, <1>7, <1>8, <1>9, <1>10, <1>11, <1>12, <1>13, <1>14, <1>15, <1>16, <1>17
     DEF CallerBegin, CallerStepNext

LEMMA InitQueue == Init => QueueInv
BY WorkerAssumption DEF Init, QueueInv, Covered, PastQueued, Added

\* Every step keeps it.
LEMMA NextQueue == IInv /\ QueueInv /\ OneCallPerTask /\ [Next]_vars => QueueInv'
<1> SUFFICES ASSUME IInv, QueueInv, OneCallPerTask, [Next]_vars PROVE QueueInv'
  OBVIOUS
<1>1. CASE UNCHANGED vars
  BY <1>1 DEF vars, entryVars, dispVars, workerVars, callerVars, QueueInv, Covered,
              PastQueued, Added, Turn, Excused, Past, Elements
<1>2. CASE Next
  BY <1>2, DispatcherQueue, WorkerQueue, CallerQueue DEF Next
<1> QED
  BY <1>1, <1>2

\* As long as no two calls work on one task at a time, no call, worker or
\* turn of the dispatcher leaves a task Queued that nobody will start (add,
\* resume, retry, pause, cancel, dispatch_loop, worker).
THEOREM NoneIsForgotten == Spec /\ []OneCallPerTask => []QueuedNotForgotten
<1>1. QueueInv => QueuedNotForgotten
  <2> SUFFICES ASSUME QueueInv, NEW t \in tasks, state[t] = "Queued", ~Calling(t)
               PROVE  \/ t \in Elements(queue)
                      \/ held = t
                      \/ \E w \in Worker : wtask[w] = t /\ wpc[w] \in {"lock", "busy", "start"}
    BY DEF QueuedNotForgotten
  <2>1. Turn(t)
    BY DEF QueueInv, Covered, Calling
  <2> QED
    BY <2>1 DEF Turn
<1> QED
  BY <1>1, Invariance, InitQueue, NextQueue, PTL DEF Spec

=============================================================================
