-------------------------- MODULE RateLimiterProofs --------------------------
(***************************************************************************)
(* Proofs about RateLimiter: its types, the bound on what is taken in any  *)
(* interval, and that it implements Bucket.  Everything rests on two facts *)
(* about what the bucket holds at a moment (Refilled): a tick fills it by  *)
(* Rate up to the burst, and a drain leaves what was not taken.            *)
(***************************************************************************)
EXTENDS RateLimiter, TLAPS

\* The capacity is a number of tokens, and comes in within a second.
LEMMA BurstType == Burst \in Nat \ {0} /\ Rate * Second = Burst
BY RateAssumption DEF Burst

\* The products with Rate that occur.
LEMMA Products ==
    ASSUME NEW n \in Nat
    PROVE  Rate * n \in Nat /\ Rate * (n + 1) = Rate * n + Rate /\ Rate * 0 = 0
BY RateAssumption

\* What the bucket holds is a number of tokens up to the burst.
LEMMA RefilledType ==
    ASSUME TypeOK
    PROVE  Refilled \in 0..Burst
<1>1. since \in Nat /\ tokens \in 0..Burst
  BY RateAssumption DEF TypeOK
<1>2. Rate * since \in Nat
  BY <1>1, Products
<1> QED
  BY <1>1, <1>2, BurstType DEF Refilled, Least

\* A sleep is shorter than the longest one.
LEMMA SleepType ==
    ASSUME NEW n \in Nat
    PROVE  Sleep(n) \in 0..MaxSleep
<1>1. (n + (Rate - 1)) \div Rate \in Nat
  <2>1. n + (Rate - 1) \in Nat /\ Rate \in Nat \ {0}
    BY RateAssumption
  <2> QED BY <2>1
<1> QED
  BY <1>1, SleepAssumption DEF Sleep, Least

\* Nothing but time changes what the bucket holds without a reader taking it.
LEMMA TickFills ==
    ASSUME TypeOK, Tick
    PROVE  Refilled' = IF Refilled + Rate <= Burst THEN Refilled + Rate ELSE Burst
<1>1. since \in 0..Second /\ tokens \in 0..Burst /\ tokens' = tokens
  BY DEF TypeOK, Tick
<1>2. Rate \in Nat \ {0} /\ Second \in Nat \ {0} /\ Burst \in Nat
  BY RateAssumption, BurstType
<1>3. CASE since = Second
  <2>1. since' = Second
    BY <1>2, <1>3 DEF Tick, Least
  <2>2. Refilled = Burst
    BY <1>1, <1>2, <1>3, BurstType DEF Refilled, Least
  <2>3. Refilled' = Burst
    BY <1>1, <1>2, <2>1, BurstType DEF Refilled, Least
  <2> QED
    BY <1>2, <2>2, <2>3
<1>4. CASE since < Second
  <2>1. since' = since + 1
    BY <1>1, <1>2, <1>4 DEF Tick, Least
  <2>2. PICK x \in Nat : x = Rate * since
    BY <1>1, Products
  <2>3. Rate * since' = x + Rate
    BY <1>1, <2>1, <2>2, Products
  <2>4. Refilled = Least(tokens + x, Burst)
    BY <2>2 DEF Refilled
  <2>5. Refilled' = Least(tokens + (x + Rate), Burst)
    BY <1>1, <2>3 DEF Refilled, Burst
  <2> QED
    BY <1>1, <1>2, <2>4, <2>5 DEF Least
<1> QED
  BY <1>1, <1>2, <1>3, <1>4

\* What a reader takes when it looks: what it needs, or what there is.
Share(r) == IF need[r] <= Refilled THEN need[r] ELSE Refilled

\* A reader that looks takes its share and leaves the rest.
LEMMA StepTakes ==
    ASSUME TypeOK, NEW r \in Reader, Step(r)
    PROVE  /\ Share(r) \in 0..Refilled
           /\ Refilled' = Refilled - Share(r)
           /\ need' = [need EXCEPT ![r] = need[r] - Share(r)]
           /\ excess' = excess + Share(r)
<1>1. need[r] \in Nat /\ Refilled \in 0..Burst /\ Burst \in Nat
  BY RefilledType, BurstType DEF TypeOK
<1>2. since' = 0 /\ Burst' = Burst
  BY DEF Step, Drain, Grant, Burst
<1>3. Refilled' = Least(tokens', Burst)
  <2>1. Rate * 0 = 0
    BY Products
  <2>2. tokens' \in Int
    BY <1>1 DEF Step, Drain, Grant
  <2> QED
    BY <1>2, <2>1, <2>2 DEF Refilled
<1>4. Share(r) \in 0..Refilled
  BY <1>1 DEF Share
<1>5. CASE Drain(r)
  <2>1. Share(r) = Refilled
    BY <1>1, <1>5 DEF Drain, Share
  <2>2. Refilled' = 0
    BY <1>1, <1>3, <1>5 DEF Drain, Least
  <2> QED
    BY <1>1, <1>4, <1>5, <2>1, <2>2 DEF Drain
<1>6. CASE Grant(r)
  <2>1. Share(r) = need[r] /\ need[r] - Share(r) = 0
    BY <1>1, <1>6 DEF Grant, Share
  <2>2. Refilled' = Refilled - need[r]
    BY <1>1, <1>3, <1>6 DEF Grant, Least
  <2>3. need' = [need EXCEPT ![r] = 0] /\ excess' = excess + need[r]
    BY <1>6 DEF Grant
  <2> QED
    BY <1>4, <2>1, <2>2, <2>3
<1> QED
  BY <1>5, <1>6 DEF Step

\* Tokens, sleeps and debts stay numbers in their ranges.
LEMMA TypeStep == TypeOK /\ [Next]_vars => TypeOK'
<1> SUFFICES ASSUME TypeOK, [Next]_vars PROVE TypeOK'
  OBVIOUS
<1>0. Burst \in Nat /\ Burst' = Burst /\ Refilled \in 0..Burst
  BY BurstType, RefilledType DEF Burst
<1>1. CASE Tick
  <2>1. since' \in 0..Second /\ excess' \in Nat
    BY <1>1, RateAssumption DEF Tick, TypeOK, Least
  <2>2. asleep' \in [Reader -> 0..MaxSleep]
    BY <1>1, SleepAssumption DEF Tick, TypeOK
  <2> QED
    BY <1>0, <1>1, <2>1, <2>2 DEF Tick, TypeOK
<1>2. ASSUME NEW r \in Reader, NEW n \in Chunk, Receive(r, n) PROVE TypeOK'
  BY <1>0, <1>2, ChunkAssumption DEF Receive, TypeOK
<1>3. ASSUME NEW r \in Reader, Drain(r) PROVE TypeOK'
  <2>1. need[r] - Refilled \in Nat /\ excess + Refilled \in Nat
    BY <1>0, <1>3 DEF Drain, TypeOK
  <2>2. Sleep(need[r] - Refilled) \in 0..MaxSleep
    BY <2>1, SleepType
  <2>3. 0 \in 0..Burst /\ 0 \in 0..Second
    BY <1>0, RateAssumption
  <2> QED
    BY <1>0, <1>3, <2>1, <2>2, <2>3 DEF Drain, TypeOK
<1>4. ASSUME NEW r \in Reader, Grant(r) PROVE TypeOK'
  <2>1. need[r] \in Nat
    BY DEF TypeOK
  <2>2. Refilled - need[r] \in 0..Burst /\ excess + need[r] \in Nat
    BY <1>0, <1>4, <2>1 DEF Grant, TypeOK
  <2>3. 0 \in 0..Second
    BY RateAssumption
  <2> QED
    BY <1>0, <1>4, <2>2, <2>3 DEF Grant, TypeOK
<1>5. ASSUME NEW r \in Reader, Abort(r) PROVE TypeOK'
  <2>1. 0 \in 0..MaxSleep
    BY SleepAssumption
  <2> QED
    BY <1>0, <1>5, <2>1 DEF Abort, TypeOK
<1>6. CASE UNCHANGED vars
  BY <1>0, <1>6 DEF vars, TypeOK
<1> QED
  BY <1>1, <1>2, <1>3, <1>4, <1>5, <1>6 DEF Next, Step

LEMMA TypeInit == Init => TypeOK
BY BurstType, RateAssumption, SleepAssumption, ChunkAssumption DEF Init, TypeOK

\* rate_limit.rs: tokens never go negative nor above one second's worth, and
\* no sleep is longer than its cap.
THEOREM TypesHold == Spec => []TypeOK
BY TypeInit, TypeStep, PTL DEF Spec

-----------------------------------------------------------------------------

\* What was taken in excess and what could be taken now make one burst at
\* most.  RateIsBounded alone is not inductive: a full bucket next to a full
\* excess would let the next reader take two bursts.
Balance == TypeOK /\ excess + Refilled <= Burst

LEMMA BalanceInit == Init => Balance
<1> SUFFICES ASSUME Init PROVE Balance
  OBVIOUS
<1>1. TypeOK
  BY TypeInit
<1> QED
  BY <1>1, RefilledType, BurstType DEF Init, Balance

LEMMA BalanceStep == Balance /\ [Next]_vars => Balance'
<1> SUFFICES ASSUME Balance, [Next]_vars PROVE Balance'
  OBVIOUS
<1>0. /\ TypeOK /\ TypeOK'
      /\ Burst \in Nat /\ Burst' = Burst /\ Refilled \in 0..Burst
      /\ excess \in Nat /\ excess + Refilled <= Burst /\ Rate \in Nat \ {0}
  BY TypeStep, BurstType, RefilledType, RateAssumption DEF Balance, Burst, TypeOK
<1>1. CASE Tick
  <2>1. Refilled' = IF Refilled + Rate <= Burst THEN Refilled + Rate ELSE Burst
    BY <1>0, <1>1, TickFills
  <2>2. excess' = IF excess > Rate THEN excess - Rate ELSE 0
    BY <1>1 DEF Tick
  <2>3. excess' + Refilled' <= Burst
    BY <1>0, <2>1, <2>2
  <2> QED
    BY <1>0, <2>3 DEF Balance
<1>2. ASSUME NEW r \in Reader, Step(r) PROVE Balance'
  <2>1. /\ Share(r) \in 0..Refilled
        /\ Refilled' = Refilled - Share(r) /\ excess' = excess + Share(r)
    BY <1>0, <1>2, StepTakes
  <2>3. excess' + Refilled' <= Burst
    BY <1>0, <2>1
  <2> QED
    BY <1>0, <2>3 DEF Balance
<1>3. CASE UNCHANGED <<tokens, since, excess>>
  BY <1>0, <1>3 DEF Balance, Refilled
<1> QED
  BY <1>1, <1>2, <1>3 DEF Next, Receive, Abort, vars

\* However many readers draw from the bucket, whenever they come, sleep, wake
\* and are aborted: in no interval do they take more than Rate tokens per
\* tick and one burst (RateLimiter::acquire).
THEOREM RateHolds == Spec => []RateIsBounded
<1>1. Balance => RateIsBounded
  BY RefilledType, BurstType DEF Balance, RateIsBounded, TypeOK
<1> QED
  BY <1>1, BalanceInit, BalanceStep, PTL DEF Spec

-----------------------------------------------------------------------------

\* Who reads owes nothing: the debt a reader takes on is a new one.
Settled == \A r \in Reader : pc[r] = "reading" => need[r] = 0

\* The bucket is full at first.
LEMMA MeterInit == Init => Meter!Init /\ Settled
<1> SUFFICES ASSUME Init PROVE Meter!Init /\ Settled
  OBVIOUS
<1>1. tokens = Burst /\ since = 0 /\ Rate * since = 0 /\ Burst \in Nat
  BY Products, BurstType DEF Init
<1>2. Refilled = Burst
  BY <1>1 DEF Refilled, Least
<1> QED
  BY <1>2 DEF Init, Settled, Meter!Init, Meter!Burst, Burst

\* Every way back to reading clears the debt.
LEMMA SettledStep == TypeOK /\ Settled /\ [Next]_vars => Settled'
<1> SUFFICES ASSUME TypeOK, Settled, [Next]_vars PROVE Settled'
  OBVIOUS
<1>1. CASE UNCHANGED <<pc, need>>
  BY <1>1 DEF Settled
<1>2. ASSUME NEW r \in Reader, NEW n \in Chunk, Receive(r, n) PROVE Settled'
  BY <1>2 DEF Receive, Settled, TypeOK
<1>3. ASSUME NEW r \in Reader, Drain(r) PROVE Settled'
  BY <1>3 DEF Drain, Settled, TypeOK
<1>4. ASSUME NEW r \in Reader, Grant(r) \/ Abort(r) PROVE Settled'
  BY <1>4 DEF Grant, Abort, Settled, TypeOK
<1> QED
  BY <1>1, <1>2, <1>3, <1>4 DEF Next, Step, Tick, vars

\* A tick fills the bucket, a chunk is a debt, a look pays, an abort leaves.
LEMMA MeterStep ==
    TypeOK /\ Settled /\ [Next]_vars => [Meter!Next]_Meter!vars
<1> SUFFICES ASSUME TypeOK, Settled, [Next]_vars PROVE [Meter!Next]_Meter!vars
  OBVIOUS
<1>1. CASE Tick
  <2>1. Meter!Fill
    BY <1>1, TickFills DEF Tick, Meter!Fill, Meter!Burst, Burst
  <2> QED
    BY <2>1 DEF Meter!Next
<1>2. ASSUME NEW r \in Reader, NEW n \in Chunk, Receive(r, n)
      PROVE  [Meter!Next]_Meter!vars
  <2>1. Refilled' = Refilled
    BY <1>2 DEF Receive, Refilled, Burst
  <2>2. Meter!Owe(r, n)
    BY <1>2, <2>1 DEF Receive, Settled, Meter!Owe
  <2> QED
    BY <2>2 DEF Meter!Next
<1>3. ASSUME NEW r \in Reader, Step(r) PROVE [Meter!Next]_Meter!vars
  <2>1. Meter!Pay(r)
    BY <1>3, StepTakes DEF Share, Meter!Pay
  <2> QED
    BY <2>1 DEF Meter!Next
<1>4. ASSUME NEW r \in Reader, Abort(r) PROVE [Meter!Next]_Meter!vars
  <2>1. Meter!Leave(r)
    BY <1>4 DEF Abort, Meter!Leave, Refilled, Burst
  <2> QED
    BY <2>1 DEF Meter!Next
<1>5. CASE UNCHANGED vars
  BY <1>5 DEF vars, Meter!vars, Refilled, Burst
<1> QED
  BY <1>1, <1>2, <1>3, <1>4, <1>5 DEF Next

\* However lazily the bucket is refilled and however the readers interleave,
\* it is a bucket that the clock fills, from which each pays what it owes
\* (RateLimiter::acquire implements Bucket).
THEOREM MeterHolds == Spec => MetersOut
<1>1. Init => Settled /\ Meter!Init
  BY MeterInit
<1> QED
  BY <1>1, TypeInit, TypeStep, SettledStep, MeterStep, PTL
  DEF Spec, MetersOut, Meter!Spec
=============================================================================
