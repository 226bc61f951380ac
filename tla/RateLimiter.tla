----------------------------- MODULE RateLimiter -----------------------------
(***************************************************************************)
(* The global token bucket (rate_limit.rs) that the segments and streams   *)
(* of all downloads draw from: each acquires the bytes of a chunk it has   *)
(* received before it goes on reading.                                     *)
(*                                                                         *)
(* Time is counted in ticks, tokens in whole units of which Rate come in   *)
(* per tick; the bucket holds what comes in in a second.  The instant of   *)
(* the last refill is kept as an age, which matters up to one second.  The *)
(* lock section of the loop is one action, the sleep the time until the    *)
(* next one is enabled.                                                    *)
(***************************************************************************)
EXTENDS Integers

CONSTANTS
    Reader,    \* the segments and streams that draw from the bucket
    Chunk,     \* sizes of the chunks they receive, in tokens
    Rate,      \* tokens per tick
    Second,    \* ticks per second
    MaxSleep,  \* the longest sleep (100 ms) in ticks; the shortest is one
    MaxChunks  \* bound: chunks a reader receives

ASSUME RateAssumption == Rate \in Nat \ {0} /\ Second \in Nat \ {0}
ASSUME SleepAssumption == MaxSleep \in Nat \ {0}
ASSUME ChunkAssumption == Chunk \subseteq Nat /\ MaxChunks \in Nat

VARIABLES
    tokens,  \* State.tokens
    since,   \* age of State.last
    need,    \* need[r]: tokens reader r still has to get in its acquire
    asleep,  \* asleep[r]: ticks until its sleep is over
    pc,      \* pc[r]: "reading", or "acquiring" from the call to its return
    chunks,  \* chunks[r]: how many it has received, for the bound
    excess   \* observer: the tokens taken beyond Rate per tick in the worst
             \* interval that ends now

vars == <<tokens, since, need, asleep, pc, chunks, excess>>

\* The capacity: the tokens of one second.
Burst == Rate * Second

TypeOK ==
    /\ tokens \in 0..Burst
    /\ since \in 0..Second
    /\ need \in [Reader -> Nat]
    /\ asleep \in [Reader -> 0..MaxSleep]
    /\ pc \in [Reader -> {"reading", "acquiring"}]
    /\ chunks \in [Reader -> 0..MaxChunks]
    /\ excess \in Nat

Init ==
    /\ tokens = Burst /\ since = 0
    /\ need = [r \in Reader |-> 0]
    /\ asleep = [r \in Reader |-> 0]
    /\ pc = [r \in Reader |-> "reading"]
    /\ chunks = [r \in Reader |-> 0]
    /\ excess = 0

Least(a, b) == IF a <= b THEN a ELSE b

\* Mutant: an idle second is worth more than a second.
Refilled_Unbounded == tokens + Rate * since

\* The tokens there are now: what has come in since the last refill counts
\* up to the capacity.
Refilled == Least(tokens + Rate * since, Burst)

\* The sleep after which the missing tokens should be there, in ticks
\* rounded up as the timer does, within its bounds.
Sleep(missing) == Least((missing + (Rate - 1)) \div Rate, MaxSleep)

\* A chunk has come; acquire is called with its size.
Receive(r, n) ==
    /\ pc[r] = "reading" /\ chunks[r] < MaxChunks
    /\ pc' = [pc EXCEPT ![r] = "acquiring"]
    /\ need' = [need EXCEPT ![r] = n]
    /\ chunks' = [chunks EXCEPT ![r] = @ + 1]
    /\ UNCHANGED <<tokens, since, asleep, excess>>

\* Mutant: the refill counts the same time again after a wait.
Drain_Twice(r) ==
    /\ pc[r] = "acquiring" /\ asleep[r] = 0
    /\ Refilled < need[r]
    /\ tokens' = 0
    /\ need' = [need EXCEPT ![r] = @ - Refilled]
    /\ asleep' = [asleep EXCEPT ![r] = Sleep(need[r] - Refilled)]
    /\ excess' = excess + Refilled
    /\ UNCHANGED <<since, pc, chunks>>

\* Mutant: what has been taken is not credited to the one who waits.
Drain_Uncredited(r) ==
    /\ pc[r] = "acquiring" /\ asleep[r] = 0
    /\ Refilled < need[r]
    /\ tokens' = 0 /\ since' = 0
    /\ asleep' = [asleep EXCEPT ![r] = Sleep(need[r] - Refilled)]
    /\ excess' = excess + Refilled
    /\ UNCHANGED <<need, pc, chunks>>

\* Not enough: the reader takes what there is and sleeps.
Drain(r) ==
    /\ pc[r] = "acquiring" /\ asleep[r] = 0
    /\ Refilled < need[r]
    /\ tokens' = 0 /\ since' = 0
    /\ need' = [need EXCEPT ![r] = @ - Refilled]
    /\ asleep' = [asleep EXCEPT ![r] = Sleep(need[r] - Refilled)]
    /\ excess' = excess + Refilled
    /\ UNCHANGED <<pc, chunks>>

\* Enough: acquire returns.
Grant(r) ==
    /\ pc[r] = "acquiring" /\ asleep[r] = 0
    /\ Refilled >= need[r]
    /\ tokens' = Refilled - need[r] /\ since' = 0
    /\ excess' = excess + need[r]
    /\ need' = [need EXCEPT ![r] = 0]
    /\ pc' = [pc EXCEPT ![r] = "reading"]
    /\ UNCHANGED <<asleep, chunks>>

\* The task of a segment is aborted, asleep or waiting for the lock: what it
\* has taken is gone.
Abort(r) ==
    /\ pc[r] = "acquiring"
    /\ pc' = [pc EXCEPT ![r] = "reading"]
    /\ need' = [need EXCEPT ![r] = 0]
    /\ asleep' = [asleep EXCEPT ![r] = 0]
    /\ UNCHANGED <<tokens, since, chunks, excess>>

Tick ==
    /\ since' = Least(since + 1, Second)
    /\ asleep' = [r \in Reader |-> IF asleep[r] > 0 THEN asleep[r] - 1 ELSE 0]
    /\ excess' = IF excess > Rate THEN excess - Rate ELSE 0
    /\ UNCHANGED <<tokens, need, pc, chunks>>

Step(r) == Drain(r) \/ Grant(r)

Next ==
    \/ Tick
    \/ \E r \in Reader :
          \/ \E n \in Chunk : Receive(r, n)
          \/ Step(r) \/ Abort(r)

\* Time passes, and a reader whose sleep is over is polled.
Spec == /\ Init /\ [][Next]_vars
        /\ WF_vars(Tick) /\ \A r \in Reader : WF_vars(Step(r))

-----------------------------------------------------------------------------
(* Properties                                                              *)

\* Whatever readers come and go, wait and are woken: in every interval they
\* take at most Rate tokens per tick and one burst (acquire).
RateIsBounded == excess <= Burst

Meter == INSTANCE Bucket WITH level <- Refilled, due <- need

\* Refilling lazily, at whatever moments readers come and wake up, and taking
\* what there is, comes to the same as a bucket filled by the clock from
\* which each reader pays what it owes (acquire implements Bucket).
MetersOut == Meter!Spec

\* An acquire returns, also one of more tokens than the bucket ever holds,
\* when no new chunks come in (acquire).
AcquireReturns == \A r \in Reader : pc[r] = "acquiring" ~> pc[r] = "reading"
=============================================================================
