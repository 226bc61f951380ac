-------------------------------- MODULE Bucket --------------------------------
(***************************************************************************)
(* What rate_limit.rs promises: a bucket that fills with Rate tokens in    *)
(* every tick of the clock, up to a second's worth, and readers that pay   *)
(* from it what they owe, in parts if need be.  Nothing here refills       *)
(* lazily, sleeps or wakes up.                                             *)
(***************************************************************************)
EXTENDS Integers

CONSTANTS Reader, Chunk, Rate, Second

VARIABLES
    level,  \* tokens in the bucket
    due     \* due[r]: tokens reader r owes

vars == <<level, due>>

Burst == Rate * Second

Init == level = Burst /\ due = [r \in Reader |-> 0]

Owe(r, n) == due[r] = 0 /\ due' = [due EXCEPT ![r] = n] /\ UNCHANGED level

\* As much as there is, or all that is owed.
Pay(r) ==
    LET n == IF due[r] <= level THEN due[r] ELSE level
    IN  /\ level' = level - n
        /\ due' = [due EXCEPT ![r] = @ - n]

\* What has been paid is not paid back.
Leave(r) == due' = [due EXCEPT ![r] = 0] /\ UNCHANGED level

Fill ==
    /\ level' = IF level + Rate <= Burst THEN level + Rate ELSE Burst
    /\ UNCHANGED due

Next ==
    \/ Fill
    \/ \E r \in Reader : Pay(r) \/ Leave(r) \/ \E n \in Chunk : Owe(r, n)

Spec == Init /\ [][Next]_vars
=============================================================================
