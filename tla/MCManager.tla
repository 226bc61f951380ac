------------------------------ MODULE MCManager ------------------------------
(***************************************************************************)
(* Model values for the runs of Manager: two tasks on one destination, two *)
(* worker slots, one thread calling the API.                               *)
(***************************************************************************)
EXTENDS Manager, TLC

CONSTANTS t1, t2, d1, w1, w2, c1

SameDest == [t \in Task |-> d1]

\* Worker slots are interchangeable; only the safety run uses this.
Symmetry == Permutations(Worker)
=============================================================================
