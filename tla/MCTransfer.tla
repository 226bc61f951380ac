------------------------------ MODULE MCTransfer ------------------------------
(* A task without mirrors and one with two, in two segments. *)
EXTENDS Transfer

CONSTANTS s1, s2, s3

\* The first source answers in any way.
GivenWorlds ==
    {k \in [{s1, s2, s3} -> Kind] :
        \/ k[s2] \in {"good", "bad", "dead"} /\ k[s3] \in {"good", "dead"}
        \/ \A s \in {s1, s2, s3} : k[s] = "bad"}

GivenOrders == {<<s1>>, <<s1, s2, s3>>}
=============================================================================
