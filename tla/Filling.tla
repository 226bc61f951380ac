------------------------------- MODULE Filling -------------------------------
(***************************************************************************)
(* What a segmented download promises, whatever its segments, tasks,       *)
(* counters and bitmaps do: the units it counts as received are in the     *)
(* file, it counts a unit once it has handed it over and never uncounts    *)
(* it, and it succeeds with all of them.  A run starts from units that are *)
(* in the file; the exceptions are a run after a crash that has lost       *)
(* writes and a file removed under the download, and from then on nothing  *)
(* is promised of the file.                                                *)
(***************************************************************************)
CONSTANT Unit   \* the units of the file

VARIABLES
    phase,    \* what the download is doing
    credit,   \* the units it counts as received
    file,     \* the units handed over to the file
    trusted   \* no run has started from more than the file holds, and no
              \* file was taken away from one

vars == <<phase, credit, file, trusted>>

Phase == {"waiting", "filling", "streaming", "done"}

TypeOK ==
    /\ phase \in Phase
    /\ credit \subseteq Unit /\ file \subseteq Unit
    /\ trusted \in BOOLEAN

Init ==
    /\ phase = "waiting" /\ credit = {} /\ trusted = TRUE
    /\ file \in SUBSET Unit

\* A run starts, with what is in the file or with nothing.
Start ==
    /\ phase = "waiting" /\ phase' = "filling"
    /\ credit' \in SUBSET Unit
    /\ trusted' = (trusted /\ credit' \subseteq file')
    /\ file' \in {file, {}}

\* A unit is handed over to the file, or to one that was taken away; the
\* segment it belongs to counts it.
Receive(u) ==
    /\ phase = "filling"
    /\ file' = file \cup {u} \/ (~trusted /\ file' = file)
    /\ credit' = credit \cup {u}
    /\ UNCHANGED <<phase, trusted>>

\* A task that has been told to stop, or was split off its segment, writes
\* once more: its unit is counted by nobody.
Stray(u) ==
    /\ file' = file \cup {u}
    /\ UNCHANGED <<phase, credit, trusted>>

\* Cancelled, or not complete: another run may follow.
Stop ==
    /\ phase = "filling" /\ phase' = "waiting"
    /\ credit' = {}
    /\ UNCHANGED <<file, trusted>>

Finish ==
    /\ phase = "filling" /\ phase' = "done"
    /\ credit = Unit
    /\ credit' = {}
    /\ UNCHANGED <<file, trusted>>

\* The segments are given up, and the file with them.
GiveUp ==
    /\ phase = "filling" /\ phase' = "streaming"
    /\ credit' = {} /\ file' = {}
    /\ UNCHANGED trusted

\* The file is removed, between two runs or under one.
Drop ==
    /\ phase # "done" /\ file' = {}
    /\ trusted' \in {FALSE, trusted /\ phase = "waiting"}
    /\ UNCHANGED <<phase, credit>>

Crash ==
    /\ phase \in {"waiting", "filling", "streaming"}
    /\ phase' = "waiting"
    /\ credit' = {} /\ file' \in SUBSET file
    /\ UNCHANGED trusted

Next ==
    \/ Start \/ Stop \/ Finish \/ GiveUp \/ Drop \/ Crash
    \/ \E u \in Unit : Receive(u) \/ Stray(u)

Spec == Init /\ [][Next]_vars

-----------------------------------------------------------------------------
(* Properties                                                              *)

\* What is counted is in the file, and a download that has succeeded has
\* all of the file (run_ranged).
CreditIsCovered ==
    trusted => /\ credit \subseteq file
               /\ phase = "done" => file = Unit
=============================================================================
