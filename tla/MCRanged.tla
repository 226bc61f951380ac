------------------------------- MODULE MCRanged -------------------------------
(* One segment to begin with, of a block and a half: its halves lie across   *)
(* the block's end.                                                          *)
EXTENDS Ranged

\* Bound: no crash and no removal under a run in one behaviour, and no third
\* run after either.
OneMishap ==
    /\ ~(crashes /\ dropped)
    /\ crashes \/ dropped => runs < MaxRuns
=============================================================================
