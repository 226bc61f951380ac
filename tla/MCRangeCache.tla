----------------------------- MODULE MCRangeCache -----------------------------
(* A host that redirects and the one it redirects to, and two downloads.    *)
EXTENDS RangeCache
=============================================================================
