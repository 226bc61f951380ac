---------------------------- MODULE MCRateLimiter ----------------------------
(* A chunk that fits into the bucket and one that exceeds it.                *)
EXTENDS RateLimiter
=============================================================================
