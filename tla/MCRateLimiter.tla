--------------------------- MODULE MCRateLimiter ---------------------------
(* Model-checking instances of RateLimiter.                                *)
EXTENDS RateLimiter
=============================================================================
