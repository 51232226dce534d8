--------------------------- MODULE MCRateLimiter ----------------------------
(* RateLimiter on a small instance: see the .cfg files for the bounds. *)
EXTENDS RateLimiter
=============================================================================
