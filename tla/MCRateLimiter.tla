---------------------------- MODULE MCRateLimiter ----------------------------
(* Instances of LoginRateLimiter for TLC. *)
EXTENDS LoginRateLimiter
==============================================================================
