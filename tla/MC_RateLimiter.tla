--------------------------- MODULE MC_RateLimiter ----------------------------
(***************************************************************************)
(* Addresses that come once and go.                                        *)
(***************************************************************************)
EXTENDS RateLimiter, TLC

=============================================================================
