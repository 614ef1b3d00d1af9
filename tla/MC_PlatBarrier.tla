--------------------------- MODULE MC_PlatBarrier ---------------------------
(***************************************************************************)
(* Four threads calling the shim three times, with a one-bit generation    *)
(* counter: it wraps, and an old and a new waiter can only be told apart   *)
(* by one bit, the hardest case for the generation test.                   *)
(***************************************************************************)
EXTENDS PlatBarrier

=============================================================================
