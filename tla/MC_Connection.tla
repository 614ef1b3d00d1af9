---------------------------- MODULE MC_Connection ----------------------------
(***************************************************************************)
(* Two requests on a connection, their bodies in every size that the code  *)
(* tells apart: for both readers, for `upload` only, for the drain only,   *)
(* and past even that.                                                     *)
(***************************************************************************)
EXTENDS Connection

=============================================================================
