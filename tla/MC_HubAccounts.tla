--------------------------- MODULE MC_HubAccounts ---------------------------
(***************************************************************************)
(* Instances of HubAccounts: which operations clients use, and how many    *)
(* requests are in progress at one time.                                   *)
(***************************************************************************)
EXTENDS HubAccounts, TLC

AllOps == {"register", "login", "logout", "upload", "withdraw", "password", "close"}
SessionOps == {"register", "login", "logout", "password", "close"}
RunOps == {"register", "upload", "withdraw", "close"}

HubSymmetry == Permutations(Requests)

=============================================================================
