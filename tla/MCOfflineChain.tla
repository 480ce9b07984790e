--------------------------- MODULE MCOfflineChain ---------------------------
(***************************************************************************)
(* OfflineChain on a small instance: one chain, two workers.               *)
(***************************************************************************)
EXTENDS OfflineChain, TLC
=============================================================================
