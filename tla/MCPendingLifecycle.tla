--------------------------- MODULE MCPendingLifecycle ---------------------------
(***************************************************************************)
(* PendingLifecycle for TLC.                                                *)
(***************************************************************************)
EXTENDS PendingLifecycle, TLC

Symmetry == Permutations(Peers)
=============================================================================
