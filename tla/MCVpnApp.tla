------------------------------ MODULE MCVpnApp ------------------------------
(* Two attempts on a phone of either platform; attempts are symmetric.     *)
EXTENDS VpnApp, TLC

Symmetry == Permutations(Attempt)
=============================================================================
