------------------------------ MODULE MCTunnel ------------------------------
(* Instances of Tunnel for TLC. *)
EXTENDS Tunnel, TLC

CONSTANTS w1, w2, w3

MCSymmetry == Permutations(Workers)
=============================================================================
