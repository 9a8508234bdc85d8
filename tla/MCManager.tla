------------------------------ MODULE MCManager ------------------------------
(* Instances of Manager for TLC: a token of each of two managers, and requests  *)
(* that change all of the configuration, or set the interval to nothing, to 0   *)
(* or to what is no number.                                                     *)
EXTENDS Manager, TLC

CONSTANTS m1, m2, a1, a2, r1, r2, d1, d2

MCPosts == {[addresses |-> a1, fingerprint |-> m1], [addresses |-> a2, fingerprint |-> m2]}

MCPuts ==
  {[addresses |-> Nil, fingerprint |-> Nil, interval |-> i, tunnel |-> Nil] : i \in {0, Unset, Bad}}
    \cup {[addresses |-> a2, fingerprint |-> m2, interval |-> 15, tunnel |-> TRUE]}
==============================================================================
