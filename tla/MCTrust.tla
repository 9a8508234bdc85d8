------------------------------- MODULE MCTrust -------------------------------
(* Instances of Trust for TLC: two systems, the second with another multicast  *)
(* version and not in the preseed file, and a table that shows one row.        *)
EXTENDS Trust, TLC

CONSTANTS j1, j2, n1, n2, v1, v2

MCNames == (j1 :> n1 @@ j2 :> n2)
MCVersions == (j1 :> v1 @@ j2 :> v2)
==============================================================================
