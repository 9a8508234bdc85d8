----------------------------- MODULE MCRemoval -----------------------------
(* Instances of Removal for TLC. *)
EXTENDS Removal, TLC

CONSTANTS a, b, c, r1, r2, p1, dflt, d1, d2, d3, d4

\* A request that is sent again, or requests for two systems.
MCTargets == {r1 :> a @@ r2 :> a, r1 :> a @@ r2 :> b}

\* The daemon that gets the second request has no LXD.
MCPresent == (r1 :> Services @@ r2 :> Services \ {"LXD"})

MCLocation == (d1 :> a @@ d2 :> a @@ d3 :> b @@ d4 :> c)
MCPoolSize == (p1 :> 3 @@ dflt :> 3)
=============================================================================
