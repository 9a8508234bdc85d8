---------------------------- MODULE MCFormation ----------------------------
(* Instances of Formation for TLC. *)
EXTENDS Formation

CONSTANTS a, b, c, o
=============================================================================
