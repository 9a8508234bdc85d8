------------------------------ MODULE MCSession ------------------------------
(* Instances of Session for TLC. *)
EXTENDS Session, TLC

CONSTANTS c1, c2, j1, j2, p1, k1, f1, f2

\* One request, or two requests of one system.
MCPrintOne == (j1 :> f1)
MCPrintSame == (j1 :> f1 @@ j2 :> f1)

\* Connections are alike.
MCSymmetry == Permutations({c1, c2})
=============================================================================
