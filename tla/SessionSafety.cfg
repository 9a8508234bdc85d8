SPECIFICATION Spec
CONSTANTS
  c1 = c1  c2 = c2  j1 = j1  j2 = j2  p1 = p1  k1 = k1
  f1 = f1  f2 = f2  Nil = Nil
  Conns = {c1, c2}
  Joins = {j1}
  Stops = {}
  Hooks = {k1}
  Prints = {f1}
  PrintOf <- MCPrintOne
  AllowedFailedJoinAttempts = 0
  CloseFails = TRUE
SYMMETRY MCSymmetry
INVARIANTS TypeOK TrustedWasAgreed ShownIsSigned
