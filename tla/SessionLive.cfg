SPECIFICATION FairSpec
CONSTANTS
  c1 = c1  c2 = c2  j1 = j1  j2 = j2  p1 = p1  k1 = k1
  f1 = f1  f2 = f2  Nil = Nil
  Conns = {c1}
  Joins = {j1, j2}
  Stops = {p1}
  Hooks = {k1}
  Prints = {f1, f2}
  PrintOf <- MCPrintSame
  AllowedFailedJoinAttempts = 0
  CloseFails = FALSE
INVARIANTS GuessBound ForwardedOnce SuccessMeansJoined
PROPERTIES SessionEnds RequestsAnswered
