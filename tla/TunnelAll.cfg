SPECIFICATION FairSpec
CONSTANTS
  w1 = w1  w2 = w2  w3 = w3  Loop = Loop  Nil = Nil
  Workers = {w1, w2}
  Faults = {"tick", "connect", "lxd", "drop", "slow"}
  MaxFaults = 1
INVARIANTS TypeOK ConnTracked ShutdownClean NoOverlap
PROPERTIES ReconciledUndisturbed ShutdownUndisturbed
