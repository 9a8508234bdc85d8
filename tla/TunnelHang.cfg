SPECIFICATION FairSpec
CONSTANTS
  w1 = w1  w2 = w2  w3 = w3  Loop = Loop  Nil = Nil
  Workers = {w1, w2}
  Faults = {"drop"}
  MaxFaults = 1
PROPERTY ShutdownCompletes
