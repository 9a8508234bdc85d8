SPECIFICATION Spec
CONSTANTS
  j1 = j1  j2 = j2  n1 = n1  n2 = n2  v1 = v1  v2 = v2  Nil = Nil
  Joiners = {j1, j2}
  Rows = {j1, j2}
  Filters = {{j1, j2}, {j2}}
  Size = 1
  NameOf <- MCNames
  Version <- MCVersions
  OurVersion = v1
  Expected = {n1}
INVARIANTS TypeOK ConfirmedAsSelected TrustMutual
PROPERTY LookupFinds
