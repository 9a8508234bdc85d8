SPECIFICATION Spec
CONSTANTS
  m1 = m1  m2 = m2  a1 = a1  a2 = a2  r1 = r1  r2 = r2  d1 = d1  d2 = d2
  Nil = Nil  Unset = Unset  Bad = Bad
  Requests = {r1, r2}
  Members = {d1, d2}
  Daemons = {d1}
  Managers = {m1, m2}
  Addresses = {a1, a2}
  Posts <- MCPosts
  Puts <- MCPuts
  Periods = {0, 15, 60}
  Default = 60
  MaxChanges = 2
  MaxFaults = 1
PROPERTY StatusOnly
