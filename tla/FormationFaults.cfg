SPECIFICATION Spec
CONSTANTS
  a = a  b = b  c = c  o = o
  Systems = {a, b, c}
  Local = a
  Outsiders = {o}
  Services = {"MicroCloud", "LXD", "MicroCeph", "MicroOVN"}
  Reusable = {"MicroCeph"}
  Selected = {a, b}
  MaxAttempts = 2
INVARIANTS TypeOK SuccessMeansClustered TokensRevoked DisksOnce PollSeesPeer
PROPERTY CommandEnds
