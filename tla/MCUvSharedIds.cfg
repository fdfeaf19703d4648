CONSTANTS
  a = a
  b = b
  c = c
  v1 = v1
  v2 = v2
  x = x
  g1 = g1
  g2 = g2
  e1 = e1
  e2 = e2
  Pkg = {a, b, c}
  Releases <- MCReleases
  Extras <- MCExtras
  Group = {g1, g2}
  Env = {e1, e2}
  MaxDeps = 3
  NoGroup = NoGroup
  Locks <- MCLocks
SPECIFICATION Spec
INVARIANT MarkersFaithful
