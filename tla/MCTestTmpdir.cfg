CONSTANTS
  p1 = p1
  p2 = p2
  p3 = p3
  p4 = p4
  t1 = t1
  t2 = t2
  t3 = t3
  a1 = a1
  a2 = a2
  Proc = {p1, p2, p3, p4}
  Target = {t1, t2, t3}
  Alias = {a1, a2}
  Digest <- MCDigest
  Nobody = Nobody
  Nowhere = Nowhere
  Free = Free
  Orphan = Orphan
SYMMETRY Symmetry
SPECIFICATION LauncherSpec
INVARIANTS
  OneOwner
  OwnerKeepsAlias
  LinksArePrivate
PROPERTIES
  LeaseSpec
