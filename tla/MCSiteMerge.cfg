CONSTANTS
  c1 = c1
  c2 = c2
  Path <- MCPath
  Rank <- MCRank
  Source <- MCSource
  NoSource = NoSource
  Content = {c1, c2}
  Merges <- MCMerges
SPECIFICATION Spec
INVARIANTS
  IsOverlay
  BytecodeFresh
  ConflictsExact
