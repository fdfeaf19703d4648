CONSTANTS
  InitPy = "__init__.py"
  NativeLib <- MCNative
  Metadata <- MCMetadata
  VENV_OWNED_ROOTS <- MCOwned
  WheelSets <- MCWheelSets
  Stem <- MCStem
  Importable <- MCImportable
  Private <- MCPrivate
  DataDirs = {"d.data"}
  Stubs = {"d2.dist-info"}
  FirstListed <- MCFirstListed
SPECIFICATION VenvSpec
INVARIANTS
  OutputsDisjoint
  FoundAsInstalled
  OneDistribution
  NativeKeepsItsFiles
  SymlinksDisjoint
  ShowsLastWheel
  ManifestExact
