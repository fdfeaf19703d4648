SPECIFICATION Spec
CONSTANTS
  Jobs <- MCJobs
  Fs <- MCFs
  None = None
  HardLimit <- MCHardLimit
  Megabyte <- MCMegabyte
  MinFile <- MCMinFile
  MaxPromoted <- MCMaxPromoted
INVARIANT CollisionsExact
INVARIANT AdviceConsistent
