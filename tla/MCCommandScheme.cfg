\* A target whose own scheme does not answer, among small sites, networks and sets of flags.
CONSTANTS
  Dirs <- MCDirs
  Names <- MCNames
  Marked = {4}
  Queries <- MCQueries
  Targets <- MCTargets
  Sites <- MCSites
  DefaultPort <- MCDefaultPort
  Alphabetical <- MCAlphabetical
  MaxPages = 3
  Noise <- MCNoise
  Fallback <- MCFallback
  Categories <- MCCategories
  Lines <- MCLines
  Budget <- MCBudget
  Escaping <- MCEscaping
  MaxJobs = 20
  Networks <- MCNetworks
  Flags <- MCFlags
  Considered <- MCConsidered
SPECIFICATION Spec
CHECK_DEADLOCK FALSE
INVARIANT CleanMeansBaseline
