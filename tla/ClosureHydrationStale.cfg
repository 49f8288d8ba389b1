\* Bundle files are replaced between the two passes.
SPECIFICATION ClosureSpec
CONSTANTS
  h1 = h1
  h2 = h2
  e1 = e1
  e2 = e2
  t1 = t1
  t2 = t2
  None = None
  Hydrators <- MCHydrator
  Entries <- MCEntries
  Trees <- MCTrees
  Manifests <- MCManifests
  NativeTrees <- MCNone
  Closures <- MCGoodClosure
  Privileged = FALSE
  MaxCrashes = 0
  MaxFaults = 0
  MaxRefetches = 2
INVARIANT
  HydratedMeansPinned
