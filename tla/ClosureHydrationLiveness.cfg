\* Two privileged hydrators, a crash, and a bundle file that is replaced while
\* they run: every hydration ends, and what it reports is in the store.
SPECIFICATION MCFairSpec
CONSTANTS
  h1 = h1
  h2 = h2
  e1 = e1
  e2 = e2
  t1 = t1
  t2 = t2
  None = None
  Hydrators <- MCHydrators
  Entries <- MCEntries
  Trees <- MCTrees
  Manifests <- MCSoundManifests
  NativeTrees <- MCNone
  Closures <- MCGoodClosure
  Privileged = TRUE
  MaxCrashes = 1
  MaxFaults = 0
  MaxRefetches = 1
INVARIANT
  HydratedMeansPresent
PROPERTIES
  HydrationEnds
  RetriesHydrate
