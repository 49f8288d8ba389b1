\* Any bundle, stable, for good and bad closures; two hydrators, a crash, a
\* fault, and Buck2 publishing alongside.
SPECIFICATION ClosureSpec
CONSTANTS
  h1 = h1
  h2 = h2
  e1 = e1
  e2 = e2
  t1 = t1
  t2 = t2
  None = None
  Hydrators <- MCHydrators
  Entries <- MCEntries
  Trees <- MCTrees
  Manifests <- MCManifests
  NativeTrees <- MCTrees
  Closures <- MCClosures
  Privileged = FALSE
  MaxCrashes = 1
  MaxFaults = 1
  MaxRefetches = 0
SYMMETRY Symmetry
INVARIANTS
  HydratedMeansPinned
PROPERTIES
  BadBundlePublishesNothing
  ImplementsStorePublish
