\* Two entries, three unprivileged hydrators, Buck2 publishing alongside.
SPECIFICATION Spec
CONSTANTS
  h1 = h1
  h2 = h2
  h3 = h3
  e1 = e1
  e2 = e2
  t1 = t1
  t2 = t2
  None = None
  Hydrators <- MCHydrators3
  Entries <- MCEntries
  Trees <- MCTrees
  Manifests <- MCManifests
  NativeTrees <- MCTrees
  Privileged = FALSE
  MaxCrashes = 1
  MaxFaults = 1
SYMMETRY Symmetry
INVARIANTS
  TypeOK
  PublishedComplete
  OkMeansPinned
PROPERTIES
  StoreImmutable
  ImplementsAtomicStore
