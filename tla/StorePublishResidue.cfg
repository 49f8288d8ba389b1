\* An unprivileged hydrator killed between sealing and renaming.
SPECIFICATION FairSpec
CONSTANTS
  h1 = h1
  h2 = h2
  h3 = h3
  e1 = e1
  e2 = e2
  t1 = t1
  t2 = t2
  None = None
  Hydrators <- MCHydrators
  Entries <- MCEntry
  Trees <- MCTrees
  Manifests <- MCOneManifest
  NativeTrees <- MCNone
  Privileged = FALSE
  MaxCrashes = 1
  MaxFaults = 0
PROPERTY
  RetriesPublish
