\* Each sequential part on all small inputs.
SPECIFICATION MCSpec
CONSTANTS
  Names = {1, 2}
  MaxDepth = 3
  MaxRecords = 5
  Own = 1
  Others = {2}
  MaxList = 2
  ObjectPaths = {"e1", "e2"}
  ArchiveTrees = {"t1", "t2"}
  ObjectManifests <- MCObjectManifests
  Slots = {1, 2}
  MaxChanges = 1
  Splits = {1, 2}
  PathLists <- MCPathLists
  Installed <- MCInstalled
  LinkPaths <- MCLinkPaths
  ExcludedNames = {{}, {2}}
  SourceLists <- MCSourceLists
  Pinned = "pinned"
  Damaged = "damaged"
  MaxDamages = 2
  MaxTasks = 3
  StorePrefix <- MCStorePrefix
  EntryBytes = {1, 2, 3}
  Slash = 0
  DataNames = {1}
  Policies <- MCPolicies
  InputLists <- MCInputLists
  TreePairs <- MCTreePairs
  WriteBits = {"w"}
  HeaderNames = {"a.h", "b.h"}
  OtherNames = {"a.txt"}
  MaxInstalls = 3
  Targets = {1, 2, 3, 4}
  StoreEntries = {1, 2, 3}
  SplitEntries <- MCSplitEntries
  MaxInputs = 2
INVARIANTS
  PayloadLanguage
  ImportAgrees
  IndexedBundleHydrates
  EachFileInItsOutput
  NamesFollowFiles
  CompositionIsUnion
  UsedIsPinned
  VerdictsExact
  StampedMeansSame
  HeadersOfOneRun
  ListsParallel
  ImportVerdictExact
  SplitResolutionExact
\* Every part ends.
CHECK_DEADLOCK FALSE
