\* BOOTSTRAP.md on the metadata of a final output.
SPECIFICATION MCSpec
CONSTANTS
  e1 = e1
  e2 = e2
  e3 = e3
  e4 = e4
  None = None
  Targets = {1, 2, 3, 4, 5}
  Entries <- MCEntries4
  InputRoles = {"runtime", "tool", "reference", "build"}
  MaxInputs = 2
  MaxMentions = 1
  MaxForeign = 2
  MaxPublished = 1
SYMMETRY Symmetry
INVARIANTS
  SeedFreeMetadata
CHECK_DEADLOCK FALSE
