SPECIFICATION Spec
CONSTANTS
  Names = {"a", "b"}
  MaxDepth = 3
  MaxFiles = 2
  Contents <- MCContents
  LinksPerBlock = 2
  MaxFileChunks = 5
INVARIANT EveryFileLocated
CHECK_DEADLOCK FALSE
