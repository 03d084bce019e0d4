SPECIFICATION Spec
CONSTANTS
  Names = {"a", "b"}
  MaxDepth = 3
  MaxFiles = 3
  Contents <- MCContents
  LinksPerBlock = 2
  MaxFileChunks = 5
INVARIANT Reassembled
INVARIANT AttachedFilesLocated
CHECK_DEADLOCK FALSE
