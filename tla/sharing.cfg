SPECIFICATION Spec
CONSTANTS
  Commits <- MCCommits
  Repos <- MCRepos
  Files <- MCFiles
  Raw <- MCRaw
  Pb <- MCPb
  None = None
  RepoOf <- MCRepoOf
  FilesOf <- MCFilesOf
  FileCid <- MCFileCid
  DirCid <- MCDirCid
  Links <- MCLinks
  EmptyLeaves <- MCEmptyLeaves
  Watcher = w
  Handlers = {h1}
  Layout <- LayoutSpread
  Pieces <- PiecesPair
  Ops <- AllOps
  Sources <- Both
  Conflicts <- EvictAlone
  MaxIssued = 3
INVARIANT TypeOK
INVARIANT TreeHeld
PROPERTY NoDanglingRef
PROPERTY EvictSparesMapped
PROPERTY EvictRemovesUnreferenced
CHECK_DEADLOCK FALSE
