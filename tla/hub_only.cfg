SPECIFICATION Spec
CONSTANTS
  Commits <- MCCommits
  Repos <- MCRepos
  Files <- MCFiles
  Raw <- MCRaw
  Pb <- MCPb
  None = None
  RepoOf <- MCRepoOf
  FilesOf <- MCFilesOf
  FileCid <- MCFileCid
  DirCid <- MCDirCid
  Links <- MCLinks
  EmptyLeaves <- MCEmptyLeaves
  Watcher = w
  Handlers = {h1}
  Layout <- LayoutEmpty
  Pieces <- PiecesEmpty
  Ops <- AllOps
  Sources <- HubOnly
  Conflicts <- EvictSolo
  MaxIssued = 3
INVARIANT ClosureHeld
PROPERTY KeepsCatalogue
PROPERTY EvictLeavesNothing
 
CHECK_DEADLOCK FALSE
