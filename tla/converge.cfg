SPECIFICATION LiveSpec
CONSTANTS
  Commits <- MCCommits
  Repos <- MCRepos
  Files <- MCFiles
  Raw <- MCRaw
  Pb <- MCPb
  None = None
  RepoOf <- MCRepoOf
  FilesOf <- MCFilesOf
  FileCid <- MCFileCid
  DirCid <- MCDirCid
  Links <- MCLinks
  EmptyLeaves <- MCEmptyLeaves
  Watcher = w
  Handlers = {h1}
  Layout <- LayoutPair
  Pieces <- PiecesZero
  Ops <- WatchOps
  Sources <- PeerOnly
  Conflicts <- NoConflicts
  MaxIssued = 3
PROPERTY SettledSpared
PROPERTY SeenBlobsStay
PROPERTY EventuallyPruned
PROPERTY EventuallyShared
CHECK_DEADLOCK FALSE
