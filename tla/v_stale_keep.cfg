SPECIFICATION Spec
CONSTANTS
  Commits <- MCCommits
  Repos <- MCRepos
  Files <- MCFiles
  Raw <- MCRaw
  Pb <- MCPb
  None = None
  RepoOf <- MCRepoOf
  FilesOf <- MCFilesOf
  FileCid <- MCFileCid
  DirCid <- MCDirCid
  Links <- MCLinks
  EmptyLeaves <- MCEmptyLeaves
  Watcher = w
  Handlers = {h1}
  Layout <- LayoutPair
  Pieces <- PiecesFlat
  Ops <- AllOps
  Sources <- PeerOnly
  Conflicts <- NoConflicts
  MaxIssued = 4
PROPERTY EvictSparesMapped
CHECK_DEADLOCK FALSE
