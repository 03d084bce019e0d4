SPECIFICATION Spec
CONSTANTS
  Commits <- MCCommits
  Repos <- MCRepos
  Files <- MCFiles
  Raw <- MCRaw
  Pb <- MCPb
  None = None
  RepoOf <- MCRepoOf
  FilesOf <- MCFilesOf
  FileCid <- MCFileCid
  DirCid <- MCDirCid
  Links <- MCLinks
  EmptyLeaves <- MCEmptyLeaves
  Watcher = w
  Handlers = {h1}
  Layout <- LayoutThree
  Pieces <- PiecesThree
  Ops <- PullOps
  Sources <- PeerOnly
  Conflicts <- OneAtATime
  MaxIssued = 3
PROPERTY NothingTakenFromMapped
CHECK_DEADLOCK FALSE
