SPECIFICATION Spec
CONSTANTS
  Commits <- MCCommits
  Repos <- MCRepos
  Files <- MCFiles
  Raw <- MCRaw
  Pb <- MCPb
  None = None
  RepoOf <- MCRepoOf
  FilesOf <- MCFilesOf
  FileCid <- MCFileCid
  DirCid <- MCDirCid
  Links <- MCLinks
  EmptyLeaves <- MCEmptyLeaves
  Watcher = w
  Handlers = {h1}
  Layout <- LayoutThree
  Pieces <- PiecesThree
  Ops <- PullEvict
  Sources <- HubOnly
  Conflicts <- OneAtATime
  MaxIssued = 4
PROPERTY EvictKeepsSharedBlobs
CHECK_DEADLOCK FALSE
