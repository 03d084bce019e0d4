# TLA+ model of swarmface (hf-ipfs)

`sf` bridges the Hugging Face hub cache and a libp2p swarm. A daemon watches
the cache, builds a merkle DAG over every finished download without copying its
bytes, announces it, and serves it to peers; `sf pull` rebuilds a revision from
such a peer, or from the Hub. This directory holds the TLA+ specification of
the parts of it that share state, the TLC models that check them and the TLAPS
proofs.

## 1. The system

| Component | State | Operations | Interacts with |
| --- | --- | --- | --- |
| `internal/mapping` | bucket commit -> manifest and root CID | Put, Get, Delete, List | pull, ingest, evict, watch, `handleMap` |
| block store (`node`, boxo) | bucket of dag-pb nodes and zero-length leaves; bucket leaf CID -> path, offset | Put, Delete, `RegisterFilestoreRef` | pull, ingest, evict, `handleBlocks` |
| `internal/hfcache` | blobs, `snapshots/<commit>`, `refs/main` on disk, shared with the hf CLI and the user | ReadSnapshot, WriteSnapshot, SnapshotComplete | all of the above |
| `internal/pull` | one goroutine per request | from peers, from the Hub, relink | writes all three stores |
| `internal/ingest` | one goroutine per request, or the watcher's | build the DAG, map, announce | reads the cache, writes the stores |
| `internal/evict` | the same | remove one revision, or a repository's | deletes from all three stores |
| `internal/watch` | `pending`, `known`, the kernel's queue and watches, rescan ticker | take an event, flush, scan, prune, reprovide | ingest, evict, node |
| `internal/controls` | socket file, listener, one goroutine per connection, `Shutdown` | Serve, Call, handle | every operation, the daemon's main |
| `main` | processes, forked daemons | daemon, pull, ingest, evict, list, shutdown | controls, node |
| `internal/store` | bbolt file, repo flock | Open, AcquireLock | node |
| `internal/node` (network) | libp2p streams, DHT records, routing table, reachability | map and block protocols, announce | remote nodes |
| `internal/pull`, `protoio`, `wire` (network) | one block stream per candidate, frames without numbers, deadlines | map exchange, Fetch, verify, place | `handleMap`, `handleBlocks` of a peer |
| `internal/hfapi` | one response body, the stamp of the last read, a watchdog goroutine | RepoInfoAt, TreeAt, Download | the Hub, `fetchBlob` |

What is hard here:

* **No lock between operations.** Handlers and the watcher run at once over
  three stores that are updated one transaction or one file at a time. Blocks
  and references are shared between revisions and repositories by content.
* **Failure half way.** A pull rolls back, a provider is given up for the next,
  an eviction fails or the node is killed; bbolt and the file system keep what
  was done.
* **Others write the same files**: the hf CLI downloads, the user deletes.
* **Processes race** for the flock, the bbolt file and a socket file that
  outlives its daemon.
* **The network fails in the middle.** Answers are matched to requests by their
  order alone; a stream is reset, a peer vanishes, changes its store or sends
  nothing, a client does not read; the Hub stalls. Waits are bounded by
  deadlines and a watchdog that must not cut what is alive.
* **Events are missed.** A directory reports nothing before it is watched, the
  kernel's queue overflows, a watch is refused or goes with its directory.

What makes it correct, by component: a mapped revision can be located and
served (pull, ingest); an eviction takes what nobody else needs, all of it and
nothing more (evict); references lead to files (filestore); mappings and cache
agree in the end, and what is mapped is announced (watch, node); a Fetch returns
what the peer has or fails (block protocol); only whole files appear under a
blob's name, and the Hub is asked for a reason (pull); a file is put together as it was taken apart (DAG);
one process owns the store, a serving daemon can be reached, a command ends and
never reports a success that did not happen (controls, main).

## 2. Modules

| Module | Models | Kind |
| --- | --- | --- |
| `SharedCache` | the three stores and every operation on them: pull, relink, Hub pull, ingest, evict, prune, the hf CLI, the user, crashes | state machine |
| `Catalogue` | what a node promises the peers that ask it for maps and blocks | abstract specification, implemented by `SharedCache` |
| `SharedCacheProofs` | | proofs |
| `EvictProofs` | | proofs about evictions; extends the one above |
| `ClosureProofs` | | proofs about whole revisions, down to the leaves; extends the one above |
| `RevisionDag` | buildTree, buildDir, the balanced layout, findNode, collectLeaves | functions on real trees, driven by a small state machine |
| `Daemon` | processes, flock, bbolt lock, control socket, requests | state machine |
| `DaemonProofs` | | proofs |
| `BlockFetch` | what `blockClient.Fetch` promises its caller | abstract specification |
| `BlockStream` | one block stream: `blockClient`, `handleBlocks`, frames, deadlines, losses | state machine, implements `BlockFetch` |
| `BlockStreamProofs` | | proofs, with the refinement |
| `HubDownload` | `hfapi.Download` and its watchdog, in model time | state machine |
| `HubDownloadProofs` | | proofs |
| `Transfer` | `pull.Run` over the network: candidates, map exchange, block stream, digests, temporary file, Hub, crash and re-run | composes `BlockStream` and `HubDownload` |
| `TransferProofs` | | proofs; extends the two above |
| `Watcher` | `watch.Run`'s select loop, the kernel's events, announcements | state machine |
| `WatcherProofs` | | proofs |
| `MC...` | layouts, operation sets and locks for TLC | constants |

### SharedCache

`entry`, `blocks`, `fref` are the three bbolt buckets; `disk`, `links`, `ref`
the hub cache; `task[t]` what goroutine `t` (a handler, or the watcher) is
doing, with the local variables of the function it is in (`keep`, `reg` for
`registered`, `paths` for `remaining`, ...). Each action is one bbolt
transaction or one file-system call of the code:

| Actions | Code |
| --- | --- |
| `PullBegin`, `PullRelink` | `pull.Run` |
| `PullRoot`, `GiveUp`, `PullFail`, `PullMap` | `pullFromPeers`: map exchange, provider loop, Mapping.Put |
| `PullFile`, `PullEmpty`, `PullInner`, `PullLeaves`, `PullChunk`, `PullPlace` | `reconstruct`, `reconstructFile`; they read by `ReadThrough`, which is `readThrough.Get` with its Put, failing or not |
| `PullUndo`, `PullUndone` | `rollback` |
| `HfManifest` ... `HfFail`, `WriteLink`, `WriteRef` | `pullFromHF`, `WriteSnapshot`; where it fails a pull from peers goes to the Hub (`Fallback`) |
| `IngestBegin`, `TryIngest` ... `IngestMap` | `ingest.Run` from a handler or from the watcher |
| `EvictBegin`, `PruneBegin` ... `EvictRemoveRef` | `evict.Repo`, `evict.Commit`, `pruneOrphans` |

Abstractions. A file is its content and a CID is what it hashes; a directory
tree is one node (`DirCid`), nested directories being the subject of
`RevisionDag`; a file's DAG has at most one level between root and leaves;
offsets and `trees/<commit>.json` are left out. Providers are honest about the
manifest: a wrong block or digest is the failure the code turns it into. Loops
take files and blocks in any order. An ingest that fails between two blocks
leaves what a crash there leaves. `Fault` is a store or a file system that fails
where the code goes on regardless: a node that cannot be stored (`ReadThrough`),
a rollback's deletion (`PullUndo`), an eviction's (`EvictFail`). History: `torn`
are the revisions whose eviction was cut short, `holed` those a pull mapped with
a node of their tree missing from the store (`lost` of its task). A snapshot of
nothing but empty directories, complete to the code, is not a state of the model.

`Conflicts` names the operations that are never run at once. **The program is
`Conflicts = {}`**: it keeps nothing apart. Several safety properties below are
false of it (section 4), so that runs which need a lock say which one:
`EvictAlone` (an eviction excludes pulls and ingests), `EvictSolo` (and other
evictions), or `OneAtATime`. The theorems speak of those of the program's
behaviours in which the operations did not overlap (section 5). Two
properties hold of the program whatever overlaps: `SettledSpared` (what was
whole before an eviction listed the other mappings is safe from it) and
`SeenBlobsStay` (the blob of a reference its scan has seen stays).

### Catalogue

The node as `handleMap` and `handleBlocks` show it: `offer` is the mapping
bucket, `served` what the blockstore has, `leaving` the revisions whose eviction
has begun to delete, `cut` those of them whose eviction was cut short. `Offer` is
ingest's Mapping.Put, `Withdraw` the end of an eviction's walks, `Drop` one of
its deletions, `Retract` its Mapping.Delete, `Interrupt` a failure or a crash,
`Gain` everything that stores blocks. `Peers == INSTANCE Catalogue WITH ...` in
`SharedCache` is the refinement mapping, and the promise is kept by a node that
pulls from the Hub alone and whose evictions exclude pulls, ingests and each
other. The program as it is does not keep it, for the reasons of section 4.

### RevisionDag

Nodes are given by value. `Init` ranges over all revisions of up to `MaxFiles`
files, `BuildTree` ingests one and `Reconstruct` pulls its files one by one.
The fan-out is scaled down (2 links per node instead of 174, budget 5 instead of
the code's), so that three levels of nodes and the budget are reached.

### Daemon

`lock` is the flock, `db` who has the bbolt file open, `sock` whose listener
the socket file was bound by, `ears` which listeners are open: a file whose
owner has no ear is a stale socket. `AcquireLock`, `Open`, `CloseStore`,
`Unlock` are `node.New` and `Node.Close`, with New's failures, of which the one
that leaves store and lock to the kernel (a static relay that does not parse) is
a case of its own; `Start` ... `Leave` are `cmdDaemon`
with its deferred closes in order; `Probe` ... `Work` the commands, with a
`forkDaemon` that may fail before there is a child (`ForkFails`); `Handle` ...
`CloseShutdown` the goroutine of a request. `Stop` may happen at any time (a
signal, an error of the watcher).

### BlockFetch and BlockStream

`BlockFetch` is the interface: `call` is the batch asked for, `result` what came
back, `stock` what the peer has and `seen` what it had since the call began. A
call returns one answer per CID, in order, each true of the peer at some moment
of the call, or the client is never used again. `BlockStream` has the two
programs behind it: `client`, `asked`, `out` are the locals of `Fetch`; `up` and
`down` the frames on their way (protoio frames are whole: one cut short reads as
the end of the stream); `server`, `batch`, `next` the handler's loop; `link` the
stream. `Promise == INSTANCE BlockFetch WITH ...` is the refinement mapping.

| Actions | Code |
| --- | --- |
| `OpenStream`, `Fetch`, `SendRequest`, `ReadAnswer`, `FetchError`, `FetchDeadline`, `CloseStream` | `newBlockClient`, `blockClient.Fetch`, `Close` |
| `StartHandler`, `ReadRequest`, `RequestEnd`, `RequestIdle`, `ServeBlock`, `ServeError`, `ServeBlocked` | `Node.handleBlocks` and its time-outs |
| `LoseLink`, `LoseServer`, `LoseClient`, `AlterStock` | the world |

A holding is `held`, `absent`, `broken` (a reference whose file is gone or
changed: the handler resets the stream) or `large` (over the frame limit: the
handler returns). A deadline may expire whenever the operation it guards has not
finished. `fault` records that something other than the two programs went wrong,
`idled` that the handler's idle limit expired beside a client that is still
there (`RequestIdle`), which the puller can bring about alone by hashing a blob
between two Fetches.
A handler may outlive its client; `Forget` has it end before the next stream is
opened, which loses nothing since the two have no state in common.

### HubDownload

`copy`, `got` are `io.Copy` over the limited body, `age` is the time since the
stamp of `trackedReader`, `lap` the true time since the last read, `phase` the
watchdog's ticker, with `bodyIdleTimeout` three ticks. A refusal is an error of
the request (`RefuseDownload`) or a status (`RefuseStatus`), after which the body
is read with no watchdog yet (`ErrorBody`). `Pass` lets one unit of
time go by when nobody has anything to do but wait. It assumes what the property
needs and no more: a live server sends within `Gap`, a disk writes within
`Slow`, both at most the time-out.

### Transfer

`puller` is where `pull.Run` stands, `k` the candidate, `written` the temporary
file, `local` the roots in this node's blockstore, `blob` the file under its
final name, which may be there before the pull, whole, partial, or of the right
size with other content. `StartPull` ... `MapAnswered` are steps A to C,
`RootLocal` ... `StreamFailed` reconstruct and reconstructFile for one file,
`HubManifest` ... `HubReject` the fallback, and `Crash` ends the process, after
which the pull may be run again. `excused` (history) holds the candidates with
which something was wrong, `tardy` those whose handler the puller kept waiting
too long. The file is not empty: a zero-length one is created in place
(pull.go:464-486) with nothing to fetch, and is in `SharedCache`. The references, the mapping and the links of the same
operation are `SharedCache`'s subject; `written` holds CIDs, so that the digest
of the manifest is the sequence `Content`.

### Watcher

`dirs`, `head`, `snap` are the hub cache; `watched` and `queue` the kernel's
side of fsnotify, `known`, `pending`, `pc`, `todo`, `repo`, `sub` the watcher's;
`entry` is the mapping bucket, `record` the provider records. `WatchHub` ...
`AttachNext` are `trackExistingRepos` and `addRepoWatches`, one directory per
step, where the listing or `fw.Add` may fail and `missed` (history) then has the
directory until it is attached to; `TakeEvent`, `Flush` and `Rescan` are the cases of the select; `Visit` is
`tryIngest`, one step here; `Boot`, `BecomePublic` and `Reprovide` are the three
callers of `ReprovideAll`. Repositories are told apart by their directory;
`repoType` does not: with a model and a dataset of one name it always visits the
model.

## 3. Runs that pass

| Run | Instance | Shows |
| --- | --- | --- |
| `sharing` | 3 revisions, 2 repositories, a shared deep file; one handler and the watcher; peers and the Hub; `EvictAlone`; 3 requests, deletions, faults, crashes (1,143,427 states) | `TypeOK`, `TreeHeld`, `NoDanglingRef`, `EvictSparesMapped`, `EvictRemovesUnreferenced` |
| `hub_only` | 2 revisions of one repository that share a file none of whose chunks is its own, a zero-length file; Hub only; `EvictSolo`; 3 (1,001,242) | `ClosureHeld`, `KeepsCatalogue`, `EvictLeavesNothing`, `SharedBlobsServed` |
| `converge` | 2 revisions, a zero-length file; peers only; nothing kept apart; fairness; 3 (167,036) | `SettledSpared`, `SeenBlobsStay`, `EventuallyPruned`, `EventuallyShared` |
| `revision_dag` | up to 3 files, 3 levels, 5 contents | `Reassembled`, `AttachedFilesLocated` |
| `daemon` | 2 daemons, a pull, a worker, two shutdowns; deadlines that may expire; no kills (1,901,275) | `TypeOK`, `StoreFreeForLockHolder`, `ServingIsReachable`, `SuccessMeansDone` |
| `daemon_live` | 2 daemons, pull and shutdown, 1 kill; fairness (88,816) | `ServingIsReachable`, `SuccessMeansDone`, `EveryCommandEnds`, `ShutdownStops` |
| `transfer` | 2 candidates, one with another version of the file, 3 leaves in batches of 2, window 1, 1 loss or change of store, 2 pulls; fairness (584,873) | `FetchKeepsPromise`, `FallbackHasCause`, `OnlyWholeBlobs`, `LiveStreamKept`, `SilenceBounded`, `PullEnds`, `HandlerEnds` |
| `watcher` | 1 repository, 2 revisions, a queue of 2, 1 removal, failed watch, listing or announcement, expiry or lost peer; fairness (453,855) | `NoBlindSpot`, `EventLeadsToVisit`, `RescanConverges`, `AllAnnounced` |

`MaxIssued` bounds what is asked of the node or happens to it: requests,
retries with another provider, downloads, deletions, crashes. Three are enough
for a revision to be mapped, another that shares with it to come, and one of
them to be evicted or lost; the watcher's own work is not counted. All models may fall quiet, as the daemon
does, so that deadlock is not checked. In `hub_only` the two revisions share a
file both of whose chunks are also chunks of another: its blob may go while a
revision still has it, and `SharedBlobsServed` says what then remains; that the
blob stays, as evict.go has it, is refuted by `v_shared_blob`. In
`Daemon`, two shutdowns reach the double close of `Shutdown`, and `Symmetry`
exchanges daemons and shutdowns.

In `transfer`, a file of three leaves takes a full and a short batch, and has one
leaf twice; a window of 1 blocks the handler in the middle of a batch; one fault
beside any number of expired deadlines reaches every error path of both ends,
and a second pull comes after every end of the first, crashes included. In
`watcher`, a queue of 2 overflows, a removed repository is made again, a watch
that was refused is asked for again at the next event, and the second revision
comes while the first is pending or being visited. The watcher
treats its repositories alike and one after the other; that `NoBlindSpot` does
not depend on their number is proved.

Fairness. In `SharedCache` every goroutine goes on with what it began: stream
deadlines, the idle time-outs of the server and cancelled requests end every
wait in an error. `TryIngest(c)` and `PruneBegin` have strong fairness, since
each tick of the rescan ticker visits every repository and then all mappings,
and the watcher is a single goroutine that always returns to its select (with
`--rescan 0` this assumption does not hold). (The one wait without an end,
`ErrorBody` of `HubDownload`, is on the way from the Hub; `converge` is without
it.) In `Daemon` every process and handler goes on, so that `EveryCommandEnds` is
about the commands, given that their operations end; a daemon has to stop only once `Shutdown` is closed; nobody has
to start or kill one.

In `Transfer` goroutines run, a stream's deadlines expire, the idle and write
time-outs of the handler do too, and a server that has not fallen silent sends;
nothing is assumed of one that has, nor of faults and crashes: that `PullEnds`
leaves out a Hub that falls silent in the body of an error is not a matter of
fairness but of the code. In `Watcher` the
goroutine goes on with its work, the debounce window passes, and each case of
the select has strong fairness: Go chooses among the ready ones at random, and
both tickers keep firing. A node without peers finds one in the end.
`RescanConverges` and `AllAnnounced` speak of `--rescan` above 0;
`EventLeadsToVisit` does not use the rescan.

## 4. Where the code and its comments part

Each of these runs finds a counterexample to a statement in the repository;
`PROJECT.json` quotes it.

| Run | What happens |
| --- | --- |
| `v_rollback` | the rollback of a failed pull deletes references that an earlier, mapped revision relies on |
| `v_stale_keep` | an eviction deletes blocks of a revision that was mapped after its keep set was taken |
| `v_shared_blob` | an eviction removes a blob that another mapped revision links to, because the references of its chunks lead to another repository's copy |
| `v_detached_dir` | a file below a directory without files of its own is not in the announced tree |

The actions also allow the following, which no run of the project reports:

* a snapshot that is visited between two links of a download is complete as far
  as it goes; it is shared with the files it has and, being mapped, never
  ingested again (`TryIngest` of `Watcher`);
* a node of the tree that cannot be stored is logged and no more: the pull maps
  and announces a revision whose tree the node does not have (`ReadThrough`,
  pull.go:719-723), and nothing mends it but a forced pull or an ingest.
  `TreeHeld` and `TreeSafe` except such a revision by name (`holed`);
* a Hub that answers with an error status and falls silent in its body holds the
  pull for ever (`ErrorBody`, hfapi.go:242-244), where the comment on `Download`
  speaks of a liveness bound on the body: the watchdog starts only after it.
  `PullEnds` excepts it;
* a puller that hashes a large blob in place between two fetches (pull.go:448)
  lets the one-minute idle limit of its peer expire (node.go:742-754), loses the
  stream and with it a candidate that was all right (`RequestIdle`).
  `FallbackHasCause` names it as a cause (`tardy`);
* a directory for which `fw.Add` failed, at the limit on watches for one, is
  tried again only at the repository's next event, which it may itself be the
  reason not to see (`Attach`, watch.go:277-280); a listing that fails at start
  leaves all repositories so (`ListHub`). `NoBlindSpot` excepts these
  directories (`missed`), and they are left to the rescan;
* a rollback discards the error of a deletion, and the reference to a file that
  was never placed stays (`PullUndo`, pull.go:520);
* an eviction removes refs/main by name after it has looked at it, whatever it
  holds by then (`EvictRemoveRef`);
* a repository that was deleted and made again is no longer watched, since
  `known` still has it, and is left to the rescan (`Attach`);
* the Hub's turn takes a file of the right size for the right one
  (`HubCached`), where a pull from peers compares the digest;
* a pull that finds a blob in place (`PullFile`) maps and announces the revision
  without the file's chunks, so that `ClosureHeld` holds for the Hub only;
* a zero-length file has no reference, and its blob goes with the first
  revision that has it (`EvictBlob`);
* a rescan between `PullMap` and the first `WriteLink` evicts what was just
  pulled (`PruneBegin`);
* a pull during a daemon's start-up ends on the repo lock (`Recheck`), where the
  top-level README says it goes through a daemon;
* a daemon that stops leaves running commands without done or error (`Leave`);
* two shutdowns at once close the channel twice and the daemon panics
  (`CloseShutdown`).

## 5. Proofs

`SharedCacheProofs`, for every layout, any number of handlers, any set of
operations:

* `TypeCorrect`: `Spec => []TypeOK`. Not inductive by itself: what a field of a
  task holds depends on its program counter (`TasksOK`).
* `TreeSafe`: `Spec /\ []Exclusion => []TreeHeld`. `Exclusion` says that no
  eviction is under way beside a pull or an ingest. It is a condition on the
  behaviour and not on the program: the code has no such lock, and the theorem
  is about those of its behaviours, `Conflicts = {}` included, in which it so
  happens, as when nothing is evicted or pruned. The inductive invariant
  `IndInv` adds `Built` (which nodes a pull or an ingest has put in place at each
  point, so that its Mapping.Put records a complete tree) and `Spared` (an
  eviction has another mapped revision still to walk, or has its tree in the
  keep set, or will not delete from it). Rollbacks are harmless to it because
  they delete raw leaves only. A store that fails is in it: what a pull could not
  put is in `lost`, and a revision it maps with such a node is `holed`, which is
  all that `TreeHeld` excepts. `v_stale_keep` shows that the condition cannot be
  dropped.

`EvictProofs`, on top of that:

* `SeenBlobsAreKept`: `Spec => SeenBlobsStay`, with **no condition**. A path an
  eviction has found stays in its list, a scan finds every reference there is,
  and a crash ends the eviction (`SeenStep`).
* `EvictionsSpareOthers`: `Spec /\ []Exclusion => EvictSparesMapped`, and
  `EvictionsKeepReferencedBlobs`: the same for `EvictRemovesUnreferenced`. The
  invariant `ReachInv` (theorem `ReachSafe`) adds to `IndInv` that everything
  reachable from another mapped revision is in the keep set or has yet to be
  walked (`WalkSpared`, where `Spared` speaks of the tree alone), and that while
  blobs are removed every reference is among the paths found (`RefsListed`).
  The sets an eviction collected stay right because beside it nothing is added
  to the store (`ShrinkStep`) and a walk through fewer blocks reaches less
  (`WalkMonotone`); without the condition both fail.
* `NoRefLeftDangling`: `Spec /\ []Exclusion => NoDanglingRef`. No invariant of
  its own: beside a reference that a step writes (`WhoRefers`) and a file that a
  step removes (`WhoUnlinks`) there is the pull that registered ahead of its
  file. A reference such a pull answers for stays answered for (`Covers`,
  `CoverStep`) until the file is placed or the rollback has taken the reference
  back; evictions remove unlisted paths only (`RefsListed`).

`ClosureProofs`, on top of both. Of every behaviour of the program:

* `AlwaysHonest`: `Spec => []HonestInv`: a reference leads to the path of a
  published file that has the chunk (`RefsTrue`), a leaf is in one bucket only
  (`StoredOnce`: EvictDelete, like the filestore, deletes from one), mappings and
  links name files of their revision (`Published`). It is inductive with what
  each task works from (`TaskHonest`).
* `SettledAreSpared`: `Spec => SettledSpared`. `Guarded(o)` is the inductive part:
  the nodes of `o` are there, and each eviction under way has `o` still to walk,
  or has all of it in its keep set, or will delete nothing of it (`GuardedStep`).
  Whatever runs beside it only adds blocks, or takes raw leaves (`WhoDeletes`),
  so that the walk through `o` is whole when the eviction comes to it
  (`WalkWhole`). `SettledKeepsNodes` says the same without the evictions' inner
  state: a mapped revision all of whose nodes are there at a time when no
  eviction is between its listing and its last deletion has them for as long as
  it stays mapped as it is. `SettledStaysWhole` adds the leaves, when no pull is
  from a peer, since then nothing rolls back. Together with `v_stale_keep` this
  says what an eviction without a lock puts at risk: a revision that is mapped
  while it sweeps, and none that was whole before.

Of behaviours in which, besides `[]Exclusion`, no pull is from a peer
(`[]NoPeerPulls`):

* `ClosureSafe`: `[]ClosureHeld`. `ClosureInv` adds to `ReachInv` what an ingest
  has put in place so far, leaves included (`Ingested`). Pulls from peers have to
  be excluded: they take a blob found in place for granted (section 4), and roll
  back. `NothingTakenWithoutPeers` is the consequence for
  `NothingTakenFromMapped`, which `v_rollback` refutes of pulls from peers.
* `SharedBlobsAreServed`: `SharedBlobsServed`, for every layout. evict.go takes it
  for granted that the blob of a file another revision shares has a reference of
  its own; `v_shared_blob` shows that it need not. What holds is that a blob which
  goes is not needed for serving: every chunk of it is held, because the other
  revision is held whole (`ClosureInv`), and its reference leads elsewhere, or
  the path would be among those the eviction found (`RefsListed`). The hub cache
  loses the file; the swarm does not lose its content.

Of those in which no two evictions overlap either (`[]OneEviction`):

* `EvictionsLeaveNothing`: `EvictLeavesNothing`. `LeftoverInv` says of the single
  eviction that its lists agree with the mapping bucket, that what it keeps is in
  the closure of another mapped revision, and that what it has not deleted it is
  still to delete or another one needs (`Target`). Its walk misses nothing
  because the revision is held whole (`WalkWhole`). Two evictions at once may
  each keep what their revisions share and leave it behind.
* `NodeIsCatalogue`: `KeepsCatalogue`, the refinement of `Catalogue`. Every step
  that stores nothing or only adds is a `Gain` or a stutter (`AsideGains`);
  Mapping.Put is an `Offer` because of `Ingested` and because nothing is evicted
  beside it (`MapOffers`); deletions are `Drop`s because they are from the
  target's closure (`Target`) and leave `ClosureHeld` true (`DeleteDrops`);
  Mapping.Delete is a clean `Retract` (`UnmapRetracts`); failures and crashes are
  `Interrupt`s.

And where these conditions hold:

* `WatchingNode`: assuming that no request is handled (`Handlers = {}`), the
  program as it is, without a lock, implements `Catalogue`, and `TreeHeld`,
  `ClosureHeld`, `NothingTakenFromMapped`, `EvictLeavesNothing`,
  `EvictRemovesUnreferenced`, `SharedBlobsServed` and `NoDanglingRef` hold of it.
  The watcher ingests and prunes on one goroutine, so that it never meets itself
  (`OneGoroutine`), and only handlers pull (`WatcherPullsNothing`).

`DaemonProofs`, for any number of processes and kills, without further
assumption:

* `DaemonTypes`, `StoreSafe`, `SocketSafe`, `NoFalseSuccess`: the four
  invariants of run `daemon`. The invariant says that the flock brackets
  everything: a process at a point between AcquireLock and Unlock holds it
  (`Owned`), has the store open only strictly inside (`Opened`), has a listener
  only while it serves (`Listening`), and a done event means a finished
  operation (`Answered`).

`BlockStreamProofs`, for every set of CIDs, batch size, server limit and window:

* `StreamKeepsPromise`: `StreamSpec => Promise!FetchSpec`, the refinement. The
  invariant `Aligned` (theorem `StreamAligned`) says that while the client waits,
  what it has read, what is on its way and what the handler has yet to write
  are, put together, the batch in its order, each answer true of `seen`
  (`InStep`), and that between calls nothing is on its way (`Quiet`).

`HubDownloadProofs`, for every tick, gap, disk and size within `TimeAssumption`:

* `NeverCutsLiveStream`, `BoundsSilence`: by `WatchInv`, in which `age = lap`
  (the stamp is true) and `age` exceeds the time-out only within one interval
  of the ticker before it is looked at.

`TransferProofs`, for every content, list of offers and number of runs:

* `PullFetchesTruth`, `PullKeepsLiveStream`, `PullBoundsSilence`: every step of a
  pull is a step or a stutter of each of its parts, so that their invariants
  carry over (`PartsInv`).
* `HubOnlyWithCause`: by `CauseInv`. As long as no fault was met on a stream its
  peer has everything and its handler is there (`Healthy`), answers are true
  (`Returned`), so that each batch can be used and what is written is a prefix
  of the offer (`Progress`); a candidate is left without an excuse only where
  that is contradicted, and those left before have one (`Causes`). A handler that
  was kept waiting for over its idle limit is the one thing that can go wrong
  between the two programs themselves, and counts as the puller's (`tardy`).
* `PullPlacesWholeBlobs`: the action property `OnlyWholeBlobs`, from the same.

`WatcherProofs`, for any number of repositories and any queue:

* `WatcherNotBlind`: by `BlindInv`. A directory that exists is watched, or its
  repository has an event queued, or the watcher is on its way to it, also in
  the loops over the first listing (`AllCovered`), or it or its parent could not
  be attached to and is in `missed`; it needs that the hub
  directory is watched before it is listed (`HubFirst`), that the belief `known`
  is true but for removed repositories (`KnownWatched`), and that directories
  are nested (`Nested`).

Assumptions on constants are `LayoutAssumption`, `DagAssumption`,
`TaskAssumption`, `ProcAssumption`, `BatchAssumption`, `WindowAssumption`,
`StockAssumption`, `FaultAssumption`, `TimeAssumption`, `SizeAssumption`,
`OfferAssumption` and `WatcherAssumption`; TLC evaluates them in the runs.
`BatchAssumption` holds of the code by its constants: 64 leaves to a batch, 1024
accepted. Only model-checked: liveness, which is out of the prover's reach
(`EventuallyPruned`, `EventuallyShared`, `EveryCommandEnds`, `ShutdownStops`,
`PullEnds`, `HandlerEnds`, `EventLeadsToVisit`, `RescanConverges`,
`AllAnnounced`), and `RevisionDag` (`Reassembled`, `AttachedFilesLocated`), whose
functions are recursive. Every other invariant and action property of a passing
run is stated by a theorem.

## 6. Not modelled, and the plan

Left out for good: `config` (values read once), `identity` (a key file),
`dummy` (one to one), `trees/<commit>.json` and path checks of `hfcache`, URLs
and authentication of `hfapi`, batches and queries of the datastore adapter, and
the libp2p set-up of `node` (address filters, relays, dialling), which configures
external libraries. What is left to do:

1. `Swarm`: several nodes, each a `Catalogue`, and the pullers that ask them; the
   files behind the references, as a puller sees them.
2. What remains true of `Catalogue` for a node with peers: a weaker promise, of
   the tree alone (`TreeSafe` and `SettledKeepsNodes` are what it would rest on).
