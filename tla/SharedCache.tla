---------------------------- MODULE SharedCache ----------------------------
(***************************************************************************)
(* The state one swarmface node shares between its goroutines, and every   *)
(* operation that changes it:                                              *)
(*   - the bbolt store: the mapping bucket (commit -> manifest), the       *)
(*     blocks bucket (MainBS: dag-pb nodes and the zero-length leaf) and   *)
(*     the filestore bucket (leaf CID -> blob file that holds its bytes);  *)
(*   - the Hugging Face hub cache: blob files, snapshot links, refs/main.  *)
(* The control-socket handlers (pull, ingest, evict) and the watcher       *)
(* (ingest, prune) are goroutines with no lock between them: each step     *)
(* below is one bbolt transaction or one file-system call, and the steps   *)
(* of all tasks interleave.  The hf CLI and the user change the hub cache  *)
(* behind the node's back.                                                 *)
(*                                                                         *)
(* A file is identified with its content (its blob name is its hash), a    *)
(* CID with what it hashes; chunk offsets, paths inside a snapshot,        *)
(* trees/<commit>.json and the DHT are left out of this module.            *)
(***************************************************************************)
EXTENDS Naturals

CONSTANTS
    Repos,        \* repository directories of the hub cache
    Commits,      \* revisions
    Files,        \* file contents
    Raw,          \* CIDs of raw leaves
    Pb,           \* CIDs of dag-pb nodes
    None,         \* no commit, no file, no path
    RepoOf,       \* the repository of a revision
    FilesOf,      \* the files of a revision, as published
    FileCid,      \* the root of a file's DAG
    DirCid,       \* the directory node over a set of files
    Links,        \* the links of a dag-pb node
    EmptyLeaves,  \* the zero-length leaf, when some file is empty
    Handlers,     \* control-socket connections being handled
    Watcher,      \* the watcher goroutine
    Ops,          \* the operations issued
    Sources,      \* where pulls may fetch from (--from)
    Conflicts,    \* pairs of operations never run at once; {} in the code
    MaxIssued     \* bound on requests, retries, user actions, crashes

Tasks == Handlers \cup {Watcher}
Cids  == Raw \cup Pb
Paths == Repos \X Files
Kinds == {"ingest", "pull", "relink", "evict"}

ASSUME LayoutAssumption ==
    /\ RepoOf  \in [Commits -> Repos]
    /\ FilesOf \in [Commits -> SUBSET Files]
    /\ \A c \in Commits : FilesOf[c] # {}
    /\ None \notin Commits \cup Files \cup Paths

(* What is reached from the CIDs X by one link of the nodes in bs.         *)
Below(X, bs) == X \cup UNION {Links[x] : x \in X \cap bs \cap Pb}

(* A file's DAG, as balanced.Layout builds it: a lone leaf, or a root over *)
(* leaves, or a root over interior nodes over leaves.                      *)
FileDag == [f \in Files |-> Below(Below({FileCid[f]}, Pb), Pb)]
Chunks  == [f \in Files |-> FileDag[f] \cap Raw]
Inner   == [f \in Files |-> (FileDag[f] \cap Pb) \ {FileCid[f]}]

ASSUME DagAssumption ==
    /\ Raw \cap Pb = {}
    /\ FileCid \in [Files -> Cids]
    /\ DirCid  \in [SUBSET Files -> Pb]
    /\ Links   \in [Pb -> SUBSET Cids]
    /\ \A S \in SUBSET Files : Links[DirCid[S]] = {FileCid[f] : f \in S}
    /\ \A f \in Files : Below(FileDag[f], Pb) = FileDag[f] /\ Chunks[f] # {}
    /\ EmptyLeaves \subseteq Raw
    /\ \A f \in Files : Chunks[f] \cap EmptyLeaves # {}
                            => FileCid[f] \in EmptyLeaves

ASSUME TaskAssumption ==
    /\ Watcher \notin Handlers
    /\ Ops \subseteq {"ingest", "pull", "relink", "evict", "prune",
                      "download", "delete", "fault", "crash"}
    /\ Sources \subseteq {"p2p", "hf"} /\ Sources # {}
    /\ Conflicts \subseteq Kinds \X Kinds
    /\ \A k, l \in Kinds : <<k, l>> \in Conflicts => <<l, k>> \in Conflicts
    /\ MaxIssued \in Nat

VARIABLES
    entry,   \* mapping bucket: commit -> manifest, {} when there is none
    blocks,  \* blocks bucket
    fref,    \* filestore bucket: leaf -> blob path, or None
    disk,    \* blob files in place under their final name
    links,   \* snapshots/<commit>: the files linked, {} when no directory
    ref,     \* refs/main of each repository
    task,    \* what each goroutine is doing
    issued,  \* requests, retries, user actions and crashes so far
    torn,    \* revisions whose eviction was cut short (history)
    holed    \* revisions a pull mapped without a node of their tree (history)

store == <<entry, blocks, fref>>
hub   == <<disk, links, ref>>
vars  == <<entry, blocks, fref, disk, links, ref, task, issued, torn, holed>>

-----------------------------------------------------------------------------
(* Tasks                                                                   *)

Manifests == [Commits -> SUBSET Files]
NoEntries == [c \in Commits |-> {}]

Blank == [op     |-> "none",     \* the operation, for Conflicts
          pc     |-> "idle",
          commit |-> None,
          man    |-> {},         \* the manifest worked from
          listed |-> NoEntries,  \* entries still to evict or prune
          others |-> NoEntries,  \* entries evict.Commit has yet to walk
          keep   |-> {},         \* CIDs evict.Commit must keep
          paths  |-> {},         \* blob paths evict.Commit found referenced
          files  |-> {},         \* files the current loop has left
          file   |-> None,       \* the file being added or reconstructed
          cids   |-> {},         \* CIDs the current loop has left
          reg    |-> {},         \* leaves reconstructFile has registered
          lost   |-> {}]         \* nodes fetched that could not be stored

PCs == {"idle", "peer", "file", "empty", "leaves", "chunk", "undo",
        "link", "hf", "download", "hflink", "read", "add", "leaf", "imap",
        "next", "others", "keep", "delete", "blobs", "unlink", "unref", "rmref"}

TaskStates == [op     : Kinds \cup {"none"},
               pc     : PCs,
               commit : Commits \cup {None},
               man    : SUBSET Files,
               listed : Manifests,
               others : Manifests,
               keep   : SUBSET Cids,
               paths  : SUBSET Paths,
               files  : SUBSET Files,
               file   : Files \cup {None},
               cids   : SUBSET Cids,
               reg    : SUBSET Raw,
               lost   : SUBSET Pb]

Set(t, r)   == task' = [task EXCEPT ![t] = r]
At(t, l)    == task[t].pc = l
Repo(t)     == RepoOf[task[t].commit]
Blob(t, f)  == <<Repo(t), f>>

(* Something is asked of the node or happens to it.                        *)
Issue == issued < MaxIssued /\ issued' = issued + 1

(* The store or the file system fails it.                                  *)
Fault == "fault" \in Ops /\ Issue

(* A goroutine takes up an operation.  Nothing in the code keeps two       *)
(* operations apart: Conflicts = {} is the program.                        *)
Admitted(t, k) ==
    /\ At(t, "idle")
    /\ \A u \in Tasks : <<k, task[u].op>> \notin Conflicts

-----------------------------------------------------------------------------
(* The blockstore, as boxo's filestore presents it to the node             *)

Held(x) == x \in blocks \/ (x \in Raw /\ fref[x] # None)

(* Fstore.Put of a leaf read from path p: nothing when the CID is known.   *)
PutLeaf(x, p) ==
    \/ /\ Held(x)
       /\ UNCHANGED <<blocks, fref>>
    \/ /\ ~Held(x) /\ x \in EmptyLeaves
       /\ blocks' = blocks \cup {x}
       /\ UNCHANGED fref
    \/ /\ ~Held(x) /\ x \notin EmptyLeaves
       /\ fref' = [fref EXCEPT ![x] = p]
       /\ UNCHANGED blocks

(* Fstore.DeleteBlock                                                      *)
DeleteBlock(x) ==
    /\ blocks' = blocks \ {x}
    /\ fref' = [y \in Raw |-> IF y = x THEN None ELSE fref[y]]

(* The file's root when it is a dag-pb node.                               *)
NodeOf(f) == {FileCid[f]} \cap Pb

(* What findNode walks to locate the files S: the directory, their roots.  *)
Tree(S) == {DirCid[S]} \cup UNION {NodeOf(f) : f \in S}

(* readThrough.Get of the nodes X: those not in the store are fetched and  *)
(* put there.  A Put that fails is logged, and the node used all the same. *)
ReadThrough(h, X, r) ==
    \/ /\ blocks' = blocks \cup X
       /\ Set(h, [r EXCEPT !.lost = @ \ X])
       /\ UNCHANGED issued
    \/ /\ Fault
       /\ \E L \in (SUBSET (X \ blocks)) \ {{}} :
            /\ blocks' = blocks \cup (X \ L)
            /\ Set(h, [r EXCEPT !.lost = (@ \ X) \cup L])

(* evict.walk: what is reached from the root through blocks in bs; and the *)
(* whole DAG.                                                              *)
Walk(S, bs) == Below(Below(Below({DirCid[S]}, bs), bs), bs)
Closure(S)  == Walk(S, Pb)

(* hfcache.SnapshotComplete.  (The code also says yes to a snapshot that   *)
(* holds nothing but empty directories, which nothing here writes.)        *)
SnapshotComplete(c) ==
    /\ links[c] # {}
    /\ \A f \in links[c] : <<RepoOf[c], f>> \in disk
-----------------------------------------------------------------------------
(* pull.Run on a handler                                                   *)

(* The revision is not mapped, or --force was given.                       *)
PullBegin(h, c) ==
    /\ "pull" \in Ops /\ Admitted(h, "pull") /\ Issue
    /\ Set(h, [Blank EXCEPT !.op = "pull", !.commit = c,
                            !.pc = IF "p2p" \in Sources THEN "peer" ELSE "hf"])
    /\ UNCHANGED <<store, hub, torn, holed>>

(* Mapped with an incomplete snapshot: WriteSnapshot from the entry.  (When *)
(* the snapshot is complete the pull returns and changes nothing.)         *)
PullRelink(h, c) ==
    /\ "relink" \in Ops /\ Admitted(h, "relink") /\ Issue
    /\ entry[c] # {} /\ ~SnapshotComplete(c)
    /\ Set(h, [Blank EXCEPT !.op = "relink", !.commit = c, !.pc = "link",
                            !.man = entry[c], !.files = entry[c]])
    /\ UNCHANGED <<store, hub, torn, holed>>

(* A provider answered the map request and served the root.                *)
PullRoot(h) ==
    /\ At(h, "peer")
    /\ LET S == FilesOf[task[h].commit] IN
         ReadThrough(h, {DirCid[S]},
                     [task[h] EXCEPT !.pc = "file", !.man = S, !.files = S])
    /\ UNCHANGED <<entry, fref, hub, torn, holed>>

(* findNode reads the directory again and the file's root, if that is a    *)
(* dag-pb node.                                                            *)
FindNode(h, f, r) == ReadThrough(h, {DirCid[task[h].man]} \cup NodeOf(f), r)

(* Mutant: a blob already in place is not looked up in the tree.           *)
PullFileCachedFirst(h, f) ==
    /\ At(h, "file") /\ f \in task[h].files
    /\ \/ /\ Blob(h, f) \in disk
          /\ Set(h, [task[h] EXCEPT !.files = @ \ {f}])
          /\ UNCHANGED <<blocks, issued>>
       \/ /\ Blob(h, f) \notin disk
          /\ FindNode(h, f, [task[h] EXCEPT !.pc = "leaves", !.file = f,
                                            !.cids = Inner[f], !.reg = {}])
    /\ UNCHANGED <<entry, fref, hub, torn, holed>>

(* findNode, then reconstructFile, which skips a blob already in place,    *)
(* creates an empty one, or enumerates the file's leaves.                  *)
PullFile(h, f) ==
    /\ At(h, "file") /\ f \in task[h].files
    /\ \/ /\ Blob(h, f) \in disk
          /\ FindNode(h, f, [task[h] EXCEPT !.files = @ \ {f}])
          /\ UNCHANGED disk
       \/ /\ Blob(h, f) \notin disk /\ FileCid[f] \in EmptyLeaves
          /\ FindNode(h, f, [task[h] EXCEPT !.pc = "empty", !.file = f])
          /\ disk' = disk \cup {Blob(h, f)}
       \/ /\ Blob(h, f) \notin disk /\ FileCid[f] \notin EmptyLeaves
          /\ FindNode(h, f, [task[h] EXCEPT !.pc = "leaves", !.file = f,
                                            !.cids = Inner[f], !.reg = {}])
          /\ UNCHANGED disk
    /\ UNCHANGED <<entry, fref, links, ref, torn, holed>>

PullEmpty(h) ==
    /\ At(h, "empty")
    /\ blocks' = blocks \cup {FileCid[task[h].file]}
    /\ Set(h, [task[h] EXCEPT !.pc = "file", !.files = @ \ {task[h].file},
                              !.file = None])
    /\ UNCHANGED <<entry, fref, hub, torn, holed, issued>>

(* collectLeaves reads each interior node.                                 *)
PullInner(h, x) ==
    /\ At(h, "leaves") /\ x \in task[h].cids
    /\ ReadThrough(h, {x}, [task[h] EXCEPT !.cids = @ \ {x}])
    /\ UNCHANGED <<entry, fref, hub, torn, holed>>

PullLeaves(h) ==
    /\ At(h, "leaves") /\ task[h].cids = {}
    /\ Set(h, [task[h] EXCEPT !.pc = "chunk", !.cids = Chunks[task[h].file]])
    /\ UNCHANGED <<store, hub, torn, holed, issued>>

(* One verified chunk: RegisterFilestoreRef against the final blob path.   *)
PullChunk(h, x) ==
    /\ At(h, "chunk") /\ x \in task[h].cids
    /\ PutLeaf(x, Blob(h, task[h].file))
    /\ Set(h, [task[h] EXCEPT !.cids = @ \ {x}, !.reg = @ \cup {x}])
    /\ UNCHANGED <<entry, hub, torn, holed, issued>>

(* Digest and size agree: rename, chmod.  A failing chmod rolls back too.  *)
PullPlace(h) ==
    /\ At(h, "chunk") /\ task[h].cids = {}
    /\ disk' = disk \cup {Blob(h, task[h].file)}
    /\ \/ Set(h, [task[h] EXCEPT !.pc = "file", !.files = @ \ {task[h].file},
                                 !.file = None, !.reg = {}])
       \/ Set(h, [task[h] EXCEPT !.pc = "undo", !.cids = task[h].reg])
    /\ UNCHANGED <<store, links, ref, torn, holed, issued>>

(* The peers could not deliver: the Hub, if it is a source, or an error.   *)
Fallback(h) == IF "hf" \in Sources
                 THEN [Blank EXCEPT !.op = "pull", !.commit = task[h].commit,
                                    !.pc = "hf"]
                 ELSE Blank

(* This provider is done with: the next one, or no provider is left.       *)
GiveUp(h) ==
    \/ /\ Issue
       /\ Set(h, [Blank EXCEPT !.op = "pull", !.commit = task[h].commit,
                               !.pc = "peer"])
    \/ /\ Set(h, Fallback(h))
       /\ UNCHANGED issued

(* No provider, a stream error, a missing or corrupt block, a bad digest,  *)
(* a cancelled context.  Inside a file's chunk loop: rollback.             *)
PullFail(h) ==
    /\ \/ /\ At(h, "chunk")
          /\ Set(h, [task[h] EXCEPT !.pc = "undo", !.cids = task[h].reg])
          /\ UNCHANGED issued
       \/ /\ At(h, "peer") \/ At(h, "file") \/ At(h, "empty") \/ At(h, "leaves")
          /\ GiveUp(h)
    /\ UNCHANGED <<store, hub, torn, holed>>

(* Mutant: rollback forgets to unregister.                                 *)
PullUndoKeepsRefs(h, x) ==
    /\ At(h, "undo") /\ x \in task[h].cids
    /\ Set(h, [task[h] EXCEPT !.cids = @ \ {x}])
    /\ UNCHANGED <<store, hub, torn, holed, issued>>

(* rollback: unregister one chunk.  The error of a deletion that fails is  *)
(* discarded, and the reference stays.                                     *)
PullUndo(h, x) ==
    /\ At(h, "undo") /\ x \in task[h].cids
    /\ \/ DeleteBlock(x) /\ UNCHANGED issued
       \/ Fault /\ UNCHANGED <<blocks, fref>>
    /\ Set(h, [task[h] EXCEPT !.cids = @ \ {x}])
    /\ UNCHANGED <<entry, hub, torn, holed>>

PullUndone(h) ==
    /\ At(h, "undo") /\ task[h].cids = {}
    /\ GiveUp(h)
    /\ UNCHANGED <<store, hub, torn, holed>>

(* Every file in place: Mapping.Put; then ProvideCommit, which may take    *)
(* long, before WriteSnapshot begins.                                      *)
PullMap(h) ==
    /\ At(h, "file") /\ task[h].files = {}
    /\ entry' = [entry EXCEPT ![task[h].commit] = task[h].man]
    /\ torn' = torn \ {task[h].commit}
    /\ holed' = (holed \ {task[h].commit})
                  \cup {c \in {task[h].commit} :
                          Tree(task[h].man) \cap task[h].lost # {}}
    /\ Set(h, [task[h] EXCEPT !.pc = "link", !.files = task[h].man])
    /\ UNCHANGED <<blocks, fref, hub, issued>>

(* pullFromHF: the revision's file list, then each blob (already cached, or *)
(* downloaded, verified and renamed into place).                           *)
HfManifest(h) ==
    /\ At(h, "hf")
    /\ LET S == FilesOf[task[h].commit] IN
         Set(h, [task[h] EXCEPT !.pc = "download", !.man = S, !.files = S])
    /\ UNCHANGED <<store, hub, torn, holed, issued>>

HfFetch(h, f) ==
    /\ At(h, "download") /\ f \in task[h].files
    /\ disk' = disk \cup {Blob(h, f)}
    /\ Set(h, [task[h] EXCEPT !.files = @ \ {f}])
    /\ UNCHANGED <<store, links, ref, torn, holed, issued>>

HfFetched(h) ==
    /\ At(h, "download") /\ task[h].files = {}
    /\ Set(h, [task[h] EXCEPT !.pc = "hflink", !.files = task[h].man])
    /\ UNCHANGED <<store, hub, torn, holed, issued>>

HfFail(h) ==
    /\ At(h, "hf") \/ At(h, "download")
    /\ Set(h, Blank)
    /\ UNCHANGED <<store, hub, torn, holed, issued>>

(* hfcache.WriteSnapshot: one link per file, each only over a blob that    *)
(* exists, then the ref; a Hub pull goes on to ingest.Run.  A link that    *)
(* cannot be made sends a pull from peers to the Hub.                      *)
WriteLink(h, f) ==
    /\ At(h, "link") \/ At(h, "hflink")
    /\ f \in task[h].files
    /\ \/ /\ Blob(h, f) \in disk
          /\ links' = [links EXCEPT ![task[h].commit] = @ \cup {f}]
          /\ Set(h, [task[h] EXCEPT !.files = @ \ {f}])
       \/ /\ Blob(h, f) \notin disk
          /\ Set(h, IF At(h, "link") /\ task[h].op = "pull" THEN Fallback(h)
                                                           ELSE Blank)
          /\ UNCHANGED links
    /\ UNCHANGED <<store, disk, ref, torn, holed, issued>>

WriteRef(h) ==
    /\ At(h, "link") \/ At(h, "hflink")
    /\ task[h].files = {}
    /\ ref' = [ref EXCEPT ![Repo(h)] = task[h].commit]
    /\ Set(h, IF At(h, "hflink") THEN [task[h] EXCEPT !.pc = "read", !.man = {}]
                                 ELSE Blank)
    /\ UNCHANGED <<store, disk, links, torn, holed, issued>>

-----------------------------------------------------------------------------
(* ingest.Run, on a handler or on the watcher                              *)

(* `ingest` on the control socket: any revision that is named.             *)
IngestBegin(h, c) ==
    /\ "ingest" \in Ops /\ Admitted(h, "ingest") /\ Issue
    /\ Set(h, [Blank EXCEPT !.op = "ingest", !.commit = c, !.pc = "read"])
    /\ UNCHANGED <<store, hub, torn, holed>>

(* Mutant: what is shared already is looked up by repository.              *)
TryIngestPerRepo(c) ==
    /\ "ingest" \in Ops /\ Admitted(Watcher, "ingest")
    /\ ref[RepoOf[c]] = c /\ SnapshotComplete(c)
    /\ \A o \in Commits : RepoOf[o] = RepoOf[c] => entry[o] = {}
    /\ Set(Watcher, [Blank EXCEPT !.op = "ingest", !.commit = c,
                                  !.pc = "read"])
    /\ UNCHANGED <<store, hub, torn, holed, issued>>

(* Watcher.tryIngest, from a flush or a scan, which come round for as long *)
(* as the daemon runs: refs/main names a finalized, unshared revision.     *)
TryIngest(c) ==
    /\ "ingest" \in Ops /\ Admitted(Watcher, "ingest")
    /\ ref[RepoOf[c]] = c /\ entry[c] = {} /\ SnapshotComplete(c)
    /\ Set(Watcher, [Blank EXCEPT !.op = "ingest", !.commit = c,
                                  !.pc = "read"])
    /\ UNCHANGED <<store, hub, torn, holed, issued>>

(* ReadSnapshot: an error when a link dangles or there is nothing to read. *)
IngestRead(t) ==
    /\ At(t, "read")
    /\ LET c == task[t].commit IN
         IF SnapshotComplete(c)
           THEN Set(t, [task[t] EXCEPT !.pc = "add", !.man = links[c],
                                       !.files = links[c]])
           ELSE Set(t, Blank)
    /\ UNCHANGED <<store, hub, torn, holed, issued>>

(* Mutant: a blob that is gone is passed over.                             *)
IngestOpenSkips(t, f) ==
    /\ At(t, "add") /\ f \in task[t].files
    /\ IF Blob(t, f) \in disk
         THEN Set(t, [task[t] EXCEPT !.pc = "leaf", !.file = f,
                                     !.cids = FileDag[f] \ NodeOf(f)])
         ELSE Set(t, [task[t] EXCEPT !.files = @ \ {f}])
    /\ UNCHANGED <<store, hub, torn, holed, issued>>

(* addFileNocopy: open the blob; balanced.Layout adds the leaves and the   *)
(* interior nodes, and the root last.                                      *)
IngestOpen(t, f) ==
    /\ At(t, "add") /\ f \in task[t].files
    /\ IF Blob(t, f) \in disk
         THEN Set(t, [task[t] EXCEPT !.pc = "leaf", !.file = f,
                                     !.cids = FileDag[f] \ NodeOf(f)])
         ELSE Set(t, Blank)
    /\ UNCHANGED <<store, hub, torn, holed, issued>>

(* Mutant: the reference leads to the snapshot link, not to the blob.      *)
IngestLeafAtLink(t, x) ==
    /\ At(t, "leaf") /\ x \in task[t].cids
    /\ PutLeaf(x, <<task[t].commit, task[t].file>>)
    /\ Set(t, [task[t] EXCEPT !.cids = @ \ {x}])
    /\ UNCHANGED <<entry, hub, torn, holed, issued>>

IngestLeaf(t, x) ==
    /\ At(t, "leaf") /\ x \in task[t].cids
    /\ PutLeaf(x, Blob(t, task[t].file))
    /\ Set(t, [task[t] EXCEPT !.cids = @ \ {x}])
    /\ UNCHANGED <<entry, hub, torn, holed, issued>>

IngestInner(t, x) ==
    /\ At(t, "leaf") /\ x \in task[t].cids
    /\ blocks' = blocks \cup {x}
    /\ Set(t, [task[t] EXCEPT !.cids = @ \ {x}])
    /\ UNCHANGED <<entry, fref, hub, torn, holed, issued>>

IngestNode(t) ==
    /\ At(t, "leaf") /\ task[t].cids = {}
    /\ blocks' = blocks \cup NodeOf(task[t].file)
    /\ Set(t, [task[t] EXCEPT !.pc = "add", !.files = @ \ {task[t].file},
                              !.file = None])
    /\ UNCHANGED <<entry, fref, hub, torn, holed, issued>>

(* buildDir, then Mapping.Put.                                             *)
IngestDir(t) ==
    /\ At(t, "add") /\ task[t].files = {}
    /\ blocks' = blocks \cup {DirCid[task[t].man]}
    /\ Set(t, [task[t] EXCEPT !.pc = "imap"])
    /\ UNCHANGED <<entry, fref, hub, torn, holed, issued>>

IngestMap(t) ==
    /\ At(t, "imap")
    /\ entry' = [entry EXCEPT ![task[t].commit] = task[t].man]
    /\ torn' = torn \ {task[t].commit}
    /\ holed' = holed \ {task[t].commit}
    /\ Set(t, Blank)
    /\ UNCHANGED <<blocks, fref, hub, issued>>

-----------------------------------------------------------------------------
(* evict.Commit, from evict.Repo, one `evict <commit>`, or the watcher     *)

(* `evict` on the control socket: one revision, or all of a repository.    *)
EvictBegin(h, C) ==
    /\ "evict" \in Ops /\ Admitted(h, "evict") /\ Issue
    /\ \E c \in C : entry[c] # {}
    /\ Set(h, [Blank EXCEPT !.op = "evict", !.pc = "next",
                            !.listed = [c \in Commits |->
                                          IF c \in C THEN entry[c] ELSE {}]])
    /\ UNCHANGED <<store, hub, torn, holed>>

(* Mutant: repositories without refs/main are passed over.                 *)
PruneBeginWithRef ==
    /\ "prune" \in Ops /\ Admitted(Watcher, "evict")
    /\ \E c \in Commits : entry[c] # {} /\ ref[RepoOf[c]] # None
    /\ Set(Watcher, [Blank EXCEPT !.op = "evict", !.pc = "next",
                                  !.listed = [c \in Commits |->
                                     IF ref[RepoOf[c]] = None THEN {}
                                                              ELSE entry[c]]])
    /\ UNCHANGED <<store, hub, torn, holed, issued>>

(* Watcher.pruneOrphans over the entries listed (tryIngest's single entry  *)
(* is the case of one), each checked when its turn comes.                  *)
PruneBegin ==
    /\ "prune" \in Ops /\ Admitted(Watcher, "evict")
    /\ \E c \in Commits : entry[c] # {}
    /\ Set(Watcher, [Blank EXCEPT !.op = "evict", !.pc = "next",
                                  !.listed = entry])
    /\ UNCHANGED <<store, hub, torn, holed, issued>>

EvictNext(t, c) ==
    /\ At(t, "next") /\ task[t].listed[c] # {}
    /\ LET r == [Blank EXCEPT !.op = "evict", !.pc = "next",
                              !.listed = [task[t].listed EXCEPT ![c] = {}]]
       IN  IF t = Watcher /\ SnapshotComplete(c)
             THEN Set(t, r)
             ELSE Set(t, [r EXCEPT !.pc = "others", !.commit = c,
                                   !.man = task[t].listed[c]])
    /\ UNCHANGED <<store, hub, torn, holed, issued>>

EvictDone(t) ==
    /\ At(t, "next") /\ task[t].listed = NoEntries
    /\ Set(t, Blank)
    /\ UNCHANGED <<store, hub, torn, holed, issued>>

(* Mutant: only entries of the same repository count as others.            *)
EvictListSameRepo(t) ==
    /\ At(t, "others")
    /\ Set(t, [task[t] EXCEPT !.pc = "keep",
                              !.others = [c \in Commits |->
                                 IF c = task[t].commit \/ RepoOf[c] # Repo(t)
                                   THEN {} ELSE entry[c]]])
    /\ UNCHANGED <<store, hub, torn, holed, issued>>

(* The other entries, listed once; then one walk for each of them.         *)
EvictList(t) ==
    /\ At(t, "others")
    /\ Set(t, [task[t] EXCEPT !.pc = "keep",
                              !.others = [entry EXCEPT ![task[t].commit] = {}]])
    /\ UNCHANGED <<store, hub, torn, holed, issued>>

EvictKeep(t, o) ==
    /\ At(t, "keep") /\ task[t].others[o] # {}
    /\ Set(t, [task[t] EXCEPT !.others = [@ EXCEPT ![o] = {}],
                              !.keep = @ \cup Walk(task[t].others[o], blocks)])
    /\ UNCHANGED <<store, hub, torn, holed, issued>>

(* Mutant: everything the target reaches goes.                             *)
EvictTargetAll(t) ==
    /\ At(t, "keep") /\ task[t].others = NoEntries
    /\ Set(t, [task[t] EXCEPT !.pc = "delete",
                              !.cids = Walk(task[t].man, blocks)])
    /\ UNCHANGED <<store, hub, torn, holed, issued>>

(* The target walk; what another mapping keeps is skipped.                 *)
EvictTarget(t) ==
    /\ At(t, "keep") /\ task[t].others = NoEntries
    /\ Set(t, [task[t] EXCEPT !.pc = "delete",
                              !.cids = Walk(task[t].man, blocks) \ task[t].keep])
    /\ UNCHANGED <<store, hub, torn, holed, issued>>

(* Mutant: only filestore references are deleted.                          *)
EvictDeleteRefs(t, x) ==
    /\ At(t, "delete") /\ x \in task[t].cids
    /\ fref' = [y \in Raw |-> IF y = x THEN None ELSE fref[y]]
    /\ Set(t, [task[t] EXCEPT !.cids = @ \ {x}])
    /\ UNCHANGED <<entry, blocks, hub, torn, holed, issued>>

(* The filestore reference if there is one, else the block.                *)
EvictDelete(t, x) ==
    /\ At(t, "delete") /\ x \in task[t].cids
    /\ \/ /\ x \in Raw /\ fref[x] # None
          /\ fref' = [fref EXCEPT ![x] = None]
          /\ UNCHANGED blocks
       \/ /\ ~(x \in Raw /\ fref[x] # None)
          /\ blocks' = blocks \ {x}
          /\ UNCHANGED fref
    /\ Set(t, [task[t] EXCEPT !.cids = @ \ {x}])
    /\ UNCHANGED <<entry, hub, torn, holed, issued>>

(* referencedPaths, over the whole filestore bucket.                       *)
EvictScan(t) ==
    /\ At(t, "delete") /\ task[t].cids = {}
    /\ Set(t, [task[t] EXCEPT !.pc = "blobs", !.files = task[t].man,
                              !.paths = {fref[x] : x \in Raw} \ {None}])
    /\ UNCHANGED <<store, hub, torn, holed, issued>>

(* Mutant: the blob goes whether or not a reference points into it.        *)
EvictBlobAlways(t, f) ==
    /\ At(t, "blobs") /\ f \in task[t].files
    /\ disk' = disk \ {Blob(t, f)}
    /\ Set(t, [task[t] EXCEPT !.files = @ \ {f}])
    /\ UNCHANGED <<store, links, ref, torn, holed, issued>>

EvictBlob(t, f) ==
    /\ At(t, "blobs") /\ f \in task[t].files
    /\ disk' = disk \ ({Blob(t, f)} \ task[t].paths)
    /\ Set(t, [task[t] EXCEPT !.files = @ \ {f}])
    /\ UNCHANGED <<store, links, ref, torn, holed, issued>>

EvictUnmap(t) ==
    /\ At(t, "blobs") /\ task[t].files = {}
    /\ entry' = [entry EXCEPT ![task[t].commit] = {}]
    /\ torn' = torn \ {task[t].commit}
    /\ holed' = holed \ {task[t].commit}
    /\ Set(t, [task[t] EXCEPT !.pc = "unlink"])
    /\ UNCHANGED <<blocks, fref, hub, issued>>

(* A deletion fails: the entry stays.  A handler returns the error, the    *)
(* watcher logs it and goes on.                                            *)
EvictFail(t) ==
    /\ At(t, "delete") \/ At(t, "blobs")
    /\ Fault
    /\ torn' = torn \cup {task[t].commit}
    /\ Set(t, IF t = Watcher
                THEN [Blank EXCEPT !.op = "evict", !.pc = "next",
                                   !.listed = task[t].listed]
                ELSE Blank)
    /\ UNCHANGED <<store, hub, holed>>

(* RemoveAll of the snapshot, then refs/main if it still names it.         *)
EvictUnlink(t) ==
    /\ At(t, "unlink")
    /\ links' = [links EXCEPT ![task[t].commit] = {}]
    /\ Set(t, [task[t] EXCEPT !.pc = "unref"])
    /\ UNCHANGED <<store, disk, ref, torn, holed, issued>>

EvictUnref(t) ==
    /\ At(t, "unref")
    /\ Set(t, IF ref[Repo(t)] = task[t].commit
                THEN [task[t] EXCEPT !.pc = "rmref"]
                ELSE [Blank EXCEPT !.op = "evict", !.pc = "next",
                                   !.listed = task[t].listed])
    /\ UNCHANGED <<store, hub, torn, holed, issued>>

(* The removal goes by name: whatever refs/main holds by now.              *)
EvictRemoveRef(t) ==
    /\ At(t, "rmref")
    /\ ref' = [ref EXCEPT ![Repo(t)] = None]
    /\ Set(t, [Blank EXCEPT !.op = "evict", !.pc = "next",
                            !.listed = task[t].listed])
    /\ UNCHANGED <<store, disk, links, torn, holed, issued>>

-----------------------------------------------------------------------------
(* The hf CLI and the user, who share the hub cache with the node          *)

HfDownload(c) ==
    /\ "download" \in Ops /\ Issue
    /\ disk' = disk \cup ({RepoOf[c]} \X FilesOf[c])
    /\ links' = [links EXCEPT ![c] = FilesOf[c]]
    /\ ref' = [ref EXCEPT ![RepoOf[c]] = c]
    /\ UNCHANGED <<store, task, torn, holed>>

(* rm -rf of a repository directory.                                       *)
DeleteRepo(r) ==
    /\ "delete" \in Ops /\ Issue
    /\ disk' = disk \ ({r} \X Files)
    /\ links' = [c \in Commits |-> IF RepoOf[c] = r THEN {} ELSE links[c]]
    /\ ref' = [ref EXCEPT ![r] = None]
    /\ UNCHANGED <<store, task, torn, holed>>

(* kill -9, power loss: bbolt and the file system keep what was done.      *)
Crash ==
    /\ "crash" \in Ops /\ Issue
    /\ torn' = torn \cup {task[t].commit : t \in {u \in Tasks :
                                           At(u, "delete") \/ At(u, "blobs")}}
    /\ task' = [t \in Tasks |-> Blank]
    /\ UNCHANGED <<store, hub, holed>>

-----------------------------------------------------------------------------
Init ==
    /\ entry = NoEntries
    /\ blocks = {}
    /\ fref = [x \in Raw |-> None]
    /\ disk = {}
    /\ links = NoEntries
    /\ ref = [r \in Repos |-> None]
    /\ task = [t \in Tasks |-> Blank]
    /\ issued = 0
    /\ torn = {}
    /\ holed = {}

PullStep(h) ==
    \/ PullRoot(h) \/ PullEmpty(h) \/ PullLeaves(h) \/ PullPlace(h) \/ PullFail(h)
    \/ PullUndone(h) \/ PullMap(h)
    \/ \E f \in Files : PullFile(h, f)
    \/ \E x \in Raw : PullChunk(h, x) \/ PullUndo(h, x)
    \/ \E x \in Pb : PullInner(h, x)

HfStep(h) ==
    \/ HfManifest(h) \/ HfFetched(h) \/ HfFail(h) \/ WriteRef(h)
    \/ \E f \in Files : HfFetch(h, f) \/ WriteLink(h, f)

IngestStep(t) ==
    \/ IngestRead(t) \/ IngestNode(t) \/ IngestDir(t) \/ IngestMap(t)
    \/ \E f \in Files : IngestOpen(t, f)
    \/ \E x \in Raw : IngestLeaf(t, x)
    \/ \E x \in Pb : IngestInner(t, x)

EvictStep(t) ==
    \/ EvictDone(t) \/ EvictList(t) \/ EvictTarget(t) \/ EvictScan(t)
    \/ EvictUnmap(t) \/ EvictFail(t) \/ EvictUnlink(t) \/ EvictUnref(t)
    \/ EvictRemoveRef(t)
    \/ \E c \in Commits : EvictNext(t, c) \/ EvictKeep(t, c)
    \/ \E x \in Cids : EvictDelete(t, x)
    \/ \E f \in Files : EvictBlob(t, f)

Request(h) ==
    \/ \E c \in Commits : \/ PullBegin(h, c) \/ PullRelink(h, c)
                          \/ IngestBegin(h, c) \/ EvictBegin(h, {c})
    \/ \E r \in Repos : EvictBegin(h, {c \in Commits : RepoOf[c] = r})

Next ==
    \/ \E h \in Handlers : Request(h) \/ PullStep(h) \/ HfStep(h)
    \/ \E t \in Tasks : IngestStep(t) \/ EvictStep(t)
    \/ \E c \in Commits : TryIngest(c) \/ HfDownload(c)
    \/ PruneBegin
    \/ \E r \in Repos : DeleteRepo(r)
    \/ Crash

Spec == Init /\ [][Next]_vars

(* Every goroutine goes on with what it has begun: a peer's or the Hub's   *)
(* silence ends in an error (stream deadlines, cancelled requests).  The   *)
(* rescan ticker brings round tryIngest and pruneOrphans for ever.         *)
Fairness ==
    /\ \A h \in Handlers : WF_vars(PullStep(h) \/ HfStep(h))
    /\ \A t \in Tasks : WF_vars(IngestStep(t) \/ EvictStep(t))
    /\ \A c \in Commits : SF_vars(TryIngest(c))
    /\ SF_vars(PruneBegin)

LiveSpec == Spec /\ Fairness

-----------------------------------------------------------------------------
(* Properties                                                              *)

TypeOK ==
    /\ entry \in Manifests
    /\ blocks \subseteq Cids
    /\ fref \in [Raw -> Paths \cup {None}]
    /\ disk \subseteq Paths
    /\ links \in Manifests
    /\ ref \in [Repos -> Commits \cup {None}]
    /\ task \in [Tasks -> TaskStates]
    /\ issued \in 0..MaxIssued
    /\ torn \subseteq Commits
    /\ holed \subseteq Commits

(* An eviction of c has begun to delete, or one was cut short.              *)
BeingEvicted(c) ==
    \/ c \in torn
    \/ \E t \in Tasks : task[t].commit = c /\ (At(t, "delete") \/ At(t, "blobs"))

(* Every file of a mapped revision can be located by a puller (findNode)   *)
(* and by evict.walk: its directory node and its files' roots are in the   *)
(* blocks bucket, whatever pulls, rollbacks, evictions, deletions and      *)
(* crashes happened before.  The exception is a revision mapped by a pull  *)
(* that could not store such a node: pull.go only logs the failing Put,    *)
(* records the mapping and announces it.                                   *)
TreeHeld ==
    \A c \in Commits : entry[c] # {} /\ ~BeingEvicted(c) /\ c \notin holed
                          => Tree(entry[c]) \subseteq blocks

(* The same of every CID of its DAG, leaves included: README.md, section 3, *)
(* says of a pull that "the puller serves it to others", and hffallback.go *)
(* that it leaves the node a seeder.  True of what ingest.Run records;     *)
(* not of a pull that found a blob already in place.                       *)
ClosureHeld ==
    \A c \in Commits : entry[c] # {} /\ ~BeingEvicted(c)
                          => \A x \in Closure(entry[c]) : Held(x)

(* A filestore reference leads to no blob file, and no pull is about to    *)
(* rename the file into place or to roll the reference back.               *)
Dangles(x) ==
    /\ fref[x] # None /\ fref[x] \notin disk
    /\ ~ \E h \in Handlers :
            /\ \/ At(h, "chunk") /\ x \in task[h].reg
               \/ At(h, "undo") /\ x \in task[h].cids
            /\ fref[x] = Blob(h, task[h].file)

(* A pull registers references before their file exists, and an eviction   *)
(* removes files whose references it has walked: no step of a pull or an   *)
(* eviction, also beside or after deletions and crashes, leaves behind a   *)
(* reference to nothing.  (What the user deletes, also under an ingest     *)
(* that has the file open, what a crash cuts short, and a rollback whose   *)
(* deletion fails, the error discarded, may.)                              *)
NoDanglingRef ==
    [][issued' = issued /\ (\A t \in Tasks : At(t, "leaf") => task'[t] = task[t])
         => \A x \in Raw : Dangles(x)' => Dangles(x)]_vars

(* c is mapped across the step, and no eviction of it is under way.        *)
StaysMapped(c) ==
    entry[c] # {} /\ entry'[c] = entry[c] /\ ~BeingEvicted(c) /\ ~BeingEvicted(c)'

LosesHold(x) == Held(x) /\ ~Held(x)'

(* evict.go: "Collect everything the OTHER mappings still reference before *)
(* deleting anything."  An eviction never takes a block or a filestore     *)
(* reference that the node can reach from another mapped revision.         *)
EvictSparesMapped ==
    [][\A c \in Commits : StaysMapped(c) =>
         \A x \in Walk(entry[c], blocks) :
            LosesHold(x) => \E h \in Handlers : At(h, "undo")]_vars

(* All nodes of o are there, and every eviction of another revision that   *)
(* is under way has walked o, has yet to, or will not touch it.            *)
Guarded(o) ==
    /\ entry[o] # {} /\ ~BeingEvicted(o) /\ Closure(entry[o]) \cap Pb \subseteq blocks
    /\ \A t \in Tasks : task[t].commit # o =>
         /\ At(t, "keep") => \/ task[t].others[o] = entry[o]
                             \/ Closure(entry[o]) \subseteq task[t].keep
         /\ At(t, "delete") => Closure(entry[o]) \cap task[t].cids = {}

(* Without any lock: a revision that is whole before an eviction lists the *)
(* others is safe from it and from all later ones.  Until it is mapped     *)
(* anew or evicted itself it keeps every node, and loses leaves to nothing *)
(* but a rollback.  Only what is mapped beside an eviction is at risk.     *)
SettledSpared ==
    [][\A o \in Commits : Guarded(o) /\ entry'[o] = entry[o] /\ ~BeingEvicted(o)' =>
         /\ Guarded(o)'
         /\ \A x \in Closure(entry[o]) :
               LosesHold(x) => \E h \in Handlers : At(h, "undo")]_vars

(* The same of every step, the rollback of a failed pull included.         *)
NothingTakenFromMapped ==
    [][\A c \in Commits : StaysMapped(c) =>
         \A x \in Walk(entry[c], blocks) : ~LosesHold(x)]_vars

(* evict.go: "A blob file may only go when no remaining filestore          *)
(* reference points into it."                                              *)
EvictRemovesUnreferenced ==
    [][task' # task => \A p \in disk \ disk', x \in Raw : fref'[x] # p]_vars

(* Every eviction that removes blobs has seen the reference of x.          *)
Sheltered(x) ==
    fref[x] # None /\ \A t \in Tasks : At(t, "blobs") => fref[x] \in task[t].paths

(* Without any lock: the blob of a reference that was there before an      *)
(* eviction's scan outlasts it and all later ones, for as long as the      *)
(* reference does.                                                         *)
SeenBlobsStay ==
    [][\A x \in Raw : Sheltered(x) /\ fref'[x] = fref[x] =>
         Sheltered(x)' /\ (task' # task => fref[x] \notin disk \ disk')]_vars

(* evict.go goes on: "(another revision can share the exact same file)".   *)
(* A blob an eviction removes is no file of another mapped revision of the *)
(* repository.                                                             *)
EvictKeepsSharedBlobs ==
    [][task' # task => \A p \in disk \ disk', c \in Commits :
         StaysMapped(c) /\ RepoOf[c] = p[1] => p[2] \notin entry[c]]_vars

(* What the code does ensure: an eviction takes a blob of another mapped   *)
(* revision only when the node has each of its chunks referenced in        *)
(* another file: the revision's file is gone from the hub cache, its       *)
(* content is not given up.                                                *)
SharedBlobsServed ==
    [][task' # task => \A p \in disk \ disk', c \in Commits :
         StaysMapped(c) /\ RepoOf[c] = p[1] /\ p[2] \in entry[c] =>
            \A x \in Chunks[p[2]] :
               x \in EmptyLeaves \/ fref[x] \notin {None, p}]_vars

(* When an eviction unmaps a revision, no block and no reference of it is  *)
(* left but what another mapped revision needs: nothing leaks.             *)
EvictLeavesNothing ==
    [][\A c \in Commits : entry[c] # {} /\ entry'[c] = {} /\ c \notin torn =>
         \A x \in Closure(entry[c]) : Held(x)' =>
            \E o \in Commits : entry'[o] # {} /\ x \in Closure(entry'[o])]_vars

(* What its peers see of the node.                                         *)
Peers == INSTANCE Catalogue WITH
            Content <- Closure,
            offer   <- entry,
            leaving <- {c \in Commits : entry[c] # {} /\ BeingEvicted(c)},
            cut     <- {c \in torn : entry[c] # {}},
            served  <- blocks \cup {x \in Raw : fref[x] # None}

(* handleMap answers from the mapping bucket and handleBlocks from the     *)
(* blockstore, in the middle of whatever runs.  Whatever goroutines,       *)
(* failures and crashes do to the buckets, to its peers the node is a      *)
(* catalogue: what is offered can be served whole, and is given up in      *)
(* order, without touching what else is on offer.                          *)
KeepsCatalogue == Peers!CatalogueSpec

(* Once the user and the control socket are quiet, the watcher brings the  *)
(* mapping bucket and the hub cache together.  watch.go: "Prune so we stop *)
(* answering map queries for content we cannot serve (the lying-provider   *)
(* bug)": no revision stays mapped whose snapshot is not complete.         *)
EventuallyPruned ==
    <>[](\A c \in Commits : entry[c] # {} => SnapshotComplete(c))

(* "Scan ingests every repo whose current ref is finalized but not yet     *)
(* shared": the revision refs/main names is shared in the end.             *)
EventuallyShared ==
    <>[](\A c \in Commits : ref[RepoOf[c]] = c /\ SnapshotComplete(c)
                                => entry[c] # {})

=============================================================================
