--------------------------- MODULE ClosureProofs ---------------------------
(***************************************************************************)
(* What a node keeps of a revision it shares, down to the leaves, for any  *)
(* layout and any number of handlers.  Of all behaviours:                  *)
(*                                                                         *)
(*   AlwaysHonest             []HonestInv                                  *)
(*   SettledAreSpared         SettledSpared                                *)
(*   SettledKeepsNodes        the same in terms of the mapping alone       *)
(*   SettledStaysWhole        the same of leaves, if no pull is from a peer *)
(*                                                                         *)
(* Of those in which no eviction overlaps a pull or an ingest ([]Exclusion) *)
(* and no pull is from a peer ([]NoPeerPulls):                             *)
(*                                                                         *)
(*   ClosureSafe              []ClosureHeld                                *)
(*   NothingTakenWithoutPeers NothingTakenFromMapped                       *)
(*   SharedBlobsAreServed     SharedBlobsServed                            *)
(*                                                                         *)
(* Of those in which, besides, no two evictions overlap ([]OneEviction):   *)
(*                                                                         *)
(*   EvictionsLeaveNothing    EvictLeavesNothing                           *)
(*   NodeIsCatalogue          KeepsCatalogue (the refinement)              *)
(*                                                                         *)
(* And of the program as it is, on a node that only watches its hub cache: *)
(* all of it (WatchingNode).                                               *)
(***************************************************************************)
EXTENDS EvictProofs

-----------------------------------------------------------------------------
(* Honest: what is written where, of every node and without any exclusion  *)

(* A task works from files the revision has, and a loop is within them.    *)
TaskHonest(r) ==
    /\ r.pc \notin {"idle", "next"} =>
         r.man \subseteq FilesOf[r.commit] /\ r.files \subseteq r.man
    /\ r.pc \in {"empty", "leaves", "chunk", "undo", "leaf"} => r.file \in r.man
    /\ r.pc = "empty" => FileCid[r.file] \in EmptyLeaves
    /\ r.pc = "chunk" => r.cids \subseteq Chunks[r.file]
    /\ r.pc = "leaf" => r.cids \subseteq FileDag[r.file]
    /\ \A c \in Commits : r.listed[c] \subseteq FilesOf[c]

(* A reference leads to a blob of a published file that has the chunk.     *)
RefsTrue ==
    \A x \in Raw : fref[x] # None =>
        \E c \in Commits : \E f \in FilesOf[c] :
            fref[x] = <<RepoOf[c], f>> /\ x \in Chunks[f]

(* A leaf is kept in one bucket: the zero-length one as a block, every     *)
(* other as a reference.                                                   *)
StoredOnce ==
    \A x \in Raw : (x \in blocks => x \in EmptyLeaves)
                /\ (fref[x] # None => x \notin EmptyLeaves)

Published ==
    \A c \in Commits : entry[c] \subseteq FilesOf[c] /\ links[c] \subseteq FilesOf[c]

HonestInv == /\ TypeInv
             /\ \A t \in Tasks : TaskHonest(task[t])
             /\ Published /\ RefsTrue /\ StoredOnce

-----------------------------------------------------------------------------
(* A node without peers                                                    *)

PeerPCs == {"peer", "file", "empty", "leaves", "chunk", "undo"}

(* No pull is with a peer, or rolling back what it had from one.           *)
NoPeerPulls == \A t \in Tasks : task[t].pc \notin PeerPCs

(* What an ingest has put into the blockstore by now.                      *)
Ingested(r) ==
    /\ r.pc \in {"add", "leaf", "imap"} =>
         r.man # {} /\ \A f \in r.man \ r.files : \A x \in FileDag[f] : Held(x)
    /\ r.pc = "leaf" =>
         \A x \in FileDag[r.file] \ (NodeOf(r.file) \cup r.cids) : Held(x)

ClosureInv ==
    /\ ReachInv
    /\ \A t \in Tasks : task[t].pc \notin PeerPCs /\ Ingested(task[t])
    /\ ClosureHeld

-----------------------------------------------------------------------------
(* Evictions that do not overlap each other                                *)

OneEviction ==
    \A t, u \in Tasks : task[t].pc \in EvictPCs /\ task[u].pc \in EvictPCs => t = u

(* x belongs to a mapped revision other than c.                            *)
Elsewhere(x, c) ==
    \E o \in Commits : o # c /\ entry[o] # {} /\ x \in Closure(entry[o])

(* An eviction's lists agree with the mapping bucket; what its keep set    *)
(* holds is needed elsewhere; what it is to delete is the revision's, and  *)
(* what it has not deleted is still to be deleted or needed elsewhere.     *)
Target(r) ==
    /\ r.pc \in EvictPCs => \A c \in Commits : r.listed[c] \in {{}, entry[c]}
    /\ r.pc \in EvictPCs \ {"next"} => r.listed[r.commit] = {}
    /\ r.pc \in {"others", "keep", "delete", "blobs"} =>
         r.man = entry[r.commit] /\ r.man # {}
    /\ r.pc = "others" => r.keep = {}
    /\ r.pc = "keep" =>
         /\ \A x \in r.keep : Elsewhere(x, r.commit)
         /\ r.others[r.commit] = {}
         /\ \A o \in Commits : r.others[o] \in {{}, entry[o]}
    /\ r.pc = "blobs" => r.cids = {}
    /\ r.pc = "delete" => r.cids \subseteq Closure(r.man)
    /\ r.pc \in {"delete", "blobs"} /\ r.commit \notin torn =>
         \A x \in Closure(r.man) : Held(x) => x \in r.cids \/ Elsewhere(x, r.commit)

LeftoverInv ==
    /\ ClosureInv
    /\ HonestInv
    /\ OneEviction
    /\ \A t \in Tasks : Target(task[t])

-----------------------------------------------------------------------------
(* Honest steps                                                            *)

(* An idle task claims nothing.                                            *)
LEMMA BlankHonest == TaskHonest(Blank)
  BY DEF TaskHonest, Blank, NoEntries

(* The record of an eviction's loop over l.                                *)
LEMMA LoopHonest ==
  ASSUME NEW l \in Manifests, \A c \in Commits : l[c] \subseteq FilesOf[c]
  PROVE  TaskHonest([Blank EXCEPT !.op = "evict", !.pc = "next", !.listed = l])
  BY DEF TaskHonest, Blank

(* The record of a pull or an ingest that begins.                          *)
LEMMA StartHonest ==
  ASSUME NEW k \in Kinds, NEW c \in Commits, NEW l \in {"peer", "hf", "read"}
  PROVE  TaskHonest([Blank EXCEPT !.op = k, !.commit = c, !.pc = l])
  BY DEF TaskHonest, Blank, NoEntries

(* A request begins with files the mapping bucket has of the revision, or  *)
(* with none.                                                              *)
LEMMA RequestHonest ==
  ASSUME HonestInv, NEW t \in Tasks, NEW c \in Commits, NEW C \in SUBSET Commits,
         \/ PullBegin(t, c) \/ PullRelink(t, c) \/ IngestBegin(t, c)
         \/ EvictBegin(t, C)
         \/ t = Watcher /\ TryIngest(c)
         \/ t = Watcher /\ PruneBegin
  PROVE  TaskHonest(task'[t])
<1> task \in [Tasks -> TaskStates] /\ entry \in Manifests
  BY DEF HonestInv, TypeInv, TypeOK
<1>1. CASE PullBegin(t, c)
  BY <1>1, StartHonest DEF PullBegin, Set, Kinds
<1>2. CASE IngestBegin(t, c)
  BY <1>2, StartHonest DEF IngestBegin, Set, Kinds
<1>3. CASE t = Watcher /\ TryIngest(c)
  BY <1>3, StartHonest DEF TryIngest, Set, Kinds
<1>4. CASE PullRelink(t, c)
  <2>1. task'[t] = [Blank EXCEPT !.op = "relink", !.commit = c, !.pc = "link",
                                 !.man = entry[c], !.files = entry[c]]
    BY <1>4 DEF PullRelink, Set
  <2>2. entry[c] \subseteq FilesOf[c]
    BY DEF HonestInv, Published
  <2> QED
    BY <2>1, <2>2 DEF TaskHonest, Blank, NoEntries
<1>5. CASE EvictBegin(t, C)
  <2> DEFINE m == [d \in Commits |-> IF d \in C THEN entry[d] ELSE {}]
  <2>1. m \in Manifests /\ \A d \in Commits : m[d] \subseteq FilesOf[d]
    BY DEF Manifests, HonestInv, Published
  <2>2. task'[t] = [Blank EXCEPT !.op = "evict", !.pc = "next", !.listed = m]
    BY <1>5 DEF EvictBegin, Set
  <2> QED
    BY <2>1, <2>2, LoopHonest
<1>6. CASE t = Watcher /\ PruneBegin
  <2>1. task'[t] = [Blank EXCEPT !.op = "evict", !.pc = "next", !.listed = entry]
    BY <1>6 DEF PruneBegin, Set
  <2> QED
    BY <2>1, LoopHonest DEF HonestInv, Published
<1> QED
  BY <1>1, <1>2, <1>3, <1>4, <1>5, <1>6

(* A pull that gives a provider up begins anew.                            *)
LEMMA GiveUpHonest ==
  ASSUME TypeInv, NEW h \in Tasks, task[h].commit \in Commits, GiveUp(h)
  PROVE  TaskHonest(task'[h])
<1> task \in [Tasks -> TaskStates]
  BY DEF TypeInv, TypeOK
<1> DEFINE r(l) == [Blank EXCEPT !.op = "pull", !.commit = task[h].commit,
                                 !.pc = l]
<1>1. task'[h] \in {r("peer"), r("hf"), Blank}
  BY DEF GiveUp, Fallback, Set
<1>2. TaskHonest(r("peer")) /\ TaskHonest(r("hf"))
  BY StartHonest DEF Kinds
<1> QED
  BY <1>1, <1>2, BlankHonest

(* What could not be stored makes a task no less honest.                   *)
LEMMA ReadThroughHonest ==
  ASSUME TypeInv, NEW h \in Tasks, NEW X \in SUBSET Pb, NEW r \in TaskStates,
         ReadThrough(h, X, r), TaskHonest(r)
  PROVE  TaskHonest(task'[h])
<1>1. PICK L \in SUBSET Pb : task'[h] = [r EXCEPT !.lost = L]
  BY ReadThroughEffect
<1>2. task'[h].listed = r.listed
  BY <1>1 DEF TaskStates
<1> QED
  BY <1>2, ReadThroughFrame DEF TaskHonest

(* A pull from a peer works on files of the manifest it was given.         *)
LEMMA PullHonest ==
  ASSUME HonestInv, NEW h \in Handlers, PullStep(h)
  PROVE  TaskHonest(task'[h])
<1> /\ task \in [Tasks -> TaskStates] /\ h \in Tasks /\ task[h] \in TaskStates
    /\ TaskOK(task[h]) /\ TaskHonest(task[h]) /\ TypeInv
  BY DEF HonestInv, TypeInv, TypeOK, TasksOK, Tasks
<1>1. CASE PullRoot(h)
  <2> DEFINE S == FilesOf[task[h].commit]
             r == [task[h] EXCEPT !.pc = "file", !.man = S, !.files = S]
  <2>1. S \in SUBSET Files /\ ReadThrough(h, {DirCid[S]}, r)
    BY <1>1, LayoutAssumption DEF PullRoot, At, TaskOK
  <2>2. r \in TaskStates /\ TaskHonest(r)
    BY <1>1, <2>1 DEF PullRoot, At, TaskStates, PCs, TaskHonest
  <2> HIDE DEF r, S
  <2> QED
    BY <2>1, <2>2, FindNodeType, ReadThroughHonest
<1>2. CASE PullEmpty(h)
  BY <1>2 DEF PullEmpty, Set, At, TaskStates, TaskHonest
<1>3. CASE PullLeaves(h)
  BY <1>3 DEF PullLeaves, Set, At, TaskStates, TaskHonest
<1>4. CASE PullPlace(h)
  <2>1. CASE Set(h, [task[h] EXCEPT !.pc = "file",
                         !.files = @ \ {task[h].file}, !.file = None, !.reg = {}])
    BY <1>4, <2>1 DEF PullPlace, Set, At, TaskStates, TaskHonest
  <2>2. CASE Set(h, [task[h] EXCEPT !.pc = "undo", !.cids = task[h].reg])
    BY <1>4, <2>2 DEF PullPlace, Set, At, TaskStates, TaskHonest
  <2> QED
    BY <1>4, <2>1, <2>2 DEF PullPlace
<1>5. CASE PullFail(h)
  <2>1. CASE /\ At(h, "chunk")
             /\ Set(h, [task[h] EXCEPT !.pc = "undo", !.cids = task[h].reg])
    BY <2>1 DEF Set, At, TaskStates, TaskHonest
  <2>2. CASE /\ GiveUp(h)
             /\ At(h, "peer") \/ At(h, "file") \/ At(h, "empty") \/ At(h, "leaves")
    BY <2>2, GiveUpHonest DEF At, TaskOK
  <2> QED
    BY <1>5, <2>1, <2>2 DEF PullFail
<1>6. CASE PullUndone(h)
  BY <1>6, GiveUpHonest DEF PullUndone, At, TaskOK
<1>7. CASE PullMap(h)
  BY <1>7 DEF PullMap, Set, At, TaskStates, TaskHonest
<1>8. ASSUME NEW f \in Files, PullFile(h, f) PROVE TaskHonest(task'[h])
  <2> DEFINE X  == {DirCid[task[h].man]} \cup NodeOf(f)
             r1 == [task[h] EXCEPT !.files = @ \ {f}]
             r2 == [task[h] EXCEPT !.pc = "empty", !.file = f]
             r3 == [task[h] EXCEPT !.pc = "leaves", !.file = f,
                                   !.cids = Inner[f], !.reg = {}]
  <2>1. task[h].pc = "file" /\ f \in task[h].files
    BY <1>8 DEF PullFile, At
  <2>2. r1 \in TaskStates /\ TaskHonest(r1)
    BY <2>1 DEF TaskStates, TaskHonest
  <2>3. FileCid[f] \in EmptyLeaves => r2 \in TaskStates /\ TaskHonest(r2)
    BY <2>1 DEF TaskStates, PCs, TaskHonest
  <2>4. r3 \in TaskStates /\ TaskHonest(r3)
    BY <2>1, DagType DEF TaskStates, PCs, Cids, TaskHonest
  <2>5. X \in SUBSET Pb
    BY FindNodeType DEF TaskStates
  <2>6. \/ ReadThrough(h, X, r1) \/ ReadThrough(h, X, r3)
        \/ ReadThrough(h, X, r2) /\ FileCid[f] \in EmptyLeaves
    BY <1>8 DEF PullFile, FindNode
  <2> HIDE DEF X, r1, r2, r3
  <2> QED
    BY <2>2, <2>3, <2>4, <2>5, <2>6, ReadThroughHonest
<1>9. ASSUME NEW x, PullChunk(h, x) PROVE TaskHonest(task'[h])
  BY <1>9 DEF PullChunk, Set, At, TaskStates, TaskHonest
<1>10. ASSUME NEW x, PullUndo(h, x) PROVE TaskHonest(task'[h])
  BY <1>10 DEF PullUndo, Set, At, TaskStates, TaskHonest
<1>11. ASSUME NEW x \in Pb, PullInner(h, x) PROVE TaskHonest(task'[h])
  <2> DEFINE r == [task[h] EXCEPT !.cids = @ \ {x}]
  <2>1. task[h].pc = "leaves" /\ ReadThrough(h, {x}, r) /\ {x} \in SUBSET Pb
    BY <1>11 DEF PullInner, At
  <2>2. r \in TaskStates /\ TaskHonest(r)
    BY <2>1 DEF TaskStates, TaskHonest
  <2> HIDE DEF r
  <2> QED
    BY <2>1, <2>2, ReadThroughHonest
<1> QED
  BY <1>1, <1>2, <1>3, <1>4, <1>5, <1>6, <1>7, <1>8, <1>9, <1>10, <1>11 DEF PullStep

(* A pull from the Hub downloads and links files of the Hub's manifest.    *)
LEMMA HfHonest ==
  ASSUME HonestInv, NEW h \in Handlers, HfStep(h)
  PROVE  TaskHonest(task'[h])
<1> /\ task \in [Tasks -> TaskStates] /\ h \in Tasks /\ task[h] \in TaskStates
    /\ TaskHonest(task[h]) /\ TaskOK(task[h])
  BY DEF HonestInv, TypeInv, TypeOK, TasksOK, Tasks
<1>1. CASE HfManifest(h)
  BY <1>1 DEF HfManifest, Set, At, TaskStates, TaskHonest
<1>2. CASE HfFetched(h)
  BY <1>2 DEF HfFetched, Set, At, TaskStates, TaskHonest
<1>3. CASE HfFail(h)
  BY <1>3, BlankHonest DEF HfFail, Set
<1>4. CASE WriteRef(h)
  <2>1. CASE Set(h, Blank)
    BY <2>1, BlankHonest DEF Set
  <2>2. CASE Set(h, [task[h] EXCEPT !.pc = "read", !.man = {}])
    <3>1. task[h].files = {} /\ task[h].pc \in {"link", "hflink"}
      BY <1>4 DEF WriteRef, At
    <3> QED
      BY <2>2, <3>1 DEF Set, TaskStates, TaskHonest
  <2> QED
    BY <1>4, <2>1, <2>2 DEF WriteRef
<1>5. ASSUME NEW f, HfFetch(h, f) PROVE TaskHonest(task'[h])
  BY <1>5 DEF HfFetch, Set, At, TaskStates, TaskHonest
<1>6. ASSUME NEW f, WriteLink(h, f) PROVE TaskHonest(task'[h])
  <2>1. CASE Set(h, Blank)
    BY <2>1, BlankHonest DEF Set
  <2>2. CASE Set(h, [task[h] EXCEPT !.files = @ \ {f}])
    BY <1>6, <2>2 DEF WriteLink, Set, At, TaskStates, TaskHonest
  <2>3. CASE Set(h, Fallback(h))
    <3>1. task[h].commit \in Commits
      BY <1>6 DEF WriteLink, At, TaskOK
    <3> QED
      BY <2>3, <3>1, StartHonest, BlankHonest DEF Set, Fallback, Kinds
  <2> QED
    BY <1>6, <2>1, <2>2, <2>3 DEF WriteLink
<1> QED
  BY <1>1, <1>2, <1>3, <1>4, <1>5, <1>6 DEF HfStep

(* An ingest takes up what the snapshot links to.                          *)
LEMMA IngestHonest ==
  ASSUME HonestInv, NEW t \in Tasks, IngestStep(t)
  PROVE  TaskHonest(task'[t])
<1> /\ task \in [Tasks -> TaskStates] /\ task[t] \in TaskStates
    /\ TaskOK(task[t]) /\ TaskHonest(task[t])
  BY DEF HonestInv, TypeInv, TypeOK, TasksOK
<1>1. CASE IngestRead(t)
  <2>1. CASE Set(t, Blank)
    BY <2>1, BlankHonest DEF Set
  <2>2. CASE Set(t, [task[t] EXCEPT !.pc = "add", !.man = links[task[t].commit],
                                    !.files = links[task[t].commit]])
    BY <1>1, <2>2 DEF IngestRead, Set, At, TaskStates, TaskHonest, TaskOK, HonestInv,
                      Published
  <2> QED
    BY <1>1, <2>1, <2>2 DEF IngestRead
<1>2. CASE IngestNode(t)
  BY <1>2 DEF IngestNode, Set, At, TaskStates, TaskHonest
<1>3. CASE IngestDir(t)
  BY <1>3 DEF IngestDir, Set, At, TaskStates, TaskHonest
<1>4. CASE IngestMap(t)
  BY <1>4, BlankHonest DEF IngestMap, Set
<1>5. ASSUME NEW f \in Files, IngestOpen(t, f) PROVE TaskHonest(task'[t])
  <2>1. CASE Set(t, Blank)
    BY <2>1, BlankHonest DEF Set
  <2>2. CASE Set(t, [task[t] EXCEPT !.pc = "leaf", !.file = f,
                                    !.cids = FileDag[f] \ NodeOf(f)])
    BY <1>5, <2>2 DEF IngestOpen, Set, At, TaskStates, TaskHonest
  <2> QED
    BY <1>5, <2>1, <2>2 DEF IngestOpen
<1>6. ASSUME NEW x, IngestLeaf(t, x) PROVE TaskHonest(task'[t])
  BY <1>6 DEF IngestLeaf, Set, At, TaskStates, TaskHonest
<1>7. ASSUME NEW x, IngestInner(t, x) PROVE TaskHonest(task'[t])
  BY <1>7 DEF IngestInner, Set, At, TaskStates, TaskHonest
<1> QED
  BY <1>1, <1>2, <1>3, <1>4, <1>5, <1>6, <1>7 DEF IngestStep

(* An eviction works on the manifests it listed.                           *)
LEMMA EvictHonest ==
  ASSUME HonestInv, NEW t \in Tasks, EvictStep(t)
  PROVE  TaskHonest(task'[t])
<1> /\ task \in [Tasks -> TaskStates] /\ task[t] \in TaskStates
    /\ TaskOK(task[t]) /\ TaskHonest(task[t]) /\ task[t].listed \in Manifests
  BY DEF HonestInv, TypeInv, TypeOK, TasksOK, TaskStates
<1> DEFINE loop(l) == [Blank EXCEPT !.op = "evict", !.pc = "next", !.listed = l]
<1>1. CASE EvictDone(t) \/ EvictFail(t) \/ EvictUnref(t) \/ EvictRemoveRef(t)
  <2> DEFINE q == [task[t] EXCEPT !.pc = "rmref"]
  <2>1. \/ task'[t] \in {Blank, loop(task[t].listed)}
        \/ task'[t] = q /\ task[t].pc = "unref"
    <3>1. CASE EvictUnref(t)
      BY <3>1 DEF EvictUnref, Set, At
    <3> QED
      BY <1>1, <3>1 DEF EvictDone, EvictFail, EvictRemoveRef, Set
  <2>2. TaskHonest(loop(task[t].listed))
    BY LoopHonest DEF TaskHonest
  <2>3. task[t].pc = "unref" => TaskHonest(q)
    BY DEF TaskStates, TaskHonest
  <2> QED
    BY <2>1, <2>2, <2>3, BlankHonest
<1>2. ASSUME NEW c \in Commits, EvictNext(t, c) PROVE TaskHonest(task'[t])
  <2> DEFINE l == [task[t].listed EXCEPT ![c] = {}]
             q == [loop(l) EXCEPT !.pc = "others", !.commit = c,
                                  !.man = task[t].listed[c]]
  <2>1. l \in Manifests /\ \A d \in Commits : l[d] \subseteq FilesOf[d]
    BY DEF Manifests, TaskHonest
  <2>2. TaskHonest(loop(l))
    BY <2>1, LoopHonest
  <2>3. q.listed = l /\ q.pc = "others" /\ q.commit = c /\ q.files = {}
        /\ q.man = task[t].listed[c]
    BY DEF Blank
  <2>4. TaskHonest(q)
    BY <2>1, <2>3 DEF TaskHonest
  <2>5. task'[t] \in {loop(l), q}
    BY <1>2 DEF EvictNext, Set
  <2> QED
    BY <2>2, <2>4, <2>5
<1>3. CASE EvictList(t)
  BY <1>3 DEF EvictList, Set, At, TaskStates, TaskHonest
<1>4. CASE EvictTarget(t)
  BY <1>4 DEF EvictTarget, Set, At, TaskStates, TaskHonest
<1>5. CASE EvictScan(t)
  BY <1>5 DEF EvictScan, Set, At, TaskStates, TaskHonest
<1>6. CASE EvictUnmap(t)
  BY <1>6 DEF EvictUnmap, Set, At, TaskStates, TaskHonest
<1>7. CASE EvictUnlink(t)
  BY <1>7 DEF EvictUnlink, Set, At, TaskStates, TaskHonest
<1>8. ASSUME NEW o, EvictKeep(t, o) PROVE TaskHonest(task'[t])
  BY <1>8 DEF EvictKeep, Set, At, TaskStates, TaskHonest
<1>9. ASSUME NEW x, EvictDelete(t, x) PROVE TaskHonest(task'[t])
  BY <1>9 DEF EvictDelete, Set, At, TaskStates, TaskHonest
<1>10. ASSUME NEW f, EvictBlob(t, f) PROVE TaskHonest(task'[t])
  BY <1>10 DEF EvictBlob, Set, At, TaskStates, TaskHonest
<1> QED
  BY <1>1, <1>2, <1>3, <1>4, <1>5, <1>6, <1>7, <1>8, <1>9, <1>10 DEF EvictStep

(* Every task stays honest, whoever moves.                                 *)
LEMMA TasksHonest ==
  ASSUME HonestInv, [Next]_vars, NEW u \in Tasks
  PROVE  TaskHonest(task'[u])
<1>0. TypeInv /\ TaskHonest(task[u])
  BY DEF HonestInv
<1>1. ASSUME u \in Handlers, Request(u) PROVE TaskHonest(task'[u])
  <2>1. ASSUME NEW C \in SUBSET Commits, EvictBegin(u, C) PROVE TaskHonest(task'[u])
    <3> PICK c \in C : entry[c] # {}
      BY <2>1 DEF EvictBegin
    <3> QED
      BY <2>1, RequestHonest
  <2>2. ASSUME NEW c \in Commits,
               \/ PullBegin(u, c) \/ PullRelink(u, c) \/ IngestBegin(u, c)
        PROVE  TaskHonest(task'[u])
    BY <2>2, RequestHonest
  <2> QED
    BY <1>1, <2>1, <2>2 DEF Request
<1>2. ASSUME u = Watcher, PruneBegin \/ \E c \in Commits : TryIngest(c)
      PROVE  TaskHonest(task'[u])
  <2>1. PICK c \in Commits : PruneBegin \/ TryIngest(c)
    BY <1>2 DEF PruneBegin
  <2> QED
    BY <1>2, <2>1, RequestHonest
<1>3. ASSUME Crash PROVE TaskHonest(task'[u])
  BY <1>3, BlankHonest DEF Crash
<1> QED
  BY <1>0, <1>1, <1>2, <1>3, WhoMoves, PullHonest, HfHonest, IngestHonest, EvictHonest

(* Who writes the mapping bucket and the snapshots.                        *)
LEMMA PublishedStep ==
  ASSUME HonestInv, [Next]_vars
  PROVE  Published'
<1> /\ task \in [Tasks -> TaskStates] /\ entry \in Manifests /\ links \in Manifests
    /\ Handlers \subseteq Tasks /\ Published
  BY DEF HonestInv, TypeInv, TypeOK, Tasks
<1>0. \A t \in Tasks : TaskOK(task[t]) /\ TaskHonest(task[t])
  BY DEF HonestInv, TypeInv, TasksOK
<1>1. ASSUME UNCHANGED <<entry, links>> PROVE Published'
  BY <1>1 DEF Published
<1>2. ASSUME NEW t \in Tasks, NEW S, S \subseteq FilesOf[task[t].commit],
             entry' = [entry EXCEPT ![task[t].commit] = S], links' = links
      PROVE  Published'
  BY <1>2 DEF Published, Manifests
<1>3. ASSUME NEW c \in Commits, NEW S, S \subseteq FilesOf[c],
             links' = [links EXCEPT ![c] = S], entry' = entry
      PROVE  Published'
  BY <1>3 DEF Published, Manifests
<1>4. ASSUME NEW h \in Handlers, PullStep(h) PROVE Published'
  <2>1. CASE PullMap(h)
    <3>1. task[h].man \subseteq FilesOf[task[h].commit]
      BY <1>0, <2>1 DEF PullMap, At, TaskHonest
    <3> QED
      BY <1>2, <2>1, <3>1 DEF PullMap, hub
  <2> QED
    BY <1>1, <1>4, <2>1 DEF PullStep, PullRoot, PullEmpty, PullLeaves, PullPlace,
         PullFail, PullUndone, PullFile, PullChunk, PullUndo, PullInner, store, hub
<1>5. ASSUME NEW h \in Handlers, HfStep(h) PROVE Published'
  <2>1. ASSUME NEW f \in Files, WriteLink(h, f) PROVE Published'
    <3>1. task[h].commit \in Commits /\ f \in FilesOf[task[h].commit]
      BY <1>0, <2>1 DEF WriteLink, At, TaskHonest, TaskOK
    <3>2. /\ entry' = entry
          /\ \/ links' = links
             \/ links' = [links EXCEPT ![task[h].commit] = @ \cup {f}]
      BY <2>1 DEF WriteLink, store
    <3> QED
      BY <1>1, <3>1, <3>2 DEF Published, Manifests
  <2> QED
    BY <1>1, <1>5, <2>1 DEF HfStep, HfManifest, HfFetched, HfFail, WriteRef, HfFetch,
         store, hub
<1>6. ASSUME NEW t \in Tasks, IngestStep(t) PROVE Published'
  <2>1. CASE IngestMap(t)
    <3>1. task[t].man \subseteq FilesOf[task[t].commit]
      BY <1>0, <2>1 DEF IngestMap, At, TaskHonest
    <3> QED
      BY <1>2, <2>1, <3>1 DEF IngestMap, hub
  <2> QED
    BY <1>1, <1>6, <2>1 DEF IngestStep, IngestRead, IngestNode, IngestDir, IngestOpen,
         IngestLeaf, IngestInner, store, hub
<1>7. ASSUME NEW t \in Tasks, EvictStep(t) PROVE Published'
  <2>1. CASE EvictUnmap(t)
    BY <1>2, <2>1 DEF EvictUnmap, hub
  <2>2. CASE EvictUnlink(t)
    <3>1. task[t].commit \in Commits
      BY <1>0, <2>2 DEF EvictUnlink, At, TaskOK
    <3>2. entry' = entry /\ links' = [links EXCEPT ![task[t].commit] = {}]
      BY <2>2 DEF EvictUnlink, store
    <3> QED
      BY <3>1, <3>2 DEF Published, Manifests
  <2> QED
    BY <1>1, <1>7, <2>1, <2>2 DEF EvictStep, EvictDone, EvictList, EvictTarget,
         EvictScan, EvictFail, EvictUnref, EvictRemoveRef, EvictNext, EvictKeep,
         EvictDelete, EvictBlob, store, hub
<1>8. ASSUME NEW c \in Commits, HfDownload(c) PROVE Published'
  BY <1>3, <1>8 DEF HfDownload, store
<1>9. ASSUME NEW r \in Repos, DeleteRepo(r) PROVE Published'
  BY <1>9 DEF DeleteRepo, store, Published
<1>10. ASSUME NEW h \in Handlers, Request(h) PROVE Published'
  BY <1>1, <1>10 DEF Request, PullBegin, PullRelink, IngestBegin, EvictBegin, store, hub
<1> QED
  BY <1>1, <1>4, <1>5, <1>6, <1>7, <1>8, <1>9, <1>10
     DEF Next, TryIngest, PruneBegin, Crash, store, hub, vars

(* Only a pull's chunk and an ingest's leaf write a reference, and both    *)
(* write the path of the file the chunk was cut from.                      *)
LEMMA RefsTrueStep ==
  ASSUME HonestInv, [Next]_vars
  PROVE  RefsTrue'
<1> SUFFICES ASSUME NEW x \in Raw, fref'[x] # None
             PROVE  \E c \in Commits : \E f \in FilesOf[c] :
                       fref'[x] = <<RepoOf[c], f>> /\ x \in Chunks[f]
  BY DEF RefsTrue
<1> TypeInv /\ Handlers \subseteq Tasks
  BY DEF HonestInv, Tasks
<1>1. CASE fref'[x] = fref[x]
  BY <1>1 DEF HonestInv, RefsTrue
<1>2. ASSUME NEW t \in Tasks, task[t].pc \in {"chunk", "leaf"}, x \in task[t].cids,
             fref'[x] = Blob(t, task[t].file)
      PROVE  \E c \in Commits : \E f \in FilesOf[c] :
                fref'[x] = <<RepoOf[c], f>> /\ x \in Chunks[f]
  <2>1. TaskOK(task[t]) /\ TaskHonest(task[t])
    BY DEF HonestInv, TypeInv, TasksOK
  <2>2. task[t].commit \in Commits /\ task[t].file \in Files
    BY <1>2, <2>1 DEF TaskOK
  <2>3. task[t].file \in FilesOf[task[t].commit]
    BY <1>2, <2>1 DEF TaskHonest
  <2>4. x \in Chunks[task[t].file]
    BY <1>2, <2>1, <2>2 DEF TaskHonest, Chunks
  <2> QED
    BY <1>2, <2>2, <2>3, <2>4 DEF Blob, Repo
<1> QED
  BY <1>1, <1>2, WhoRefers DEF PullChunk, IngestLeaf, At

(* Who writes a leaf into the blocks bucket: the empty one's writers.      *)
LEMMA StoredOnceStep ==
  ASSUME HonestInv, [Next]_vars
  PROVE  StoredOnce'
<1> /\ TypeInv /\ Handlers \subseteq Tasks /\ StoredOnce
    /\ fref \in [Raw -> Paths \cup {None}] /\ None \notin Paths
  BY LayoutAssumption DEF HonestInv, TypeInv, TypeOK, Tasks
<1> SUFFICES ASSUME NEW x \in Raw
             PROVE  (x \in blocks' => x \in EmptyLeaves)
                    /\ (fref'[x] # None => x \notin EmptyLeaves)
  BY DEF StoredOnce
<1>1. fref'[x] # None => x \notin EmptyLeaves
  <2>1. ASSUME NEW p, PutLeaf(x, p), fref'[x] # fref[x] PROVE x \notin EmptyLeaves
    BY <2>1 DEF PutLeaf
  <2> QED
    BY <2>1, WhoRefers DEF PullChunk, IngestLeaf, StoredOnce
<1>2. x \in blocks' => x \in EmptyLeaves
  <2> SUFFICES ASSUME x \in blocks', x \notin EmptyLeaves PROVE FALSE
    OBVIOUS
  <2>1. x \notin blocks /\ x \notin Pb
    BY DagAssumption DEF StoredOnce
  <2>2. ASSUME NEW y, NEW p, PutLeaf(y, p) PROVE FALSE
    BY <2>1, <2>2 DEF PutLeaf
  <2>3. ASSUME NEW h \in Handlers, PullStep(h) PROVE FALSE
    <3>0. TaskOK(task[h]) /\ TaskHonest(task[h]) /\ task[h] \in TaskStates
      BY DEF HonestInv, TypeInv, TypeOK, TasksOK
    <3>7. ASSUME NEW X \in SUBSET Pb, NEW r, ReadThrough(h, X, r) PROVE FALSE
      BY <2>1, <3>7 DEF ReadThrough
    <3>1. ASSUME PullEmpty(h) PROVE FALSE
      BY <2>1, <3>0, <3>1 DEF PullEmpty, At, TaskHonest
    <3>2. ASSUME PullRoot(h) PROVE FALSE
      <4>1. FilesOf[task[h].commit] \in SUBSET Files
        BY <3>0, <3>2, LayoutAssumption DEF PullRoot, At, TaskOK
      <4> QED
        BY <2>1, <3>2, <3>7, <4>1, DagAssumption DEF PullRoot
    <3>3. ASSUME NEW f \in Files, PullFile(h, f) PROVE FALSE
      <4>1. {DirCid[task[h].man]} \cup NodeOf(f) \in SUBSET Pb
        BY <3>0, FindNodeType DEF TaskStates
      <4> QED
        BY <3>3, <3>7, <4>1 DEF PullFile, FindNode
    <3>4. ASSUME NEW y \in Pb, PullInner(h, y) PROVE FALSE
      BY <3>4, <3>7 DEF PullInner
    <3>5. ASSUME NEW y, PullChunk(h, y) PROVE FALSE
      BY <2>2, <3>5 DEF PullChunk
    <3>6. ASSUME NEW y, PullUndo(h, y) PROVE FALSE
      BY <2>1, <3>6 DEF PullUndo, DeleteBlock
    <3> QED
      BY <2>1, <2>3, <3>1, <3>2, <3>3, <3>4, <3>5, <3>6
         DEF PullStep, PullLeaves, PullPlace, PullFail, PullUndone, PullMap, store
  <2>4. ASSUME NEW t \in Tasks, IngestStep(t) PROVE FALSE
    <3>0. task[t] \in TaskStates
      BY DEF TypeInv, TypeOK
    <3>1. ASSUME IngestDir(t) PROVE FALSE
      BY <2>1, <3>0, <3>1, DagAssumption DEF IngestDir, TaskStates
    <3>2. ASSUME IngestNode(t) PROVE FALSE
      BY <2>1, <3>2 DEF IngestNode, NodeOf
    <3>3. ASSUME NEW y \in Pb, IngestInner(t, y) PROVE FALSE
      BY <2>1, <3>3 DEF IngestInner
    <3>4. ASSUME NEW y, IngestLeaf(t, y) PROVE FALSE
      BY <2>2, <3>4 DEF IngestLeaf
    <3> QED
      BY <2>1, <2>4, <3>1, <3>2, <3>3, <3>4
         DEF IngestStep, IngestRead, IngestMap, IngestOpen, store
  <2>5. ASSUME NEW t \in Tasks, EvictStep(t) PROVE FALSE
    BY <2>1, <2>5 DEF EvictStep, EvictDone, EvictList, EvictTarget,
         EvictScan, EvictUnmap, EvictFail, EvictUnlink, EvictUnref,
         EvictRemoveRef, EvictNext, EvictKeep, EvictDelete, EvictBlob, store
  <2>6. ASSUME NEW h \in Handlers, Request(h) \/ HfStep(h) PROVE FALSE
    BY <2>1, <2>6 DEF Request, PullBegin, PullRelink, IngestBegin, EvictBegin, HfStep,
         HfManifest, HfFetched, HfFail, WriteRef, HfFetch, WriteLink, store
  <2> QED
    BY <2>1, <2>3, <2>4, <2>5, <2>6
       DEF Next, TryIngest, HfDownload, PruneBegin, DeleteRepo, Crash, store, vars
<1> QED
  BY <1>1, <1>2

(* An empty store under an empty cache is honest.                          *)
LEMMA HonestInit == Init => HonestInv
<1> SUFFICES ASSUME Init PROVE HonestInv
  OBVIOUS
<1>1. \A t \in Tasks : TaskHonest(task[t])
  BY BlankHonest DEF Init
<1>2. Published /\ RefsTrue /\ StoredOnce
  BY DEF Init, Published, RefsTrue, StoredOnce, NoEntries
<1> QED
  BY <1>1, <1>2, TypeInit DEF HonestInv

(* Of every node, whatever runs at once: a filestore reference leads to a  *)
(* blob path of a published file that has the chunk, never to one that     *)
(* does not; each leaf is in one bucket; and what is recorded and linked   *)
(* of a revision is among its files.                                       *)
THEOREM AlwaysHonest == Spec => []HonestInv
<1>1. ASSUME HonestInv, [Next]_vars PROVE HonestInv'
  <2>1. TypeInv'
    BY <1>1, TypeStep DEF HonestInv
  <2>2. (\A t \in Tasks : TaskHonest(task[t]))'
    BY <1>1, TasksHonest
  <2> QED
    BY <1>1, <2>1, <2>2, PublishedStep, RefsTrueStep, StoredOnceStep DEF HonestInv
<1> QED
  BY HonestInit, <1>1, PTL DEF Spec

-----------------------------------------------------------------------------
(* The whole DAG of a revision                                             *)

(* A file's root belongs to its DAG.                                       *)
LEMMA RootInDag ==
  ASSUME NEW f \in Files
  PROVE  FileCid[f] \in FileDag[f]
  BY BelowGrows DEF FileDag

(* The directory and its files' DAGs, and nothing else.                    *)
LEMMA ClosureWithin ==
  ASSUME NEW S \in SUBSET Files
  PROVE  Closure(S) \subseteq {DirCid[S]} \cup UNION {FileDag[f] : f \in S}
<1> DEFINE D == UNION {FileDag[f] : f \in S}
           W == {DirCid[S]} \cup D
<1>1. Links[DirCid[S]] \subseteq D
  BY DagAssumption, RootInDag
<1>2. ASSUME NEW x \in D \cap Pb, NEW y \in Links[x] PROVE y \in D
  <2>1. PICK f \in S : x \in FileDag[f]
    OBVIOUS
  <2>2. y \in Below(FileDag[f], Pb)
    BY <1>2, <2>1 DEF Below
  <2> QED
    BY <2>1, <2>2, DagAssumption
<1>3. Below(W, Pb) \subseteq W
  BY <1>1, <1>2 DEF Below
<1>4. ASSUME NEW X, X \subseteq W PROVE Below(X, Pb) \subseteq W
  BY <1>3, <1>4 DEF Below
<1> HIDE DEF W
<1>5. Below({DirCid[S]}, Pb) \subseteq W
  BY <1>4 DEF W
<1>6. Below(Below({DirCid[S]}, Pb), Pb) \subseteq W
  BY <1>4, <1>5
<1>7. Below(Below(Below({DirCid[S]}, Pb), Pb), Pb) \subseteq W
  BY <1>4, <1>6
<1> QED
  BY <1>7 DEF Closure, Walk, W

(* The DAG of each of its files belongs to a revision's closure.           *)
LEMMA DagInClosure ==
  ASSUME NEW S \in SUBSET Files, NEW f \in S
  PROVE  FileDag[f] \subseteq Closure(S)
<1>1. {FileCid[f]} \subseteq Below({DirCid[S]}, Pb)
  BY DagAssumption DEF Below
<1>2. Below({FileCid[f]}, Pb) \subseteq Below(Below({DirCid[S]}, Pb), Pb)
  BY <1>1, BelowMonotone
<1>3. Below(Below({FileCid[f]}, Pb), Pb)
        \subseteq Below(Below(Below({DirCid[S]}, Pb), Pb), Pb)
  BY <1>2, BelowMonotone
<1> QED
  BY <1>3 DEF FileDag, Closure, Walk

(* A walk through what the node has reaches no more than the whole DAG.    *)
LEMMA WalkInClosure ==
  ASSUME NEW S \in SUBSET Files, NEW bs
  PROVE  Walk(S, bs) \subseteq Closure(S)
<1>1. ASSUME NEW X, NEW Y, X \subseteq Y PROVE Below(X, bs) \subseteq Below(Y, Pb)
  BY <1>1 DEF Below
<1>2. Below({DirCid[S]}, bs) \subseteq Below({DirCid[S]}, Pb)
  BY <1>1
<1>3. Below(Below({DirCid[S]}, bs), bs) \subseteq Below(Below({DirCid[S]}, Pb), Pb)
  BY <1>1, <1>2
<1>4. Below(Below(Below({DirCid[S]}, bs), bs), bs)
        \subseteq Below(Below(Below({DirCid[S]}, Pb), Pb), Pb)
  BY <1>1, <1>3
<1> QED
  BY <1>4 DEF Closure, Walk

(* A walk of a revision whose nodes are all there reaches all of it.       *)
LEMMA WalkWhole ==
  ASSUME NEW S \in SUBSET Files, Closure(S) \cap Pb \subseteq blocks
  PROVE  Walk(S, blocks) = Closure(S)
<1> DEFINE A == Below({DirCid[S]}, Pb)
           B == Below(A, Pb)
<1>1. {DirCid[S]} \subseteq A /\ A \subseteq B /\ B \subseteq Closure(S)
  BY BelowGrows DEF Closure, Walk
<1>2. ASSUME NEW X, X \subseteq Closure(S) PROVE Below(X, blocks) = Below(X, Pb)
  BY <1>2 DEF Below
<1>3. Below({DirCid[S]}, blocks) = A
  BY <1>1, <1>2
<1>4. Below(A, blocks) = B
  BY <1>1, <1>2
<1>5. Below(B, blocks) = Below(B, Pb)
  BY <1>1, <1>2
<1> QED
  BY <1>3, <1>4, <1>5 DEF Closure, Walk

(* All of a revision that is held: its nodes are blocks.                   *)
LEMMA HeldNodes ==
  ASSUME NEW S, \A x \in Closure(S) : Held(x)
  PROVE  Closure(S) \cap Pb \subseteq blocks
  BY DagAssumption DEF Held

-----------------------------------------------------------------------------
(* Settled revisions, with nothing kept apart                              *)

(* A guarded revision stays guarded, whatever the step.                    *)
LEMMA GuardedStep ==
  ASSUME TypeInv, [Next]_vars, NEW o \in Commits, Guarded(o), entry'[o] = entry[o],
         ~BeingEvicted(o)'
  PROVE  /\ Guarded(o)'
         /\ \A x \in Closure(entry[o]) :
               LosesHold(x) => \E h \in Handlers : At(h, "undo")
<1> DEFINE C == Closure(entry[o])
<1>1. /\ task \in [Tasks -> TaskStates] /\ entry \in Manifests
      /\ entry[o] \in SUBSET Files
  BY DEF TypeInv, TypeOK, Manifests
<1>2. C \subseteq Cids
  BY <1>1, WalkType DEF Closure
<1>3. C' = C
  BY DEF Closure, Walk, Below
<1>4. entry[o] # {} /\ ~BeingEvicted(o) /\ C \cap Pb \subseteq blocks
  BY DEF Guarded
<1>5. Walk(entry[o], blocks) = C
  BY <1>1, <1>4, WalkWhole
<1> HIDE DEF C
<1>6. ASSUME NEW t \in Tasks, task[t].commit # o
      PROVE  /\ task[t].pc = "keep" => task[t].others[o] = entry[o] \/ C \subseteq task[t].keep
             /\ task[t].pc = "delete" => C \cap task[t].cids = {}
  BY <1>6 DEF Guarded, At, C
<1>7. ASSUME NEW x \in C, LosesHold(x)
      PROVE  x \in Raw /\ \E h \in Handlers : At(h, "undo")
  <2>1. ASSUME NEW t \in Tasks, EvictDelete(t, x) PROVE FALSE
    <3>1. task[t].pc = "delete" /\ x \in task[t].cids
      BY <2>1 DEF EvictDelete, At
    <3>2. task[t].commit # o
      BY <1>4, <3>1 DEF BeingEvicted, At
    <3> QED
      BY <1>6, <1>7, <3>1, <3>2
  <2> QED
    BY <1>2, <1>7, <2>1, WhoDeletes
<1>8. C \cap Pb \subseteq blocks'
  BY <1>4, <1>7, DagAssumption DEF LosesHold, Held
<1>9. ASSUME NEW u \in Tasks, task'[u].commit # o,
             task'[u].pc \in {"keep", "delete"}
      PROVE  /\ task'[u].pc = "keep" => task'[u].others[o] = entry[o] \/ C \subseteq task'[u].keep
             /\ task'[u].pc = "delete" => C \cap task'[u].cids = {}
  <2>1. CASE task'[u] = task[u]
    BY <1>6, <1>9, <2>1
  <2>2. CASE EvictList(u)
    <3>1. /\ task'[u].pc = "keep" /\ task'[u].commit = task[u].commit
          /\ task'[u].others = [entry EXCEPT ![task[u].commit] = {}]
      BY <1>1, <2>2 DEF EvictList, Set, TaskStates
    <3> QED
      BY <1>1, <1>9, <3>1 DEF Manifests
  <2>3. ASSUME NEW d \in Commits, EvictKeep(u, d)
        PROVE  task'[u].pc = "keep"
                 /\ (task'[u].others[o] = entry[o] \/ C \subseteq task'[u].keep)
    <3> DEFINE S == task[u].others[d]
    <3>1. /\ task'[u].pc = "keep" /\ task'[u].commit = task[u].commit
          /\ task'[u].others = [task[u].others EXCEPT ![d] = {}]
          /\ task'[u].keep = task[u].keep \cup Walk(S, blocks)
          /\ task[u].pc = "keep" /\ task[u].others \in Manifests
      BY <1>1, <2>3 DEF EvictKeep, At, Set, TaskStates
    <3>2. task[u].others[o] = entry[o] \/ C \subseteq task[u].keep
      BY <1>6, <1>9, <3>1
    <3>3. CASE o = d /\ S = entry[o]
      BY <1>5, <3>1, <3>3
    <3>4. CASE o # d
      BY <3>1, <3>2, <3>4 DEF Manifests
    <3>5. CASE o = d /\ S # entry[o]
      BY <3>1, <3>2, <3>5
    <3> QED
      BY <3>1, <3>3, <3>4, <3>5
  <2>4. CASE EvictTarget(u)
    <3>1. /\ task'[u].pc = "delete" /\ task'[u].commit = task[u].commit
          /\ task'[u].cids \cap task[u].keep = {}
          /\ task[u].pc = "keep" /\ task[u].others[o] = {}
      BY <1>1, <2>4 DEF EvictTarget, At, Set, TaskStates, NoEntries
    <3> QED
      BY <1>4, <1>6, <1>9, <3>1
  <2>5. ASSUME NEW x \in Cids, EvictDelete(u, x)
        PROVE  task'[u].pc = "delete" /\ C \cap task'[u].cids = {}
    <3>1. /\ task'[u].pc = "delete" /\ task'[u].commit = task[u].commit
          /\ task'[u].cids \subseteq task[u].cids /\ task[u].pc = "delete"
      BY <1>1, <2>5 DEF EvictDelete, At, Set, TaskStates
    <3> QED
      BY <1>6, <1>9, <3>1
  <2>6. ASSUME EvictScan(u) \/ \E f \in Files : EvictBlob(u, f) PROVE FALSE
    BY <1>1, <1>9, <2>6 DEF EvictScan, EvictBlob, At, Set, TaskStates
  <2> QED
    BY <1>9, <2>1, <2>2, <2>3, <2>4, <2>5, <2>6, OnlyEvictMoves DEF EvictMove
<1>10. Guarded(o)'
  BY <1>3, <1>4, <1>8, <1>9 DEF Guarded, At, C
<1> QED
  BY <1>7, <1>10 DEF C

(* For every layout, any number of handlers and the program as it is, with *)
(* no lock anywhere: evictions, pulls, ingests, failures and crashes leave *)
(* alone what was whole before the evictions under way listed the others.  *)
(* Run v_stale_keep has a revision that was mapped afterwards.             *)
THEOREM SettledAreSpared == Spec => SettledSpared
<1>1. TypeInv /\ [Next]_vars => TypeInv'
  BY TypeStep
<1>2. TypeInv /\ [Next]_vars =>
        [\A o \in Commits : Guarded(o) /\ entry'[o] = entry[o] /\ ~BeingEvicted(o)' =>
           /\ Guarded(o)'
           /\ \A x \in Closure(entry[o]) :
                 LosesHold(x) => \E h \in Handlers : At(h, "undo")]_vars
  BY GuardedStep
<1> QED
  BY TypeInit, <1>1, <1>2, PTL DEF Spec, SettledSpared

(* o is mapped to the files S and is not being evicted.                    *)
Stands(o, S) == entry[o] = S /\ ~BeingEvicted(o)

(* No eviction is between listing the others and the end of its deletions. *)
NoSweep == \A t \in Tasks : ~At(t, "keep") /\ ~At(t, "delete")

(* The same without a word about evictions' inner state: a revision all    *)
(* of whose nodes are there at a time when no eviction sweeps, has them    *)
(* for as long as it stays mapped as it is and is not evicted itself.      *)
THEOREM SettledKeepsNodes ==
  ASSUME NEW o \in Commits, NEW S \in SUBSET Files, S # {}
  PROVE  Spec => [](NoSweep /\ Closure(S) \cap Pb \subseteq blocks /\ []Stands(o, S)
                      => [](Closure(S) \cap Pb \subseteq blocks))
<1> DEFINE N == Closure(S) \cap Pb \subseteq blocks
           M == Stands(o, S)
           G == Guarded(o)
<1>1. TypeInv /\ [Next]_vars => TypeInv'
  BY TypeStep
<1>2. NoSweep /\ N /\ M => G
  BY DEF NoSweep, Guarded, Stands
<1>3. TypeInv /\ [Next]_vars /\ G /\ M /\ M' => G'
  BY GuardedStep DEF Stands
<1>4. G /\ M => N
  BY DEF Guarded, Stands
<1> HIDE DEF N, M, G
<1>5. Spec => [](NoSweep /\ N /\ []M => []N)
  BY TypeInit, <1>1, <1>2, <1>3, <1>4, PTL DEF Spec
<1> QED
  BY <1>5 DEF N, M

(* And if no pull is from a peer, it keeps its leaves too: what the node   *)
(* could serve whole it goes on serving whole, whatever else is pulled,    *)
(* ingested, evicted, deleted or cut short by a crash, with no lock.       *)
THEOREM SettledStaysWhole ==
  ASSUME NEW o \in Commits, NEW S \in SUBSET Files, S # {}
  PROVE  Spec /\ []NoPeerPulls
           => [](NoSweep /\ (\A x \in Closure(S) : Held(x)) /\ []Stands(o, S)
                   => [](\A x \in Closure(S) : Held(x)))
<1> DEFINE N == \A x \in Closure(S) : Held(x)
           M == Stands(o, S)
           G == Guarded(o) /\ N
<1>1. TypeInv /\ [Next]_vars => TypeInv'
  BY TypeStep
<1>2. NoSweep /\ N /\ M => G
  BY HeldNodes DEF NoSweep, Guarded, Stands
<1>3. TypeInv /\ NoPeerPulls /\ [Next]_vars /\ G /\ M /\ M' => G'
  <2> SUFFICES ASSUME TypeInv, NoPeerPulls, [Next]_vars, G, M, M' PROVE G'
    OBVIOUS
  <2>1. Guarded(o)' /\ \A x \in Closure(S) : ~LosesHold(x)
    <3>1. \A h \in Handlers : ~At(h, "undo")
      BY DEF NoPeerPulls, PeerPCs, At, Tasks
    <3> QED
      BY <3>1, GuardedStep DEF Stands
  <2>2. N'
    <3>1. \A x \in Closure(S) : Held(x)'
      BY <2>1 DEF LosesHold
    <3> QED
      BY <3>1 DEF Closure, Walk, Below
  <2> QED
    BY <2>1, <2>2
<1>4. G => N
  OBVIOUS
<1> HIDE DEF N, M, G
<1>5. Spec /\ []NoPeerPulls => [](NoSweep /\ N /\ []M => []N)
  BY TypeInit, <1>1, <1>2, <1>3, <1>4, PTL DEF Spec
<1> QED
  BY <1>5 DEF N, M

-----------------------------------------------------------------------------
(* Only these change a mapping, or end an eviction's hold on it.           *)
LEMMA WhoMaps ==
  ASSUME TypeInv, [Next]_vars, NEW c \in Commits,
         entry'[c] # entry[c] \/ (BeingEvicted(c) /\ ~BeingEvicted(c)')
  PROVE  \E t \in Tasks : /\ task[t].commit = c
                          /\ \/ IngestMap(t) \/ EvictUnmap(t)
                             \/ t \in Handlers /\ PullMap(t)
<1> /\ task \in [Tasks -> TaskStates] /\ entry \in Manifests
    /\ Handlers \subseteq Tasks /\ Watcher \in Tasks
  BY DEF TypeInv, TypeOK, Tasks
<1>1. ASSUME entry' = entry, torn \subseteq torn',
             \A u \in Tasks : task[u].pc \in {"delete", "blobs"} =>
                \/ task[u].commit \in torn'
                \/ /\ task'[u].pc \in {"delete", "blobs"}
                   /\ task'[u].commit = task[u].commit
      PROVE  FALSE
  BY <1>1 DEF BeingEvicted, At
<1>2. ASSUME entry' = entry, torn \subseteq torn', NEW t \in Tasks,
             \A u \in Tasks : u # t => task'[u] = task[u],
             task[t].pc \notin {"delete", "blobs"}
      PROVE  FALSE
  BY <1>1, <1>2
<1>3. ASSUME NEW t \in Tasks, \A u \in Tasks : u # t => task'[u] = task[u],
             entry' = [entry EXCEPT ![task[t].commit] = entry'[task[t].commit]],
             torn' = torn \ {task[t].commit}
      PROVE  task[t].commit = c
  <2> SUFFICES ASSUME task[t].commit # c PROVE FALSE
    OBVIOUS
  <2>1. entry'[c] = entry[c] /\ (c \in torn => c \in torn')
    BY <1>3 DEF Manifests
  <2>2. ASSUME NEW u \in Tasks, task[u].commit = c PROVE task'[u] = task[u]
    BY <1>3, <2>2
  <2> QED
    BY <2>1, <2>2 DEF BeingEvicted, At
<1>4. ASSUME NEW h \in Handlers, Request(h) PROVE FALSE
  <2>1. /\ entry' = entry /\ torn' = torn
        /\ \A u \in Tasks : u # h => task'[u] = task[u]
        /\ task[h].pc = "idle"
    BY <1>4 DEF Request, PullBegin, PullRelink, IngestBegin, EvictBegin, Set,
                Admitted, At, store
  <2> QED
    BY <1>2, <2>1
<1>5. ASSUME NEW h \in Handlers, PullStep(h)
      PROVE  PullMap(h) /\ task[h].commit = c
  <2>1. \A u \in Tasks : u # h => task'[u] = task[u]
    BY <1>5 DEF PullStep, PullRoot, PullEmpty, PullLeaves, PullPlace, PullFail,
         PullUndone, PullMap, PullFile, PullChunk, PullUndo, PullInner, GiveUp,
         FindNode, ReadThrough, Set
  <2>2. task[h].pc \notin {"delete", "blobs"}
    BY <1>5, PullLeads
  <2>3. CASE PullMap(h)
    <3>1. /\ torn' = torn \ {task[h].commit}
          /\ entry' = [entry EXCEPT ![task[h].commit] = entry'[task[h].commit]]
      BY <2>3 DEF PullMap, Manifests
    <3> QED
      BY <1>3, <2>1, <2>3, <3>1
  <2>4. CASE ~PullMap(h)
    <3>1. entry' = entry /\ torn' = torn
      BY <1>5, <2>4 DEF PullStep, PullRoot, PullEmpty, PullLeaves, PullPlace, PullFail,
           PullUndone, PullFile, PullChunk, PullUndo, PullInner, store
    <3> QED
      BY <1>2, <2>1, <2>2, <3>1
  <2> QED
    BY <2>3, <2>4
<1>6. ASSUME NEW h \in Handlers, HfStep(h) PROVE FALSE
  <2>1. /\ entry' = entry /\ torn' = torn
        /\ \A u \in Tasks : u # h => task'[u] = task[u]
    BY <1>6 DEF HfStep, HfManifest, HfFetched, HfFail, WriteRef, HfFetch,
         WriteLink, Set, store
  <2> QED
    BY <1>2, <1>6, <2>1, HfLeads
<1>7. ASSUME NEW t \in Tasks, IngestStep(t)
      PROVE  IngestMap(t) /\ task[t].commit = c
  <2>1. \A u \in Tasks : u # t => task'[u] = task[u]
    BY <1>7 DEF IngestStep, IngestRead, IngestNode, IngestDir, IngestMap,
         IngestOpen, IngestLeaf, IngestInner, Set
  <2>2. task[t].pc \notin {"delete", "blobs"}
    BY <1>7, IngestLeads DEF IngestPCs
  <2>3. CASE IngestMap(t)
    <3>1. /\ torn' = torn \ {task[t].commit}
          /\ entry' = [entry EXCEPT ![task[t].commit] = entry'[task[t].commit]]
      BY <2>3 DEF IngestMap, Manifests
    <3> QED
      BY <1>3, <2>1, <2>3, <3>1
  <2>4. CASE ~IngestMap(t)
    <3>1. entry' = entry /\ torn' = torn
      BY <1>7, <2>4 DEF IngestStep, IngestRead, IngestNode, IngestDir,
           IngestOpen, IngestLeaf, IngestInner, store
    <3> QED
      BY <1>2, <2>1, <2>2, <3>1
  <2> QED
    BY <2>3, <2>4
<1>8. ASSUME NEW t \in Tasks, EvictStep(t)
      PROVE  EvictUnmap(t) /\ task[t].commit = c
  <2>1. \A u \in Tasks : u # t => task'[u] = task[u]
    BY <1>8 DEF EvictStep, EvictDone, EvictList, EvictTarget, EvictScan,
         EvictUnmap, EvictFail, EvictUnlink, EvictUnref, EvictRemoveRef, EvictNext,
         EvictKeep, EvictDelete, EvictBlob, Set
  <2>2. CASE EvictUnmap(t)
    <3>1. /\ torn' = torn \ {task[t].commit}
          /\ entry' = [entry EXCEPT ![task[t].commit] = entry'[task[t].commit]]
      BY <2>2 DEF EvictUnmap, Manifests
    <3> QED
      BY <1>3, <2>1, <2>2, <3>1
  <2>3. CASE EvictFail(t)
    BY <1>1, <2>1, <2>3 DEF EvictFail, store
  <2>4. CASE \/ EvictScan(t) \/ \E x \in Cids : EvictDelete(t, x)
             \/ \E f \in Files : EvictBlob(t, f)
    <3>1. entry' = entry /\ torn' = torn
      BY <2>4 DEF EvictScan, EvictDelete, EvictBlob, store
    <3>2. CASE EvictScan(t)
      BY <1>1, <2>1, <3>1, <3>2 DEF EvictScan, Set, TaskStates
    <3>3. ASSUME NEW x, EvictDelete(t, x) \/ EvictBlob(t, x)
          PROVE  task'[t].pc = task[t].pc /\ task'[t].commit = task[t].commit
      BY <3>3 DEF EvictDelete, EvictBlob, At, Set, TaskStates
    <3> QED
      BY <1>1, <2>1, <2>4, <3>1, <3>2, <3>3
  <2>5. CASE \/ EvictDone(t) \/ EvictList(t) \/ EvictTarget(t)
             \/ EvictUnlink(t) \/ EvictUnref(t) \/ EvictRemoveRef(t)
             \/ \E d \in Commits : EvictNext(t, d) \/ EvictKeep(t, d)
    <3>1. /\ entry' = entry /\ torn' = torn /\ task[t].pc \notin {"delete", "blobs"}
      BY <2>5 DEF EvictDone, EvictList, EvictTarget, EvictUnlink, EvictUnref,
                  EvictRemoveRef, EvictNext, EvictKeep, At, store
    <3> QED
      BY <1>2, <2>1, <3>1
  <2> QED
    BY <1>8, <2>2, <2>3, <2>4, <2>5 DEF EvictStep
<1>9. ASSUME PruneBegin \/ \E d \in Commits : TryIngest(d) PROVE FALSE
  <2>1. /\ entry' = entry /\ torn' = torn
        /\ \A u \in Tasks : u # Watcher => task'[u] = task[u]
        /\ task[Watcher].pc = "idle"
    BY <1>9 DEF PruneBegin, TryIngest, Set, Admitted, At, store
  <2> QED
    BY <1>2, <2>1
<1>10. ASSUME Crash PROVE FALSE
  BY <1>1, <1>10 DEF Crash, At, store
<1>11. ASSUME UNCHANGED <<store, task, torn>> PROVE FALSE
  BY <1>1, <1>11 DEF store
<1> QED
  BY <1>4, <1>5, <1>6, <1>7, <1>8, <1>9, <1>10, <1>11
     DEF Next, HfDownload, DeleteRepo, vars, store

-----------------------------------------------------------------------------
(* A node without peers holds what it shares                               *)

(* Beside an ingest nothing is taken from the blockstore.                  *)
LEMMA HeldBesideIngest ==
  ASSUME ClosureInv, [Next]_vars, NEW u \in Tasks, task[u].pc \in IngestPCs,
         NEW x \in Cids, Held(x)
  PROVE  Held(x)'
<1> SUFFICES ASSUME ~Held(x)' PROVE FALSE
  OBVIOUS
<1>1. /\ TypeInv /\ Exclusion /\ Handlers \subseteq Tasks
      /\ \A t \in Tasks : TaskOK(task[t]) /\ task[t].pc # "undo"
  BY DEF ClosureInv, ReachInv, IndInv, TypeInv, TasksOK, Tasks, PeerPCs
<1>2. PICK t \in Tasks : EvictDelete(t, x)
  BY <1>1, WhoDeletes DEF LosesHold, At
<1>3. task[t].op = "evict" /\ task[u].op \in {"pull", "ingest"}
  BY <1>1, <1>2 DEF EvictDelete, At, TaskOK, EvictPCs
<1> QED
  BY <1>1, <1>3 DEF Exclusion

(* Only an ingest goes on to the points where it adds and records.         *)
LEMMA OnlyIngestMoves ==
  ASSUME TypeInv, [Next]_vars, NEW u \in Tasks, task'[u] # task[u],
         task'[u].pc \in {"add", "leaf", "imap"}
  PROVE  IngestStep(u)
<1>1. ASSUME u = Watcher, PruneBegin \/ \E c \in Commits : TryIngest(c) PROVE FALSE
  BY <1>1, WatcherLeads
<1>2. ASSUME Crash PROVE FALSE
  BY <1>2 DEF Crash, Blank
<1> QED
  BY <1>1, <1>2, WhoMoves, RequestLeads, PullLeads, HfLeads, EvictLeads DEF EvictPCs

(* An ingest's record of what it has added stays right.                    *)
LEMMA IngestedStep ==
  ASSUME ClosureInv, [Next]_vars, NEW u \in Tasks
  PROVE  Ingested(task[u])'
<1> SUFFICES ASSUME task'[u].pc \in {"add", "leaf", "imap"} PROVE Ingested(task[u])'
  BY DEF Ingested
<1>0. /\ TypeInv /\ task \in [Tasks -> TaskStates] /\ task[u] \in TaskStates
      /\ TaskOK(task[u]) /\ Ingested(task[u]) /\ None \notin Paths
      /\ fref \in [Raw -> Paths \cup {None}] /\ links \in Manifests
  BY LayoutAssumption DEF ClosureInv, ReachInv, IndInv, TypeInv, TypeOK, TasksOK
<1> DEFINE m == task[u].man
           g == task[u].file
<1>1. m \subseteq Files /\ \A f \in Files : FileDag[f] \subseteq Cids
  BY <1>0, DagType DEF TaskStates
<1>2. task[u].pc \in IngestPCs
  BY <1>0, OnlyIngestMoves, IngestLeads DEF IngestPCs
<1>3. \A x \in Cids : Held(x) => Held(x)'
  BY <1>2, HeldBesideIngest
<1>4. task[u].pc \in {"add", "leaf", "imap"} =>
        m # {} /\ \A f \in m \ task[u].files : \A x \in FileDag[f] : Held(x)'
  BY <1>0, <1>1, <1>3 DEF Ingested
<1>5. task[u].pc = "leaf" =>
        g \in Files /\ \A x \in FileDag[g] \ (NodeOf(g) \cup task[u].cids) : Held(x)'
  BY <1>0, <1>1, <1>3 DEF Ingested, TaskOK
<1>6. CASE task'[u] = task[u]
  BY <1>4, <1>5, <1>6 DEF Ingested
<1>7. CASE IngestRead(u)
  <2>1. /\ task'[u].pc = "add" /\ task'[u].man = links[task[u].commit]
        /\ task'[u].files = links[task[u].commit] /\ links[task[u].commit] # {}
    <3>1. SnapshotComplete(task[u].commit)
      BY <1>0, <1>7 DEF IngestRead, Set, Blank
    <3>2. task'[u] = [task[u] EXCEPT !.pc = "add", !.man = links[task[u].commit],
                                     !.files = links[task[u].commit]]
      BY <1>0, <1>7, <3>1 DEF IngestRead, Set
    <3> QED
      BY <1>0, <3>1, <3>2 DEF TaskStates, SnapshotComplete
  <2> QED
    BY <2>1 DEF Ingested
<1>8. ASSUME NEW f \in Files, IngestOpen(u, f) PROVE Ingested(task[u])'
  <2>1. Blob(u, f) \in disk
    BY <1>0, <1>8 DEF IngestOpen, Set, Blank
  <2>2. /\ task'[u].pc = "leaf" /\ task'[u].man = m /\ task'[u].file = f
        /\ task'[u].files = task[u].files /\ task[u].pc = "add"
        /\ task'[u].cids = FileDag[f] \ NodeOf(f)
    <3>1. task'[u] = [task[u] EXCEPT !.pc = "leaf", !.file = f,
                                     !.cids = FileDag[f] \ NodeOf(f)]
      BY <1>0, <1>8, <2>1 DEF IngestOpen, Set
    <3> QED
      BY <1>0, <1>8, <3>1 DEF IngestOpen, At, TaskStates
  <2> QED
    BY <1>4, <2>2 DEF Ingested
<1>9. ASSUME NEW y, (y \in Raw /\ IngestLeaf(u, y)) \/ IngestInner(u, y)
      PROVE  Ingested(task[u])'
  <2>1. /\ task'[u].pc = "leaf" /\ task'[u].man = m /\ task'[u].file = g
        /\ task'[u].files = task[u].files /\ task[u].pc = "leaf"
        /\ task'[u].cids = task[u].cids \ {y}
    BY <1>0, <1>9 DEF IngestLeaf, IngestInner, At, Set, TaskStates
  <2>2. Held(y)'
    <3>1. CASE IngestInner(u, y)
      BY <3>1 DEF IngestInner, Held
    <3>2. CASE IngestLeaf(u, y) /\ y \in Raw
      <4>1. Blob(u, g) \in Paths
        BY <1>0, <1>5, <2>1, LayoutAssumption DEF Blob, Repo, Paths, TaskOK
      <4>2. PutLeaf(y, Blob(u, g))
        BY <3>2 DEF IngestLeaf
      <4> QED
        BY <1>0, <3>2, <4>1, <4>2 DEF PutLeaf, Held
    <3> QED
      BY <1>9, <3>1, <3>2
  <2> QED
    BY <1>4, <1>5, <2>1, <2>2 DEF Ingested
<1>10. CASE IngestNode(u)
  <2>1. /\ task'[u].pc = "add" /\ task'[u].man = m
        /\ task'[u].files = task[u].files \ {g} /\ task[u].pc = "leaf"
        /\ task[u].cids = {}
    BY <1>0, <1>10 DEF IngestNode, At, Set, TaskStates
  <2>2. \A x \in NodeOf(g) : Held(x)'
    BY <1>10 DEF IngestNode, Held
  <2>3. \A x \in FileDag[g] : Held(x)'
    BY <1>5, <2>1, <2>2
  <2> QED
    BY <1>4, <2>1, <2>3 DEF Ingested
<1>11. CASE IngestDir(u)
  <2>1. /\ task'[u].pc = "imap" /\ task'[u].man = m
        /\ task'[u].files = task[u].files /\ task[u].pc = "add"
    BY <1>0, <1>11 DEF IngestDir, At, Set, TaskStates
  <2> QED
    BY <1>4, <2>1 DEF Ingested
<1>12. ASSUME IngestMap(u) PROVE FALSE
  BY <1>0, <1>12 DEF IngestMap, Set, Blank
<1>13. CASE IngestStep(u)
  <2>1. ASSUME NEW y \in Raw, IngestLeaf(u, y) PROVE Ingested(task[u])'
    <3>1. y \in Raw /\ IngestLeaf(u, y)
      BY <2>1
    <3> QED
      BY <1>9, <3>1
  <2>2. ASSUME NEW y \in Pb, IngestInner(u, y) PROVE Ingested(task[u])'
    BY <1>9, <2>2
  <2> QED
    BY <1>7, <1>8, <1>10, <1>11, <1>12, <1>13, <2>1, <2>2 DEF IngestStep
<1> QED
  BY <1>0, <1>6, <1>13, OnlyIngestMoves

(* A mapping is put only for a revision that is held whole, and nothing a  *)
(* mapped revision has is taken before its own eviction.                   *)
LEMMA ClosureHeldStep ==
  ASSUME ClosureInv, [Next]_vars
  PROVE  ClosureHeld'
<1> SUFFICES ASSUME NEW c \in Commits, entry'[c] # {}, ~BeingEvicted(c)',
                    NEW x \in Closure(entry'[c])
             PROVE  Held(x)'
  BY DEF ClosureHeld, Closure, Walk, Below
<1>0. /\ ReachInv /\ TypeInv /\ entry \in Manifests /\ task \in [Tasks -> TaskStates]
      /\ Handlers \subseteq Tasks
  BY DEF ClosureInv, ReachInv, IndInv, TypeInv, TypeOK, Tasks
<1>1. CASE entry'[c] = entry[c] /\ ~BeingEvicted(c)
  <2>1. entry[c] \in SUBSET Files /\ \A y \in Closure(entry[c]) : Held(y)
    BY <1>0, <1>1 DEF Manifests, ClosureInv, ClosureHeld
  <2>2. x \in Walk(entry[c], blocks) /\ Held(x)
    BY <1>1, <2>1, WalkWhole, HeldNodes
  <2>3. ASSUME ~Held(x)' PROVE FALSE
    <3>1. PICK h \in Handlers : At(h, "undo")
      BY <1>0, <1>1, <2>2, <2>3, SparesStep DEF StaysMapped, LosesHold
    <3> QED
      BY <1>0, <3>1 DEF ClosureInv, At, PeerPCs
  <2> QED
    BY <2>3
<1>2. CASE ~(entry'[c] = entry[c] /\ ~BeingEvicted(c))
  <2>1. PICK t \in Tasks : /\ task[t].commit = c
                           /\ \/ IngestMap(t) \/ EvictUnmap(t)
                              \/ t \in Handlers /\ PullMap(t)
    BY <1>0, <1>2, WhoMaps
  <2>2. ~PullMap(t)
    BY <1>0 DEF ClosureInv, PullMap, At, PeerPCs
  <2>3. ~EvictUnmap(t)
    BY <1>0, <2>1 DEF EvictUnmap, Manifests
  <2>4. /\ entry'[c] = task[t].man /\ blocks' = blocks /\ fref' = fref
        /\ task[t].pc = "imap" /\ task[t].man \in SUBSET Files
    BY <1>0, <2>1, <2>2, <2>3 DEF IngestMap, At, Manifests, TaskStates
  <2>5. task[t].files = {} /\ DirCid[task[t].man] \in blocks
    BY <1>0, <2>4 DEF ReachInv, IndInv, Built
  <2>6. \A f \in task[t].man : \A y \in FileDag[f] : Held(y)
    BY <2>4, <2>5 DEF ClosureInv, Ingested
  <2>7. \A y \in Closure(task[t].man) : Held(y)
    BY <2>4, <2>5, <2>6, ClosureWithin DEF Held
  <2> QED
    BY <2>4, <2>7 DEF Held
<1> QED
  BY <1>1, <1>2

(* Nothing is mapped at first.                                             *)
LEMMA ClosureInit == Init => ClosureInv
<1> SUFFICES ASSUME Init PROVE ClosureInv
  OBVIOUS
<1>1. \A t \in Tasks : task[t].pc = "idle"
  BY DEF Init, Blank
<1>2. \A c \in Commits : entry[c] = {}
  BY DEF Init, NoEntries
<1> QED
  BY <1>1, <1>2, ReachInit DEF ClosureInv, Ingested, ClosureHeld, PeerPCs

(* ClosureInv is inductive for as long as both conditions last.            *)
LEMMA ClosureStep ==
  ASSUME ClosureInv, [Next]_vars, Exclusion', NoPeerPulls'
  PROVE  ClosureInv'
<1>1. ReachInv'
  BY ReachStep DEF ClosureInv
<1> QED
  BY <1>1, IngestedStep, ClosureHeldStep DEF ClosureInv, NoPeerPulls

(* For every layout, any number of handlers, whatever the user deletes and *)
(* wherever the node crashes: when pulls are from the Hub alone and no     *)
(* eviction overlaps a pull or an ingest, the node holds every CID of      *)
(* every revision it has mapped, until that revision's own eviction.       *)
(* Nothing is assumed of pulls and ingests that overlap.                   *)
THEOREM ClosureSafe == Spec /\ []Exclusion /\ []NoPeerPulls => []ClosureHeld
<1>1. ClosureInv /\ [Next]_vars /\ Exclusion' /\ NoPeerPulls' => ClosureInv'
  BY ClosureStep
<1>2. ClosureInv => ClosureHeld
  BY DEF ClosureInv
<1> QED
  BY ClosureInit, <1>1, <1>2, PTL DEF Spec

(* Both invariants, as the theorems below use them.                        *)
LEMMA HonestClosure ==
  Spec /\ []Exclusion /\ []NoPeerPulls => [](ClosureInv /\ HonestInv)
<1>1. ClosureInv /\ [Next]_vars /\ Exclusion' /\ NoPeerPulls' => ClosureInv'
  BY ClosureStep
<1> QED
  BY ClosureInit, <1>1, AlwaysHonest, PTL DEF Spec

(* No step at all takes from a mapped revision then, since nothing is      *)
(* rolled back; a pull from a peer may (run v_rollback).                   *)
THEOREM NothingTakenWithoutPeers ==
  Spec /\ []Exclusion /\ []NoPeerPulls => NothingTakenFromMapped
<1>1. ASSUME ClosureInv, [Next]_vars
      PROVE  \A c \in Commits : StaysMapped(c) =>
               \A x \in Walk(entry[c], blocks) : ~LosesHold(x)
  <2>1. \A h \in Handlers : ~At(h, "undo")
    BY <1>1 DEF ClosureInv, At, PeerPCs, Tasks
  <2> QED
    BY <1>1, <2>1, SparesStep DEF ClosureInv
<1> QED
  BY <1>1, HonestClosure, PTL DEF Spec, NothingTakenFromMapped

-----------------------------------------------------------------------------
(* Blob files that revisions share                                         *)

(* For every layout: an eviction may take a blob that another mapped       *)
(* revision of the repository links to (run v_shared_blob), but never the  *)
(* bytes.  Each chunk of that file is the empty one or is referenced in    *)
(* another file, and that file stays for as long as the reference does     *)
(* (EvictionsKeepReferencedBlobs), so that peers are still served.         *)
THEOREM SharedBlobsAreServed ==
  Spec /\ []Exclusion /\ []NoPeerPulls => SharedBlobsServed
<1>1. ASSUME ClosureInv, HonestInv, [Next]_vars
      PROVE  task' # task => \A p \in disk \ disk', c \in Commits :
               StaysMapped(c) /\ RepoOf[c] = p[1] /\ p[2] \in entry[c] =>
                  \A x \in Chunks[p[2]] :
                     x \in EmptyLeaves \/ fref[x] \notin {None, p}
  <2> SUFFICES ASSUME task' # task, NEW p \in disk \ disk', NEW c \in Commits,
                      StaysMapped(c), p[2] \in entry[c],
                      NEW x \in Chunks[p[2]], x \notin EmptyLeaves
               PROVE  fref[x] \notin {None, p}
    OBVIOUS
  <2>1. /\ ReachInv /\ TypeInv /\ entry \in Manifests /\ ClosureHeld /\ StoredOnce
    BY <1>1 DEF ClosureInv, HonestInv, TypeInv, TypeOK
  <2>2. PICK t \in Tasks : \E f \in Files : EvictBlob(t, f)
    BY <1>1, <2>1, WhoUnlinks
  <2>3. task[t].pc = "blobs" /\ p \notin task[t].paths /\ RefsListed(task[t])
    BY <2>1, <2>2 DEF EvictBlob, At, Blob, ReachInv
  <2>4. x \in Raw /\ x \in Closure(entry[c])
    BY <2>1, DagInClosure DEF Chunks, Manifests
  <2>5. fref[x] # None
    BY <2>1, <2>4 DEF StaysMapped, ClosureHeld, Held, StoredOnce
  <2> QED
    BY <2>3, <2>4, <2>5 DEF RefsListed
<1> QED
  BY <1>1, HonestClosure, PTL DEF Spec, SharedBlobsServed

-----------------------------------------------------------------------------
(* What an eviction leaves behind                                          *)

(* Who begins to evict.                                                    *)
LEMMA OnlyEvictBegins ==
  ASSUME TypeInv, [Next]_vars, NEW u \in Tasks, task[u].pc \notin EvictPCs,
         task'[u].pc \in EvictPCs
  PROVE  /\ UNCHANGED <<store, torn>>
         /\ \A v \in Tasks : v # u => task'[v] = task[v]
         /\ task'[u].pc = "next"
         /\ \A c \in Commits : task'[u].listed[c] \in {{}, entry[c]}
<1> /\ task \in [Tasks -> TaskStates] /\ Handlers \subseteq Tasks
    /\ entry \in Manifests /\ task'[u] # task[u]
  BY DEF TypeInv, TypeOK, Tasks
<1>1. ASSUME NEW C, EvictBegin(u, C)
      PROVE  /\ UNCHANGED <<store, torn>>
             /\ \A v \in Tasks : v # u => task'[v] = task[v]
             /\ task'[u].pc = "next"
             /\ \A c \in Commits : task'[u].listed[c] \in {{}, entry[c]}
  <2> DEFINE m == [c \in Commits |-> IF c \in C THEN entry[c] ELSE {}]
  <2>1. task' = [task EXCEPT ![u] = [Blank EXCEPT !.op = "evict", !.pc = "next",
                                                  !.listed = m]]
    BY <1>1 DEF EvictBegin, Set
  <2>2. task'[u].pc = "next" /\ task'[u].listed = m
    BY <2>1 DEF Blank
  <2>3. UNCHANGED <<store, torn>>
    BY <1>1 DEF EvictBegin
  <2> QED
    BY <2>1, <2>2, <2>3
<1>2. ASSUME u = Watcher, PruneBegin
      PROVE  /\ UNCHANGED <<store, torn>>
             /\ \A v \in Tasks : v # u => task'[v] = task[v]
             /\ task'[u].pc = "next"
             /\ \A c \in Commits : task'[u].listed[c] \in {{}, entry[c]}
  <2>1. task' = [task EXCEPT ![u] = [Blank EXCEPT !.op = "evict", !.pc = "next",
                                                  !.listed = entry]]
    BY <1>2 DEF PruneBegin, Set
  <2>2. task'[u].pc = "next" /\ task'[u].listed = entry
    BY <2>1 DEF Blank
  <2>3. UNCHANGED <<store, torn>>
    BY <1>2 DEF PruneBegin
  <2> QED
    BY <2>1, <2>2, <2>3
<1>3. ASSUME NEW c \in Commits, TryIngest(c), u = Watcher PROVE FALSE
  BY <1>3 DEF TryIngest, Set, Blank, EvictPCs
<1>4. ASSUME Crash PROVE FALSE
  BY <1>4 DEF Crash, Blank, EvictPCs
<1>5. ASSUME u \in Handlers, Request(u) PROVE \E C : EvictBegin(u, C)
  <2>1. ASSUME NEW c \in Commits, PullBegin(u, c) PROVE FALSE
    BY <2>1 DEF PullBegin, Set, Blank, EvictPCs
  <2>2. ASSUME NEW c \in Commits, PullRelink(u, c) PROVE FALSE
    BY <2>2 DEF PullRelink, Set, Blank, EvictPCs
  <2>3. ASSUME NEW c \in Commits, IngestBegin(u, c) PROVE FALSE
    BY <2>3 DEF IngestBegin, Set, Blank, EvictPCs
  <2> QED
    BY <1>5, <2>1, <2>2, <2>3 DEF Request
<1>6. \/ \E C : EvictBegin(u, C)
      \/ u = Watcher /\ PruneBegin
  BY <1>3, <1>4, <1>5, WhoMoves, PullLeads, HfLeads, IngestLeads, EvictLeads
     DEF EvictPCs
<1> QED
  BY <1>1, <1>2, <1>6

(* While it is not an eviction's turn, nothing it relies on changes.       *)
LEMMA EvictionAlone ==
  ASSUME IndInv, OneEviction, [Next]_vars, NEW u \in Tasks,
         task[u].pc \in EvictPCs, task'[u] = task[u]
  PROVE  UNCHANGED <<store, torn>>
<1> TypeInv /\ task \in [Tasks -> TaskStates] /\ Handlers \subseteq Tasks
  BY DEF IndInv, TypeInv, TypeOK, Tasks
<1>1. \A t \in Tasks : task[t].op \notin {"pull", "ingest"} /\ TaskOK(task[t])
  BY DEF IndInv, Exclusion, TypeInv, TasksOK, TaskOK
<1>2. ASSUME NEW t \in Tasks PROVE task[t].pc \notin PeerPCs \cup IngestPCs
  BY <1>1 DEF TaskOK, PullPCs, PeerPCs
<1>3. ASSUME NEW h \in Handlers, PullStep(h) PROVE FALSE
  BY <1>2, <1>3, PullLeads DEF PeerPCs
<1>4. ASSUME NEW t \in Tasks, IngestStep(t) PROVE FALSE
  BY <1>2, <1>4, IngestLeads
<1>5. ASSUME NEW h \in Handlers, Request(h) \/ HfStep(h)
      PROVE  UNCHANGED <<store, torn>>
  BY <1>5 DEF Request, PullBegin, PullRelink, IngestBegin, EvictBegin, HfStep,
       HfManifest, HfFetched, HfFail, WriteRef, HfFetch, WriteLink
<1>6. ASSUME NEW t \in Tasks, EvictStep(t) PROVE FALSE
  <2>1. t = u /\ task[u] \in TaskStates
    BY <1>6, EvictLeads DEF OneEviction
  <2>3. CASE EvictDone(u)
    BY <2>3 DEF EvictDone, Set, Blank, EvictPCs
  <2>4. CASE EvictList(u)
    BY <2>1, <2>4 DEF EvictList, At, Set, TaskStates
  <2>5. CASE EvictTarget(u)
    BY <2>1, <2>5 DEF EvictTarget, At, Set, TaskStates
  <2>6. CASE EvictScan(u)
    BY <2>1, <2>6 DEF EvictScan, At, Set, TaskStates
  <2>7. CASE EvictUnmap(u)
    BY <2>1, <2>7 DEF EvictUnmap, At, Set, TaskStates
  <2>8. CASE EvictUnlink(u)
    BY <2>1, <2>8 DEF EvictUnlink, At, Set, TaskStates
  <2>9. CASE EvictFail(u) \/ EvictUnref(u) \/ EvictRemoveRef(u)
    <3> DEFINE r == [Blank EXCEPT !.op = "evict", !.pc = "next",
                                  !.listed = task[u].listed]
               q == [task[u] EXCEPT !.pc = "rmref"]
    <3>1. /\ task'[u] \in {r, Blank, q}
          /\ task[u].pc \in {"delete", "blobs", "unref", "rmref"}
          /\ task'[u] = q => task[u].pc = "unref"
      <4>1. CASE EvictUnref(u)
        BY <4>1 DEF EvictUnref, Set, At
      <4>2. CASE EvictFail(u) \/ EvictRemoveRef(u)
        <5>1. task'[u] \in {r, Blank} /\ task[u].pc \in {"delete", "blobs", "rmref"}
          BY <4>2 DEF EvictFail, EvictRemoveRef, Set, At
        <5>2. q.pc = "rmref" /\ r.pc = "next" /\ Blank.pc = "idle"
          BY <2>1 DEF Blank, TaskStates
        <5> QED
          BY <5>1, <5>2
      <4> QED
        BY <2>9, <4>1, <4>2
    <3>2. r.pc = "next" /\ Blank.pc = "idle" /\ q.pc = "rmref"
      BY <2>1 DEF Blank, TaskStates
    <3> QED
      BY <3>1, <3>2
  <2>10. ASSUME NEW c \in Commits, EvictNext(u, c) PROVE FALSE
    <3> DEFINE l == [task[u].listed EXCEPT ![c] = {}]
               r == [Blank EXCEPT !.op = "evict", !.pc = "next", !.listed = l]
               q == [r EXCEPT !.pc = "others", !.commit = c,
                              !.man = task[u].listed[c]]
    <3>1. task'[u] \in {r, q} /\ task[u].listed[c] # {}
      BY <2>10 DEF EvictNext, Set
    <3>2. r.listed = l /\ q.listed = l
      BY DEF Blank
    <3>3. l[c] = {}
      BY <2>1 DEF TaskStates, Manifests
    <3> QED
      BY <3>1, <3>2, <3>3
  <2>11. ASSUME NEW c \in Commits, EvictKeep(u, c) PROVE FALSE
    <3>1. task'[u].others = [task[u].others EXCEPT ![c] = {}] /\ task[u].others[c] # {}
      BY <2>1, <2>11 DEF EvictKeep, Set, TaskStates
    <3> QED
      BY <2>1, <3>1 DEF TaskStates, Manifests
  <2>12. ASSUME NEW x \in Cids, EvictDelete(u, x) PROVE FALSE
    <3>1. task'[u].cids = task[u].cids \ {x} /\ x \in task[u].cids
      BY <2>1, <2>12 DEF EvictDelete, Set, TaskStates
    <3> QED
      BY <3>1
  <2>13. ASSUME NEW f \in Files, EvictBlob(u, f) PROVE FALSE
    <3>1. task'[u].files = task[u].files \ {f} /\ f \in task[u].files
      BY <2>1, <2>13 DEF EvictBlob, Set, TaskStates
    <3> QED
      BY <3>1
  <2> QED
    BY <1>6, <2>1, <2>3, <2>4, <2>5, <2>6, <2>7, <2>8, <2>9, <2>10, <2>11, <2>12,
       <2>13 DEF EvictStep
<1>7. ASSUME Crash PROVE FALSE
  BY <1>7 DEF Crash, Blank, EvictPCs
<1> QED
  BY <1>3, <1>4, <1>5, <1>6, <1>7
     DEF Next, TryIngest, HfDownload, PruneBegin, DeleteRepo, store, vars

(* Target of a task whose eviction has not got to the walks yet, or is     *)
(* past the mapping.                                                       *)
LEMMA TargetIdle ==
  ASSUME NEW u \in Tasks,
         task'[u].pc \in EvictPCs =>
            /\ task'[u].pc \in {"next", "unlink", "unref", "rmref"}
            /\ \A c \in Commits : task'[u].listed[c] \in {{}, entry'[c]}
            /\ task'[u].pc # "next" => task'[u].listed[task'[u].commit] = {}
  PROVE  Target(task[u])'
  BY DEF Target, EvictPCs

(* An eviction's next step, from the target's listing to its removal.      *)
LEMMA TargetMove ==
  ASSUME ClosureInv, HonestInv, OneEviction, NEW u \in Tasks, Target(task[u]),
         EvictMove(u)
  PROVE  Target(task[u])'
<1> /\ task \in [Tasks -> TaskStates] /\ task[u] \in TaskStates
    /\ entry \in Manifests /\ TaskOK(task[u]) /\ blocks \subseteq Cids
    /\ fref \in [Raw -> Paths \cup {None}] /\ StoredOnce
  BY DEF HonestInv, TypeInv, TypeOK, TasksOK
<1> DEFINE c == task[u].commit
           m == task[u].man
           Same == /\ task'[u].commit = c /\ task'[u].man = m
                   /\ task'[u].listed = task[u].listed
                   /\ entry' = entry /\ torn' = torn
<1>1. /\ task[u].pc \in {"others", "keep", "delete", "blobs"}
      /\ c \in Commits /\ m = entry[c] /\ m # {} /\ m \in SUBSET Files
      /\ task[u].listed[c] = {}
      /\ \A d \in Commits : task[u].listed[d] \in {{}, entry[d]}
  <2>1. task[u].pc \in {"others", "keep", "delete", "blobs"}
    BY DEF EvictMove, EvictList, EvictTarget, EvictScan, EvictKeep, EvictDelete,
           EvictBlob, At
  <2> QED
    BY <2>1 DEF TaskOK, Target, TaskStates, EvictPCs
<1>2. ASSUME Same,
             task'[u].pc \in {"keep", "delete", "blobs"},
             task'[u].pc = "keep" =>
               /\ \A x \in task'[u].keep : Elsewhere(x, c)
               /\ task'[u].others[c] = {}
               /\ \A o \in Commits : task'[u].others[o] \in {{}, entry[o]},
             task'[u].pc = "blobs" => task'[u].cids = {},
             task'[u].pc = "delete" => task'[u].cids \subseteq Closure(m),
             task'[u].pc \in {"delete", "blobs"} /\ c \notin torn =>
               \A x \in Closure(m) : Held(x)' =>
                  x \in task'[u].cids \/ Elsewhere(x, c)
      PROVE  Target(task[u])'
  <2>1. \A x : Elsewhere(x, c) <=> Elsewhere(x, c)'
    BY <1>2 DEF Elsewhere, Closure, Walk, Below
  <2> QED
    BY <1>1, <1>2, <2>1 DEF Target, EvictPCs, Closure, Walk, Below
<1>3. CASE EvictList(u)
  <2>1. /\ Same /\ task'[u].pc = "keep" /\ task'[u].keep = task[u].keep
        /\ task'[u].others = [entry EXCEPT ![c] = {}] /\ task[u].pc = "others"
    BY <1>3 DEF EvictList, At, Set, TaskStates, store
  <2>2. task[u].keep = {}
    BY <2>1 DEF Target
  <2> QED
    BY <1>1, <1>2, <2>1, <2>2 DEF Manifests
<1>4. ASSUME NEW o \in Commits, EvictKeep(u, o) PROVE Target(task[u])'
  <2> DEFINE S == task[u].others[o]
  <2>1. /\ Same /\ task'[u].pc = "keep" /\ task[u].pc = "keep" /\ S # {}
        /\ task'[u].keep = task[u].keep \cup Walk(S, blocks)
        /\ task'[u].others = [task[u].others EXCEPT ![o] = {}]
    BY <1>4 DEF EvictKeep, At, Set, TaskStates, store
  <2>2. /\ S = entry[o] /\ o # c /\ S \in SUBSET Files
        /\ task[u].others[c] = {}
        /\ \A d \in Commits : task[u].others[d] \in {{}, entry[d]}
        /\ \A x \in task[u].keep : Elsewhere(x, c)
    BY <2>1 DEF Target, Manifests
  <2>3. \A x \in Walk(S, blocks) : Elsewhere(x, c)
    BY <2>1, <2>2, WalkInClosure DEF Elsewhere
  <2>4. /\ task'[u].others[c] = {}
        /\ \A d \in Commits : task'[u].others[d] \in {{}, entry[d]}
    BY <1>1, <2>1, <2>2 DEF TaskStates, Manifests
  <2> QED
    BY <1>2, <2>1, <2>2, <2>3, <2>4
<1>5. CASE EvictTarget(u)
  <2>1. /\ Same /\ task'[u].pc = "delete" /\ task[u].pc = "keep"
        /\ task'[u].cids = Walk(m, blocks) \ task[u].keep
        /\ blocks' = blocks /\ fref' = fref
    BY <1>5 DEF EvictTarget, At, Set, TaskStates, store
  <2>2. \A x \in task[u].keep : Elsewhere(x, c)
    BY <2>1 DEF Target
  <2>3. ASSUME c \notin torn PROVE Walk(m, blocks) = Closure(m)
    <3>1. ASSUME NEW t \in Tasks, task[t].pc \in {"delete", "blobs"} PROVE FALSE
      BY <2>1, <3>1 DEF OneEviction, EvictPCs
    <3>2. ~BeingEvicted(c)
      BY <2>3, <3>1 DEF BeingEvicted, At
    <3>3. \A x \in Closure(m) : Held(x)
      BY <1>1, <3>2 DEF ClosureInv, ClosureHeld
    <3> QED
      BY <1>1, <3>3, WalkWhole, HeldNodes
  <2>4. Walk(m, blocks) \subseteq Closure(m)
    BY <1>1, WalkInClosure
  <2> QED
    BY <1>2, <2>1, <2>2, <2>3, <2>4
<1>6. ASSUME NEW y \in Cids, EvictDelete(u, y) PROVE Target(task[u])'
  <2>1. /\ Same /\ task'[u].pc = "delete" /\ task[u].pc = "delete"
        /\ task'[u].cids = task[u].cids \ {y}
    BY <1>6 DEF EvictDelete, At, Set, TaskStates
  <2>2. ~Held(y)'
    <3>1. CASE y \in Raw /\ fref[y] # None
      BY <1>6, <3>1 DEF EvictDelete, Held, StoredOnce
    <3>2. CASE ~(y \in Raw /\ fref[y] # None)
      BY <1>6, <3>2 DEF EvictDelete, Held
    <3> QED
      BY <3>1, <3>2
  <2>3. \A x : Held(x)' => Held(x)
    BY <1>6 DEF EvictDelete, Held
  <2>4. /\ task[u].cids \subseteq Closure(m)
        /\ c \notin torn =>
             \A x \in Closure(m) : Held(x) => x \in task[u].cids \/ Elsewhere(x, c)
    BY <2>1 DEF Target
  <2> QED
    BY <1>2, <2>1, <2>2, <2>3, <2>4
<1>7. CASE EvictScan(u)
  <2>1. /\ Same /\ task'[u].pc = "blobs" /\ task[u].pc = "delete"
        /\ task'[u].cids = task[u].cids /\ task[u].cids = {}
        /\ blocks' = blocks /\ fref' = fref
    BY <1>7 DEF EvictScan, At, Set, TaskStates, store
  <2>2. c \notin torn =>
          \A x \in Closure(m) : Held(x) => x \in task[u].cids \/ Elsewhere(x, c)
    BY <2>1 DEF Target
  <2> QED
    BY <1>2, <2>1, <2>2 DEF Held
<1>8. ASSUME NEW f \in Files, EvictBlob(u, f) PROVE Target(task[u])'
  <2>1. /\ Same /\ task'[u].pc = "blobs" /\ task[u].pc = "blobs"
        /\ task'[u].cids = task[u].cids /\ blocks' = blocks /\ fref' = fref
    BY <1>8 DEF EvictBlob, At, Set, TaskStates, store
  <2>2. /\ task[u].cids = {}
        /\ c \notin torn =>
             \A x \in Closure(m) : Held(x) => x \in task[u].cids \/ Elsewhere(x, c)
    BY <2>1 DEF Target
  <2> QED
    BY <1>2, <2>1, <2>2 DEF Held
<1> QED
  BY <1>3, <1>4, <1>5, <1>6, <1>7, <1>8 DEF EvictMove

(* What an eviction knows of its target stays true: by its own steps, and  *)
(* because the store stands still at the others'.                          *)
LEMMA TargetStep ==
  ASSUME LeftoverInv, [Next]_vars, NEW u \in Tasks
  PROVE  Target(task[u])'
<1> /\ TypeInv /\ IndInv /\ OneEviction /\ HonestInv /\ ClosureInv /\ Target(task[u])
    /\ task \in [Tasks -> TaskStates] /\ task[u] \in TaskStates /\ TaskOK(task[u])
    /\ entry \in Manifests
  BY DEF LeftoverInv, HonestInv, ClosureInv, ReachInv, TypeInv, TypeOK, TasksOK
<1> DEFINE loop(l) == [Blank EXCEPT !.op = "evict", !.pc = "next", !.listed = l]
<1>1. CASE task'[u].pc \notin EvictPCs
  BY <1>1, TargetIdle
<1>2. CASE task[u].pc \notin EvictPCs /\ task'[u].pc \in EvictPCs
  BY <1>2, OnlyEvictBegins, TargetIdle DEF store
<1>3. CASE task[u].pc \in EvictPCs /\ task'[u] = task[u]
  <2>1. UNCHANGED <<store, torn>>
    BY <1>3, EvictionAlone
  <2> QED
    BY <1>3, <2>1 DEF Target, Elsewhere, Held, store, Closure, Walk, Below
<1>4. CASE task[u].pc \in EvictPCs /\ task'[u].pc \in EvictPCs /\ EvictStep(u)
  <2>0. \A c \in Commits : task[u].listed[c] \in {{}, entry[c]}
    BY <1>4 DEF Target
  <2>1. CASE EvictMove(u)
    BY <2>1, TargetMove
  <2>2. CASE EvictDone(u) \/ EvictFail(u) \/ EvictUnref(u) \/ EvictRemoveRef(u)
    <3> DEFINE q == [task[u] EXCEPT !.pc = "rmref"]
    <3>1. /\ entry' = entry
          /\ \/ task'[u] \in {loop(task[u].listed), Blank}
             \/ task'[u] = q /\ task[u].pc = "unref"
      <4>1. CASE EvictUnref(u)
        BY <4>1 DEF EvictUnref, Set, At, store
      <4> QED
        BY <2>2, <4>1 DEF EvictDone, EvictFail, EvictRemoveRef, Set, store
    <3>2. /\ loop(task[u].listed).pc = "next" /\ Blank.pc = "idle"
          /\ loop(task[u].listed).listed = task[u].listed
      BY DEF Blank
    <3>3. q.pc = "rmref" /\ q.listed = task[u].listed /\ q.commit = task[u].commit
      BY DEF TaskStates
    <3>4. task[u].pc = "unref" => task[u].listed[task[u].commit] = {}
      BY DEF Target, EvictPCs
    <3>5. CASE task'[u] = q /\ task[u].pc = "unref"
      <4> HIDE DEF q
      <4> QED
        BY <2>0, <3>1, <3>3, <3>4, <3>5, TargetIdle
    <3> QED
      BY <2>0, <3>1, <3>2, <3>5, TargetIdle DEF EvictPCs
  <2>3. CASE EvictUnlink(u)
    <3>1. /\ task'[u].pc = "unref" /\ task'[u].listed = task[u].listed
          /\ task'[u].commit = task[u].commit /\ entry' = entry
          /\ task[u].pc = "unlink"
      BY <2>3 DEF EvictUnlink, At, Set, TaskStates, store
    <3>2. task[u].listed[task[u].commit] = {}
      BY <3>1 DEF Target, EvictPCs
    <3> QED
      BY <2>0, <3>1, <3>2, TargetIdle
  <2>4. CASE EvictUnmap(u)
    <3>1. /\ task'[u].pc = "unlink" /\ task'[u].listed = task[u].listed
          /\ task'[u].commit = task[u].commit /\ task[u].pc = "blobs"
          /\ entry' = [entry EXCEPT ![task[u].commit] = {}]
      BY <2>4 DEF EvictUnmap, At, Set, TaskStates
    <3>2. task[u].listed[task[u].commit] = {} /\ task[u].commit \in Commits
      BY <3>1 DEF Target, EvictPCs, TaskOK
    <3>3. \A c \in Commits : task'[u].listed[c] \in {{}, entry'[c]}
      BY <2>0, <3>1, <3>2 DEF Manifests
    <3> QED
      BY <3>1, <3>2, <3>3, TargetIdle
  <2>5. ASSUME NEW c \in Commits, EvictNext(u, c) PROVE Target(task[u])'
    <3> DEFINE l == [task[u].listed EXCEPT ![c] = {}]
               q == [loop(l) EXCEPT !.pc = "others", !.commit = c,
                                    !.man = task[u].listed[c]]
    <3>1. /\ task'[u] \in {loop(l), q} /\ entry' = entry
          /\ task[u].listed[c] # {}
      BY <2>5 DEF EvictNext, Set, store
    <3>2. l[c] = {} /\ \A d \in Commits : l[d] \in {{}, entry[d]}
      BY <2>0 DEF TaskStates, Manifests
    <3>3. loop(l).pc = "next" /\ loop(l).listed = l
      BY DEF Blank
    <3>4. /\ q.pc = "others" /\ q.listed = l /\ q.commit = c /\ q.keep = {}
          /\ q.man = task[u].listed[c]
      BY DEF Blank
    <3>5. CASE task'[u] = loop(l)
      BY <3>1, <3>2, <3>3, <3>5, TargetIdle
    <3>6. CASE task'[u] = q
      <4> HIDE DEF q, l
      <4>1. task[u].listed[c] = entry'[c]
        BY <2>0, <3>1
      <4> QED
        BY <3>1, <3>2, <3>4, <3>6, <4>1 DEF Target
    <3> QED
      BY <3>1, <3>5, <3>6
  <2> QED
    BY <1>4, <2>1, <2>2, <2>3, <2>4, <2>5 DEF EvictStep, EvictMove
<1>5. ASSUME task[u].pc \in EvictPCs, task'[u].pc \in EvictPCs, task'[u] # task[u]
      PROVE  EvictStep(u)
  <2>1. ASSUME u \in Handlers, Request(u) PROVE FALSE
    BY <1>5, <2>1 DEF Request, PullBegin, PullRelink, IngestBegin, EvictBegin,
         Admitted, At, EvictPCs
  <2>2. ASSUME u = Watcher, PruneBegin \/ \E c \in Commits : TryIngest(c) PROVE FALSE
    BY <1>5, <2>2 DEF PruneBegin, TryIngest, Admitted, At, EvictPCs
  <2>3. ASSUME Crash PROVE FALSE
    BY <1>5, <2>3 DEF Crash, Blank, EvictPCs
  <2> QED
    BY <1>5, <2>1, <2>2, <2>3, WhoMoves, PullLeads, HfLeads, IngestLeads
       DEF EvictPCs, IngestPCs
<1> QED
  BY <1>1, <1>2, <1>3, <1>4, <1>5

(* LeftoverInv is inductive, if no two evictions overlap either.           *)
LEMMA LeftoverSafe ==
  Spec /\ []Exclusion /\ []NoPeerPulls /\ []OneEviction => []LeftoverInv
<1>1. Init => LeftoverInv
  <2> SUFFICES ASSUME Init PROVE LeftoverInv
    OBVIOUS
  <2>1. \A t \in Tasks : task[t].pc = "idle"
    BY DEF Init, Blank
  <2> QED
    BY <2>1, ClosureInit, HonestInit DEF LeftoverInv, OneEviction, Target, EvictPCs
<1>2. ASSUME LeftoverInv, ClosureInv', HonestInv', OneEviction', [Next]_vars
      PROVE  LeftoverInv'
  BY <1>2, TargetStep DEF LeftoverInv
<1> QED
  BY <1>1, <1>2, HonestClosure, PTL DEF Spec

(* If evictions do not overlap each other: for every layout, when one *)
(* that was not cut short unmaps its revision, every block and reference   *)
(* of that revision is gone but those that another mapped revision needs.  *)
(* Two evictions at once may each keep what both revisions have, for the   *)
(* sake of the other's, and leave it behind.                               *)
THEOREM EvictionsLeaveNothing ==
  Spec /\ []Exclusion /\ []NoPeerPulls /\ []OneEviction => EvictLeavesNothing
<1>1. ASSUME LeftoverInv, [Next]_vars
      PROVE  \A c \in Commits : entry[c] # {} /\ entry'[c] = {} /\ c \notin torn =>
               \A x \in Closure(entry[c]) : Held(x)' =>
                  \E o \in Commits : entry'[o] # {} /\ x \in Closure(entry'[o])
  <2> SUFFICES ASSUME NEW c \in Commits, entry[c] # {}, entry'[c] = {}, c \notin torn,
                      NEW x \in Closure(entry[c]), Held(x)'
               PROVE  \E o \in Commits : entry'[o] # {} /\ x \in Closure(entry'[o])
    OBVIOUS
  <2>0. /\ TypeInv /\ entry \in Manifests /\ ClosureInv
        /\ \A t \in Tasks : Target(task[t])
    BY <1>1 DEF LeftoverInv, HonestInv, TypeInv, TypeOK
  <2>1. PICK t \in Tasks : /\ task[t].commit = c
                           /\ \/ IngestMap(t) \/ EvictUnmap(t)
                              \/ t \in Handlers /\ PullMap(t)
    BY <1>1, <2>0, WhoMaps
  <2>2. ~PullMap(t)
    BY <2>0 DEF ClosureInv, PullMap, At, PeerPCs
  <2>3. ~IngestMap(t)
    BY <2>0, <2>1 DEF ClosureInv, Ingested, IngestMap, At, Manifests
  <2>4. /\ task[t].pc = "blobs" /\ blocks' = blocks /\ fref' = fref
        /\ entry' = [entry EXCEPT ![c] = {}]
    BY <2>1, <2>2, <2>3 DEF EvictUnmap, At
  <2>5. Elsewhere(x, c)
    BY <2>0, <2>1, <2>4 DEF Target, Held
  <2> QED
    BY <2>0, <2>4, <2>5 DEF Elsewhere, Manifests
<1> QED
  BY <1>1, LeftoverSafe, PTL DEF Spec, EvictLeavesNothing

-----------------------------------------------------------------------------
(* What its peers see of the node                                          *)

Leaving == {c \in Commits : entry[c] # {} /\ BeingEvicted(c)}
Served  == blocks \cup {x \in Raw : fref[x] # None}

(* What is served is what the blockstore has.                              *)
LEMMA ServedIsHeld == \A x : x \in Served <=> Held(x)
  BY DEF Served, Held

(* A step that begins, carries on or leaves no deletion.                   *)
Aside == \A u \in Tasks :
            \/ task'[u] = task[u]
            \/ /\ task[u].pc \notin {"delete", "blobs"}
               /\ task'[u].pc \notin {"delete", "blobs"}
            \/ /\ task[u].pc \in {"delete", "blobs"}
               /\ task'[u].pc \in {"delete", "blobs"}
               /\ task'[u].commit = task[u].commit

(* Such a step withdraws nothing and ends no withdrawal.                   *)
LEMMA LeavingSame ==
  ASSUME Aside, entry' = entry, torn' = torn
  PROVE  Leaving' = Leaving
  BY DEF Aside, Leaving, BeingEvicted, At

(* To its peers such a step is one that adds to what is served.            *)
LEMMA AsideGains ==
  ASSUME Aside, entry' = entry, torn' = torn, Served \subseteq Served'
  PROVE  Peers!Gain
  BY LeavingSame DEF Peers!Gain, Leaving, Served

(* Ingest.Run's Mapping.Put: the revision is held whole, and nothing is    *)
(* being evicted.                                                          *)
LEMMA MapOffers ==
  ASSUME ClosureInv, NEW t \in Tasks, IngestMap(t),
         NEW c \in Commits, c = task[t].commit
  PROVE  Peers!Offer(c)
<1> /\ TypeInv /\ task \in [Tasks -> TaskStates] /\ entry \in Manifests
    /\ TaskOK(task[t]) /\ Exclusion /\ Built(task[t]) /\ Ingested(task[t])
  BY DEF ClosureInv, ReachInv, IndInv, TypeInv, TypeOK, TasksOK
<1>1. /\ task[t].pc = "imap" /\ c \in Commits /\ task[t].man \in SUBSET Files
      /\ entry' = [entry EXCEPT ![c] = task[t].man] /\ torn' = torn \ {c}
      /\ blocks' = blocks /\ fref' = fref
      /\ \A u \in Tasks : u # t => task'[u] = task[u]
  BY DEF IngestMap, At, Set, TaskOK, TaskStates
<1>2. task[t].man # {} /\ \A x \in Closure(task[t].man) : Held(x)
  <2>1. task[t].files = {} /\ DirCid[task[t].man] \in blocks
    BY <1>1 DEF Built
  <2>2. task[t].man # {} /\ \A f \in task[t].man : \A y \in FileDag[f] : Held(y)
    BY <1>1, <2>1 DEF Ingested
  <2> QED
    BY <1>1, <2>1, <2>2, ClosureWithin DEF Held
<1>3. \A u \in Tasks : task[u].pc \notin {"delete", "blobs"}
                       /\ task'[u].pc \notin {"delete", "blobs"}
  <2>1. \A u \in Tasks : task[u].op # "evict"
    BY <1>1 DEF Exclusion, TaskOK, IngestPCs
  <2>2. \A u \in Tasks : task[u].pc \notin {"delete", "blobs"}
    BY <2>1 DEF TypeInv, TasksOK, TaskOK, EvictPCs
  <2>3. task'[t].pc \notin {"delete", "blobs"}
    <3>1. IngestStep(t)
      BY DEF IngestStep
    <3> QED
      BY <3>1, IngestLeads
  <2> QED
    BY <1>1, <2>2, <2>3
<1>4. entry'[c] = task[t].man /\ \A d \in Commits \ {c} : entry'[d] = entry[d]
  BY <1>1 DEF Manifests
<1>5. Leaving' = Leaving \ {c}
  BY <1>1, <1>3, <1>4 DEF Leaving, BeingEvicted, At
<1>6. {d \in torn' : entry'[d] # {}} = {d \in torn : entry[d] # {}} \ {c}
  <2> torn \subseteq Commits
    BY DEF TypeInv, TypeOK
  <2> QED
    BY <1>1, <1>4
<1>7. Served' = Served /\ Closure(entry'[c]) \subseteq Served
  BY <1>1, <1>2, <1>4, ServedIsHeld DEF Served
<1> QED
  BY <1>1, <1>2, <1>4, <1>5, <1>6, <1>7 DEF Peers!Offer, Leaving, Served

(* The end of an eviction's walks, before its first deletion.              *)
LEMMA TargetWithdraws ==
  ASSUME LeftoverInv, NEW t \in Tasks, EvictTarget(t),
         NEW c \in Commits, c = task[t].commit
  PROVE  Peers!Withdraw(c)
<1> /\ task \in [Tasks -> TaskStates] /\ TaskOK(task[t]) /\ Target(task[t])
    /\ torn \subseteq Commits
  BY DEF LeftoverInv, HonestInv, TypeInv, TypeOK, TasksOK
<1>1. /\ task[t].pc = "keep" /\ task'[t].pc = "delete" /\ task'[t].commit = c
      /\ \A u \in Tasks : u # t => task'[u] = task[u]
      /\ UNCHANGED <<entry, blocks, fref, torn>>
  BY DEF EvictTarget, At, Set, TaskStates, store
<1>2. c \in Commits /\ entry[c] # {}
  BY <1>1 DEF TaskOK, Target
<1>3. Leaving' = Leaving \cup {c}
  BY <1>1, <1>2 DEF Leaving, BeingEvicted, At
<1> QED
  BY <1>1, <1>2, <1>3 DEF Peers!Withdraw, Peers!OnOffer, Leaving, Served

(* A deletion takes from the revision on its way out alone.                *)
LEMMA DeleteDrops ==
  ASSUME LeftoverInv, ClosureHeld', NEW t \in Tasks, NEW x \in Cids, EvictDelete(t, x),
         NEW c \in Commits, c = task[t].commit
  PROVE  Peers!Drop(c)
<1> /\ task \in [Tasks -> TaskStates] /\ TaskOK(task[t]) /\ Target(task[t])
    /\ fref \in [Raw -> Paths \cup {None}]
  BY DEF LeftoverInv, HonestInv, TypeInv, TypeOK, TasksOK
<1>1. /\ task[t].pc = "delete" /\ task'[t].pc = "delete" /\ task'[t].commit = c
      /\ x \in task[t].cids /\ \A u \in Tasks : u # t => task'[u] = task[u]
      /\ entry' = entry /\ torn' = torn
  BY DEF EvictDelete, At, Set, TaskStates
<1>2. c \in Commits /\ entry[c] # {} /\ x \in Closure(entry[c])
  BY <1>1 DEF TaskOK, Target
<1>3. c \in Leaving
  BY <1>1, <1>2 DEF Leaving, BeingEvicted, At
<1>4. Leaving' = Leaving
  <2>1. Aside
    BY <1>1 DEF Aside
  <2> QED
    BY <1>1, <2>1, LeavingSame
<1>5. Served' \subseteq Served /\ Served \ Served' \subseteq {x}
  BY DEF EvictDelete, Served
<1>6. ASSUME NEW o \in Commits \ Leaving, entry[o] # {}
      PROVE  Closure(entry[o]) \subseteq Served'
  <2>1. ~BeingEvicted(o)'
    BY <1>1, <1>4, <1>6 DEF Leaving
  <2>2. \A y \in Closure(entry[o]) : Held(y)'
    BY <1>1, <1>6, <2>1 DEF ClosureHeld, Closure, Walk, Below
  <2> QED
    BY <2>2 DEF Held, Served
<1> QED
  BY <1>1, <1>2, <1>3, <1>4, <1>5, <1>6 DEF Peers!Drop, Peers!OnOffer, Leaving, Served

(* Mapping.Delete, after the deletions.                                    *)
LEMMA UnmapRetracts ==
  ASSUME LeftoverInv, NEW t \in Tasks, EvictUnmap(t),
         NEW c \in Commits, c = task[t].commit
  PROVE  Peers!Retract(c)
<1> /\ task \in [Tasks -> TaskStates] /\ TaskOK(task[t]) /\ Target(task[t])
    /\ entry \in Manifests /\ torn \subseteq Commits
  BY DEF LeftoverInv, HonestInv, TypeInv, TypeOK, TasksOK
<1>1. /\ task[t].pc = "blobs" /\ task'[t].pc = "unlink"
      /\ \A u \in Tasks : u # t => task'[u] = task[u]
      /\ entry' = [entry EXCEPT ![c] = {}] /\ torn' = torn \ {c}
      /\ blocks' = blocks /\ fref' = fref
  BY DEF EvictUnmap, At, Set, TaskStates
<1>2. /\ c \in Commits /\ entry[c] # {} /\ task[t].cids = {} /\ task[t].man = entry[c]
  BY <1>1 DEF TaskOK, Target
<1>3. c \in Leaving
  BY <1>1, <1>2 DEF Leaving, BeingEvicted, At
<1>4. entry'[c] = {} /\ \A d \in Commits \ {c} : entry'[d] = entry[d]
  BY <1>1, <1>2 DEF Manifests
<1>5. \A d \in Commits \ {c} : BeingEvicted(d)' <=> BeingEvicted(d)
  BY <1>1 DEF BeingEvicted, At
<1>6. Leaving' = Leaving \ {c}
  BY <1>4, <1>5 DEF Leaving
<1>7. {d \in torn' : entry'[d] # {}} = {d \in torn : entry[d] # {}} \ {c}
  BY <1>1, <1>4
<1>8. ASSUME c \notin torn, NEW x \in Closure(entry[c]), x \in Served
      PROVE  \E o \in Commits \ {c} : entry[o] # {} /\ x \in Closure(entry[o])
  <2>1. Elsewhere(x, c)
    BY <1>1, <1>2, <1>8, ServedIsHeld DEF Target
  <2> QED
    BY <2>1 DEF Elsewhere
<1> QED
  BY <1>1, <1>2, <1>3, <1>6, <1>7, <1>8
     DEF Peers!Retract, Peers!OnOffer, Leaving, Served

(* A failed deletion, or the end of the node.                              *)
LEMMA FailureInterrupts ==
  ASSUME LeftoverInv, LeftoverInv',
         Crash \/ \E t \in Tasks : EvictFail(t)
  PROVE  Peers!Interrupt
<1> /\ task \in [Tasks -> TaskStates] /\ TasksOK /\ torn \subseteq Commits
    /\ torn' \subseteq Commits
  BY DEF LeftoverInv, HonestInv, TypeInv, TypeOK
<1>1. /\ UNCHANGED <<entry, blocks, fref>> /\ torn \subseteq torn'
      /\ \A c \in torn' : BeingEvicted(c)
  BY DEF Crash, EvictFail, store, BeingEvicted, At
<1>2. ASSUME NEW c \in Commits, BeingEvicted(c) PROVE BeingEvicted(c)'
  <2>1. CASE Crash
    BY <1>2, <2>1 DEF Crash, BeingEvicted
  <2>2. ASSUME NEW t \in Tasks, EvictFail(t) PROVE BeingEvicted(c)'
    <3>1. /\ torn' = torn \cup {task[t].commit}
          /\ \A u \in Tasks : u # t => task'[u] = task[u]
      BY <2>2 DEF EvictFail, Set
    <3> QED
      BY <1>2, <3>1 DEF BeingEvicted, At
  <2> QED
    BY <2>1, <2>2
<1>3. ASSUME NEW c \in Commits, BeingEvicted(c)' PROVE BeingEvicted(c)
  <2>1. CASE c \in torn'
    BY <1>1, <2>1
  <2>2. CASE c \notin torn'
    <3>1. PICK u \in Tasks : /\ task'[u].commit = c
                             /\ task'[u].pc \in {"delete", "blobs"}
      BY <1>3, <2>2 DEF BeingEvicted, At
    <3>2. task'[u] = task[u]
      <4>1. ~Crash
        BY <3>1 DEF Crash, Blank
      <4>2. ASSUME EvictFail(u) PROVE FALSE
        BY <3>1, <4>2 DEF EvictFail, Set, Blank
      <4> QED
        BY <4>1, <4>2 DEF EvictFail, Set
    <3> QED
      BY <3>1, <3>2 DEF BeingEvicted, At
  <2> QED
    BY <2>1, <2>2
<1>4. Leaving' = Leaving
  BY <1>1, <1>2, <1>3 DEF Leaving
<1> QED
  BY <1>1, <1>4 DEF Peers!Interrupt, Leaving, Served

(* The catalogue's steps that are about one revision.                      *)
LEMMA CatalogueMove ==
  ASSUME NEW c \in Commits,
         Peers!Offer(c) \/ Peers!Withdraw(c) \/ Peers!Drop(c) \/ Peers!Retract(c)
  PROVE  Peers!CatalogueNext
  BY DEF Peers!CatalogueNext

(* To its peers every step of the node is one of the catalogue's.          *)
LEMMA CatalogueStep ==
  ASSUME LeftoverInv, LeftoverInv', [Next]_vars
  PROVE  Peers!CatalogueNext \/ UNCHANGED Peers!catalogueVars
<1> /\ TypeInv /\ task \in [Tasks -> TaskStates] /\ Handlers \subseteq Tasks
    /\ Watcher \in Tasks /\ blocks \subseteq Cids
    /\ fref \in [Raw -> Paths \cup {None}]
  BY DEF LeftoverInv, HonestInv, TypeInv, TypeOK, Tasks
<1>1. ASSUME Aside, entry' = entry, torn' = torn, Served \subseteq Served'
      PROVE  Peers!CatalogueNext
  BY <1>1, AsideGains DEF Peers!CatalogueNext
<1>2. ASSUME NEW u \in Tasks, \A v \in Tasks : v # u => task'[v] = task[v],
             task[u].pc \notin {"delete", "blobs"},
             task'[u].pc \notin {"delete", "blobs"},
             entry' = entry, torn' = torn, Served \subseteq Served'
      PROVE  Peers!CatalogueNext
  BY <1>1, <1>2 DEF Aside
<1>3. ASSUME NEW h \in Handlers, Request(h) PROVE Peers!CatalogueNext
  <2>1. /\ \A v \in Tasks : v # h => task'[v] = task[v]
        /\ task[h].pc = "idle" /\ UNCHANGED <<store, torn>>
    BY <1>3 DEF Request, PullBegin, PullRelink, IngestBegin, EvictBegin, Set,
                Admitted, At
  <2> QED
    BY <1>2, <1>3, <2>1, RequestLeads DEF store, Served
<1>4. ASSUME NEW h \in Handlers, PullStep(h) PROVE FALSE
  BY <1>4, PullLeads DEF LeftoverInv, ClosureInv, PeerPCs
<1>5. ASSUME NEW h \in Handlers, HfStep(h) PROVE Peers!CatalogueNext
  <2>1. /\ \A v \in Tasks : v # h => task'[v] = task[v]
        /\ UNCHANGED <<store, torn>>
    BY <1>5 DEF HfStep, HfManifest, HfFetched, HfFail, WriteRef, HfFetch,
          WriteLink, Set
  <2> QED
    BY <1>2, <1>5, <2>1, HfLeads DEF store, Served
<1>6. ASSUME NEW t \in Tasks, IngestStep(t) PROVE Peers!CatalogueNext
  <2>1. CASE IngestMap(t)
    <3>1. PICK c \in Commits : c = task[t].commit
      BY <2>1 DEF IngestMap, At, TypeInv, TasksOK, TaskOK
    <3>2. Peers!Offer(c)
      BY <2>1, <3>1, MapOffers DEF LeftoverInv
    <3> QED
      BY <3>2, CatalogueMove
  <2>2. CASE ~IngestMap(t)
    <3>1. /\ \A v \in Tasks : v # t => task'[v] = task[v]
          /\ entry' = entry /\ torn' = torn
      BY <1>6, <2>2 DEF IngestStep, IngestRead, IngestNode, IngestDir, IngestOpen,
           IngestLeaf, IngestInner, Set, store
    <3>2. Served \subseteq Served'
      <4>1. ASSUME NEW x \in Raw, IngestLeaf(t, x) PROVE Served \subseteq Served'
        <5>1. blocks \subseteq blocks' /\ \A y \in Raw : fref[y] # None => fref'[y] # None
          BY <4>1 DEF IngestLeaf, PutLeaf, Held
        <5> QED
          BY <5>1 DEF Served
      <4>2. CASE \/ IngestRead(t) \/ IngestNode(t) \/ IngestDir(t)
                 \/ \E f \in Files : IngestOpen(t, f)
                 \/ \E x \in Pb : IngestInner(t, x)
        <5>1. blocks \subseteq blocks' /\ fref' = fref
          BY <4>2 DEF IngestRead, IngestNode, IngestDir, IngestOpen, IngestInner, store
        <5> QED
          BY <5>1 DEF Served
      <4> QED
        BY <1>6, <2>2, <4>1, <4>2 DEF IngestStep
    <3> QED
      BY <1>2, <1>6, <3>1, <3>2, IngestLeads DEF IngestPCs
  <2> QED
    BY <2>1, <2>2
<1>7. ASSUME NEW t \in Tasks, EvictStep(t) PROVE Peers!CatalogueNext
  <2>0. task[t].pc \in {"others", "keep", "delete", "blobs"} => task[t].commit \in Commits
    BY DEF TypeInv, TasksOK, TaskOK
  <2>1. CASE EvictTarget(t)
    <3>1. PICK c \in Commits : c = task[t].commit
      BY <2>0, <2>1 DEF EvictTarget, At
    <3>2. Peers!Withdraw(c)
      BY <2>1, <3>1, TargetWithdraws
    <3> QED
      BY <3>2, CatalogueMove
  <2>2. ASSUME NEW x \in Cids, EvictDelete(t, x) PROVE Peers!CatalogueNext
    <3>1. PICK c \in Commits : c = task[t].commit
      BY <2>0, <2>2 DEF EvictDelete, At
    <3>2. Peers!Drop(c)
      BY <2>2, <3>1, DeleteDrops DEF LeftoverInv, ClosureInv
    <3> QED
      BY <3>2, CatalogueMove
  <2>3. CASE EvictUnmap(t)
    <3>1. PICK c \in Commits : c = task[t].commit
      BY <2>0, <2>3 DEF EvictUnmap, At
    <3>2. Peers!Retract(c)
      BY <2>3, <3>1, UnmapRetracts
    <3> QED
      BY <3>2, CatalogueMove
  <2>4. CASE EvictFail(t)
    BY <2>4, FailureInterrupts DEF Peers!CatalogueNext
  <2>5. CASE \/ EvictScan(t) \/ \E f \in Files : EvictBlob(t, f)
    <3>1. /\ \A v \in Tasks : v # t => task'[v] = task[v]
          /\ task[t].pc \in {"delete", "blobs"} /\ UNCHANGED <<store, torn>>
      BY <2>5 DEF EvictScan, EvictBlob, At, Set
    <3>2. task'[t].pc = "blobs" /\ task'[t].commit = task[t].commit
      <4>1. CASE EvictScan(t)
        BY <4>1 DEF EvictScan, Set, TaskStates
      <4>2. ASSUME NEW f \in Files, EvictBlob(t, f)
            PROVE  task'[t].pc = "blobs" /\ task'[t].commit = task[t].commit
        BY <4>2 DEF EvictBlob, At, Set, TaskStates
      <4> QED
        BY <2>5, <4>1, <4>2
    <3> QED
      BY <1>1, <3>1, <3>2 DEF Aside, store, Served
  <2>6. CASE \/ EvictDone(t) \/ EvictList(t) \/ EvictUnlink(t) \/ EvictUnref(t)
             \/ EvictRemoveRef(t)
             \/ \E c \in Commits : EvictNext(t, c) \/ EvictKeep(t, c)
    <3>1. /\ \A v \in Tasks : v # t => task'[v] = task[v]
          /\ task[t].pc \notin {"delete", "blobs"} /\ UNCHANGED <<store, torn>>
      BY <2>6 DEF EvictDone, EvictList, EvictUnlink, EvictUnref, EvictRemoveRef,
                  EvictNext, EvictKeep, At, Set
    <3>2. task'[t].pc \notin {"delete", "blobs"}
      <4>1. CASE EvictList(t)
        BY <4>1 DEF EvictList, Set, TaskStates
      <4>2. CASE EvictUnlink(t)
        BY <4>2 DEF EvictUnlink, Set, TaskStates
      <4>3. CASE EvictDone(t)
        BY <4>3 DEF EvictDone, Set, Blank
      <4>4. CASE EvictUnref(t) \/ EvictRemoveRef(t)
        <5> DEFINE r == [Blank EXCEPT !.op = "evict", !.pc = "next",
                                      !.listed = task[t].listed]
                   q == [task[t] EXCEPT !.pc = "rmref"]
        <5>1. task'[t] \in {r, q}
          BY <4>4 DEF EvictUnref, EvictRemoveRef, Set
        <5>2. r.pc = "next" /\ q.pc = "rmref"
          BY DEF Blank, TaskStates
        <5> QED
          BY <5>1, <5>2
      <4>5. ASSUME NEW c \in Commits, EvictNext(t, c)
            PROVE  task'[t].pc \in {"next", "others"}
        <5> DEFINE r == [Blank EXCEPT !.op = "evict", !.pc = "next",
                                !.listed = [task[t].listed EXCEPT ![c] = {}]]
                   q == [r EXCEPT !.pc = "others", !.commit = c,
                                  !.man = task[t].listed[c]]
        <5>1. task'[t] \in {r, q}
          BY <4>5 DEF EvictNext, Set
        <5>2. r.pc = "next" /\ q.pc = "others"
          BY DEF Blank
        <5> QED
          BY <5>1, <5>2
      <4>6. ASSUME NEW c \in Commits, EvictKeep(t, c) PROVE task'[t].pc = "keep"
        BY <4>6 DEF EvictKeep, At, Set, TaskStates
      <4> QED
        BY <2>6, <4>1, <4>2, <4>3, <4>4, <4>5, <4>6
    <3> QED
      BY <1>2, <3>1, <3>2 DEF store, Served
  <2> QED
    BY <1>7, <2>1, <2>2, <2>3, <2>4, <2>5, <2>6 DEF EvictStep
<1>8. ASSUME PruneBegin \/ \E c \in Commits : TryIngest(c) PROVE Peers!CatalogueNext
  <2>1. /\ \A v \in Tasks : v # Watcher => task'[v] = task[v]
        /\ task[Watcher].pc = "idle" /\ UNCHANGED <<store, torn>>
    BY <1>8 DEF PruneBegin, TryIngest, Set, Admitted, At
  <2> QED
    BY <1>2, <1>8, <2>1, WatcherLeads DEF store, Served
<1>9. ASSUME Crash PROVE Peers!CatalogueNext
  BY <1>9, FailureInterrupts DEF Peers!CatalogueNext
<1>10. ASSUME UNCHANGED <<store, task, torn>> PROVE Peers!CatalogueNext
  BY <1>1, <1>10 DEF Aside, store, Served
<1> QED
  BY <1>3, <1>4, <1>5, <1>6, <1>7, <1>8, <1>9, <1>10
     DEF Next, HfDownload, DeleteRepo, vars, store

(* For every layout and any number of handlers, while pulls are from the   *)
(* Hub alone and evictions overlap neither pulls, nor ingests, nor each    *)
(* other, the node is to its peers the catalogue: goroutines, crashes and  *)
(* deletions by the user never show, and nothing is offered that it does   *)
(* not serve whole.                                                        *)
THEOREM NodeIsCatalogue ==
  Spec /\ []Exclusion /\ []NoPeerPulls /\ []OneEviction => KeepsCatalogue
<1>1. Init => Peers!CatalogueInit
  BY DEF Init, Peers!CatalogueInit, NoEntries
<1>2. LeftoverInv /\ LeftoverInv' /\ [Next]_vars
        => [Peers!CatalogueNext]_(Peers!catalogueVars)
  BY CatalogueStep
<1> QED
  BY <1>1, <1>2, LeftoverSafe, PTL DEF Spec, KeepsCatalogue, Peers!CatalogueSpec

-----------------------------------------------------------------------------
(* A node whose control socket is idle: the watcher's goroutine alone      *)

(* One goroutine overlaps nothing.                                         *)
LEMMA OneGoroutine ==
  ASSUME Handlers = {}
  PROVE  Exclusion /\ OneEviction
  BY DEF Tasks, Exclusion, OneEviction

(* Only handlers pull.                                                     *)
LEMMA WatcherPullsNothing ==
  ASSUME Handlers = {}, TypeInv, NoPeerPulls, [Next]_vars
  PROVE  NoPeerPulls'
<1> SUFFICES ASSUME NEW u \in Tasks PROVE task'[u].pc \notin PeerPCs
  BY DEF NoPeerPulls
<1> task \in [Tasks -> TaskStates] /\ task[u].pc \notin PeerPCs
  BY DEF TypeInv, TypeOK, NoPeerPulls
<1>1. ASSUME u = Watcher, PruneBegin \/ \E c \in Commits : TryIngest(c)
      PROVE  task'[u].pc \in {"next", "read"}
  <2>1. CASE PruneBegin
    BY <1>1, <2>1 DEF PruneBegin, Set, Blank
  <2>2. ASSUME NEW c \in Commits, TryIngest(c) PROVE task'[u].pc = "read"
    BY <1>1, <2>2 DEF TryIngest, Set, Blank
  <2> QED
    BY <1>1, <2>1, <2>2
<1>2. ASSUME Crash PROVE task'[u].pc = "idle"
  BY <1>2 DEF Crash, Blank
<1> QED
  BY <1>1, <1>2, WhoMoves, IngestLeads, EvictLeads DEF PeerPCs, EvictPCs

(* The program as it is, with no lock, on a node whose control socket is   *)
(* idle: the watcher's goroutine ingests what the hf CLI downloads and     *)
(* prunes what the user deletes, at any moment and with crashes anywhere.  *)
(* To its peers it is the catalogue; what it maps it holds whole; its      *)
(* prunes leave nothing behind and take nothing that is still needed, nor  *)
(* the bytes of a file that is still offered.                              *)
THEOREM WatchingNode ==
  ASSUME Handlers = {}
  PROVE  Spec => /\ KeepsCatalogue /\ []TreeHeld /\ []ClosureHeld
                 /\ NothingTakenFromMapped /\ EvictLeavesNothing
                 /\ EvictRemovesUnreferenced /\ SharedBlobsServed
                 /\ NoDanglingRef
<1>1. [](Exclusion /\ OneEviction)
  <2>1. Exclusion /\ OneEviction
    BY OneGoroutine
  <2> QED
    BY <2>1, PTL
<1>2. Init => NoPeerPulls
  BY DEF Init, Blank, NoPeerPulls, PeerPCs
<1>3. TypeInv /\ [Next]_vars => TypeInv'
  BY TypeStep
<1>4. TypeInv /\ NoPeerPulls /\ [Next]_vars => NoPeerPulls'
  BY WatcherPullsNothing
<1>5. Spec => []Exclusion /\ []NoPeerPulls /\ []OneEviction
  BY TypeInit, <1>1, <1>2, <1>3, <1>4, PTL DEF Spec
<1> QED
  BY <1>5, NodeIsCatalogue, TreeSafe, ClosureSafe, NothingTakenWithoutPeers,
     EvictionsLeaveNothing, EvictionsKeepReferencedBlobs, SharedBlobsAreServed,
     NoRefLeftDangling, PTL

=============================================================================
