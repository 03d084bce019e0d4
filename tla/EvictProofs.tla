---------------------------- MODULE EvictProofs ----------------------------
(***************************************************************************)
(* What an eviction may take, for every layout and any number of handlers. *)
(* The behaviours are those in which no pull and no ingest overlaps an     *)
(* eviction ([]Exclusion), which the code does not ensure; SeenBlobsAreKept *)
(* is of all behaviours.                                                   *)
(***************************************************************************)
EXTENDS SharedCacheProofs

(* Spared, of everything the node can reach and not of the tree alone.     *)
WalkSpared(r) ==
    \A o \in Commits : entry[o] # {} /\ ~BeingEvicted(o) /\ o # r.commit =>
        /\ r.pc = "keep" => \/ r.others[o] = entry[o]
                            \/ Walk(entry[o], blocks) \subseteq r.keep
        /\ r.pc = "delete" => Walk(entry[o], blocks) \cap r.cids = {}

(* While blobs are removed, every reference is among those found.          *)
RefsListed(r) ==
    r.pc = "blobs" => \A x \in Raw : fref[x] # None => fref[x] \in r.paths

ReachInv == /\ IndInv
            /\ \A t \in Tasks : WalkSpared(task[t]) /\ RefsListed(task[t])

Evicting == \E t \in Tasks : task[t].pc \in EvictPCs

(* One level of the walk, from more nodes and through more blocks, finds    *)
(* more.                                                                   *)
LEMMA BelowMonotone ==
  ASSUME NEW X, NEW Y, NEW bs, NEW cs, X \subseteq Y, bs \subseteq cs
  PROVE  Below(X, bs) \subseteq Below(Y, cs)
  BY DEF Below

(* A walk through fewer blocks reaches less.                               *)
LEMMA WalkMonotone ==
  ASSUME NEW S, NEW bs, NEW cs, bs \subseteq cs
  PROVE  Walk(S, bs) \subseteq Walk(S, cs)
<1>1. Below({DirCid[S]}, bs) \subseteq Below({DirCid[S]}, cs)
  BY BelowMonotone
<1>2. Below(Below({DirCid[S]}, bs), bs) \subseteq Below(Below({DirCid[S]}, cs), cs)
  BY <1>1, BelowMonotone
<1>3. Below(Below(Below({DirCid[S]}, bs), bs), bs)
        \subseteq Below(Below(Below({DirCid[S]}, cs), cs), cs)
  BY <1>2, BelowMonotone
<1> QED
  BY <1>3 DEF Walk

(* Beside an eviction nothing is added to the store, and a revision whose  *)
(* eviction has begun stays that until it is unmapped.                     *)
Shrinks ==
    /\ blocks' \subseteq blocks
    /\ \A x \in Raw : fref'[x] \in {fref[x], None}
    /\ \A c \in Commits : entry'[c] # {} =>
          entry'[c] = entry[c] /\ (BeingEvicted(c) => BeingEvicted(c)')

(* A step of an eviction that goes on to, or stays in, the part between    *)
(* the listing of the others and the removal of the mapping.               *)
EvictMove(t) ==
    \/ EvictList(t) \/ EvictTarget(t) \/ EvictScan(t)
    \/ \E o \in Commits : EvictKeep(t, o)
    \/ \E x \in Cids : EvictDelete(t, x)
    \/ \E f \in Files : EvictBlob(t, f)

(* A task's record is changed by its own goroutine or by a crash.          *)
LEMMA WhoMoves ==
  ASSUME TypeInv, [Next]_vars, NEW u \in Tasks, task'[u] # task[u]
  PROVE  \/ u \in Handlers /\ (Request(u) \/ PullStep(u) \/ HfStep(u))
         \/ IngestStep(u) \/ EvictStep(u)
         \/ u = Watcher /\ (PruneBegin \/ \E c \in Commits : TryIngest(c))
         \/ Crash
<1> task \in [Tasks -> TaskStates] /\ Handlers \subseteq Tasks /\ Watcher \in Tasks
  BY DEF TypeInv, TypeOK, Tasks
<1>1. ASSUME NEW h \in Handlers, Request(h) PROVE u = h
  BY <1>1 DEF Request, PullBegin, PullRelink, IngestBegin, EvictBegin, Set
<1>2. ASSUME NEW h \in Handlers, PullStep(h) PROVE u = h
  BY <1>2 DEF PullStep, PullRoot, PullEmpty, PullLeaves, PullPlace, PullFail,
       PullUndone, PullMap, PullFile, PullChunk, PullUndo, PullInner, GiveUp,
       FindNode, ReadThrough, Set
<1>3. ASSUME NEW h \in Handlers, HfStep(h) PROVE u = h
  BY <1>3 DEF HfStep, HfManifest, HfFetched, HfFail, WriteRef, HfFetch,
       WriteLink, Set
<1>4. ASSUME NEW t \in Tasks, IngestStep(t) PROVE u = t
  BY <1>4 DEF IngestStep, IngestRead, IngestNode, IngestDir, IngestMap,
       IngestOpen, IngestLeaf, IngestInner, Set
<1>5. ASSUME NEW t \in Tasks, EvictStep(t) PROVE u = t
  BY <1>5 DEF EvictStep, EvictDone, EvictList, EvictTarget, EvictScan,
       EvictUnmap, EvictFail, EvictUnlink, EvictUnref, EvictRemoveRef,
       EvictNext, EvictKeep, EvictDelete, EvictBlob, Set
<1>6. ASSUME PruneBegin \/ \E c \in Commits : TryIngest(c) PROVE u = Watcher
  BY <1>6 DEF PruneBegin, TryIngest, Set
<1> QED
  BY <1>1, <1>2, <1>3, <1>4, <1>5, <1>6 DEF Next, HfDownload, DeleteRepo, vars

(* The point at which each kind of step leaves its task.                   *)
LEMMA RequestLeads ==
  ASSUME TypeInv, NEW h \in Handlers, Request(h)
  PROVE  task'[h].pc \in {"peer", "hf", "link", "read", "next"}
<1> task \in [Tasks -> TaskStates] /\ h \in Tasks
  BY DEF TypeInv, TypeOK, Tasks
<1>1. ASSUME NEW c \in Commits, PullBegin(h, c) PROVE task'[h].pc \in {"peer", "hf"}
  BY <1>1 DEF PullBegin, Set, Blank
<1>2. ASSUME NEW c \in Commits, PullRelink(h, c) PROVE task'[h].pc = "link"
  BY <1>2 DEF PullRelink, Set, Blank
<1>3. ASSUME NEW c \in Commits, IngestBegin(h, c) PROVE task'[h].pc = "read"
  BY <1>3 DEF IngestBegin, Set, Blank
<1>4. ASSUME NEW C, EvictBegin(h, C) PROVE task'[h].pc = "next"
  BY <1>4 DEF EvictBegin, Set, Blank
<1> QED
  BY <1>1, <1>2, <1>3, <1>4 DEF Request

(* The same of a pull from peers, which begins at one of these points too. *)
LEMMA PullLeads ==
  ASSUME TypeInv, NEW h \in Handlers, PullStep(h)
  PROVE  /\ task[h].pc \in {"peer", "file", "empty", "leaves", "chunk", "undo"}
         /\ task'[h].pc \in {"peer", "file", "empty", "leaves", "chunk", "undo",
                             "hf", "link", "idle"}
<1> task \in [Tasks -> TaskStates] /\ h \in Tasks
  BY DEF TypeInv, TypeOK, Tasks
<1>0. task[h].pc \in {"peer", "file", "empty", "leaves", "chunk", "undo"}
  BY DEF PullStep, PullRoot, PullEmpty, PullLeaves, PullPlace, PullFail,
       PullUndone, PullMap, PullFile, PullChunk, PullUndo, PullInner, At
<1>1. CASE PullFail(h) \/ PullUndone(h)
  <2>1. CASE GiveUp(h)
    BY <1>0, <2>1, GiveUpEffect
  <2>2. CASE ~GiveUp(h)
    BY <1>0, <1>1, <2>2 DEF PullFail, PullUndone, Set, TaskStates
  <2> QED
    BY <2>1, <2>2
<1>2. CASE PullRoot(h)
  BY <1>2, PullRootEffect DEF PullRoot, At, TypeInv, TasksOK, TaskOK
<1>3. CASE PullEmpty(h)
  BY <1>0, <1>3 DEF PullEmpty, Set, TaskStates
<1>8. CASE PullLeaves(h)
  BY <1>0, <1>8 DEF PullLeaves, Set, TaskStates
<1>4. CASE PullMap(h)
  BY <1>0, <1>4 DEF PullMap, Set, TaskStates
<1>5. CASE PullPlace(h)
  BY <1>0, <1>5, PullPlaceEffect
<1>6. ASSUME NEW f \in Files, PullFile(h, f)
      PROVE  task'[h].pc \in {"file", "empty", "leaves"}
  BY <1>6, PullFileEffect
<1>7. ASSUME NEW x, PullChunk(h, x) \/ PullUndo(h, x)
      PROVE  task'[h].pc = task[h].pc
  BY <1>7 DEF PullChunk, PullUndo, Set, At, TaskStates
<1>9. ASSUME NEW x \in Pb, PullInner(h, x) PROVE task'[h].pc = task[h].pc
  BY <1>9, PullInnerEffect
<1> QED
  BY <1>0, <1>1, <1>2, <1>3, <1>4, <1>5, <1>6, <1>7, <1>8, <1>9 DEF PullStep

(* The same of the Hub fallback and of WriteSnapshot.                      *)
LEMMA HfLeads ==
  ASSUME TypeInv, NEW h \in Handlers, HfStep(h)
  PROVE  /\ task[h].pc \in {"hf", "download", "hflink", "link"}
         /\ task'[h].pc \in {"hf", "download", "hflink", "link", "read", "idle"}
<1> task \in [Tasks -> TaskStates] /\ h \in Tasks
  BY DEF TypeInv, TypeOK, Tasks
<1>0. Blank.pc = "idle" /\ task[h].pc \in {"hf", "download", "hflink", "link"}
  BY DEF Blank, HfStep, HfManifest, HfFetched, HfFail, WriteRef, HfFetch,
         WriteLink, At
<1>1. CASE HfManifest(h)
  BY <1>0, <1>1 DEF HfManifest, Set, TaskStates
<1>4. CASE HfFetched(h)
  BY <1>0, <1>4 DEF HfFetched, Set, TaskStates
<1>5. CASE HfFail(h)
  BY <1>0, <1>5 DEF HfFail, Set
<1>2. CASE WriteRef(h)
  BY <1>0, <1>2 DEF WriteRef, Set, TaskStates
<1>3. ASSUME NEW f \in Files, HfFetch(h, f) \/ WriteLink(h, f)
      PROVE  task'[h].pc \in {"hf", "download", "hflink", "link", "idle"}
  <2>1. CASE Set(h, [task[h] EXCEPT !.files = @ \ {f}])
    BY <1>3, <2>1 DEF HfFetch, WriteLink, Set, At, TaskStates
  <2>2. CASE Set(h, Fallback(h)) \/ Set(h, Blank)
    <3>1. Fallback(h).pc \in {"hf", "idle"} /\ Blank.pc = "idle"
      BY DEF Fallback, Blank
    <3> QED
      BY <2>2, <3>1 DEF Set
  <2> QED
    BY <1>3, <2>1, <2>2 DEF HfFetch, WriteLink
<1> QED
  BY <1>0, <1>1, <1>2, <1>3, <1>4, <1>5 DEF HfStep

(* The same of an ingest.                                                  *)
LEMMA IngestLeads ==
  ASSUME TypeInv, NEW t \in Tasks, IngestStep(t)
  PROVE  /\ task[t].pc \in IngestPCs
         /\ task'[t].pc \in {"add", "leaf", "imap", "idle"}
<1> task \in [Tasks -> TaskStates]
  BY DEF TypeInv, TypeOK
<1>0. Blank.pc = "idle" /\ task[t].pc \in IngestPCs
  BY DEF Blank, IngestPCs, IngestStep, IngestRead, IngestNode, IngestDir, IngestMap,
         IngestOpen, IngestLeaf, IngestInner, At
<1>1. CASE IngestRead(t) \/ IngestMap(t)
  BY <1>0, <1>1 DEF IngestRead, IngestMap, Set, TaskStates
<1>2. CASE IngestNode(t)
  BY <1>0, <1>2 DEF IngestNode, Set, TaskStates
<1>5. CASE IngestDir(t)
  BY <1>0, <1>5 DEF IngestDir, Set, TaskStates
<1>3. ASSUME NEW f \in Files, IngestOpen(t, f) PROVE task'[t].pc \in {"leaf", "idle"}
  <2>1. CASE Set(t, Blank)
    BY <1>0, <2>1 DEF Set
  <2>2. CASE Set(t, [task[t] EXCEPT !.pc = "leaf", !.file = f,
                                    !.cids = FileDag[f] \ NodeOf(f)])
    BY <2>2 DEF Set, TaskStates
  <2> QED
    BY <1>3, <2>1, <2>2 DEF IngestOpen
<1>4. ASSUME NEW x, IngestLeaf(t, x) \/ IngestInner(t, x) PROVE task'[t].pc = "leaf"
  BY <1>4 DEF IngestLeaf, IngestInner, Set, At, TaskStates
<1> QED
  BY <1>0, <1>1, <1>2, <1>3, <1>4, <1>5 DEF IngestStep

(* The same of an eviction, whose steps from and to the part above are     *)
(* those of EvictMove.                                                     *)
LEMMA EvictLeads ==
  ASSUME TypeInv, NEW t \in Tasks, EvictStep(t)
  PROVE  /\ task[t].pc \in EvictPCs
         /\ task'[t].pc \in EvictPCs \cup {"idle"}
         /\ task'[t].pc \in {"keep", "delete", "blobs"} => EvictMove(t)
<1> task \in [Tasks -> TaskStates]
  BY DEF TypeInv, TypeOK
<1>0. Blank.pc = "idle" /\ task[t].pc \in EvictPCs
  BY DEF Blank, EvictPCs, EvictStep, EvictDone, EvictList, EvictTarget, EvictScan,
       EvictUnmap, EvictFail, EvictUnlink, EvictUnref, EvictRemoveRef,
       EvictNext, EvictKeep, EvictDelete, EvictBlob, At
<1>1. ASSUME NEW c \in Commits, EvictNext(t, c)
      PROVE  task'[t].pc \in {"next", "others"}
  <2> DEFINE r == [Blank EXCEPT !.op = "evict", !.pc = "next",
                     !.listed = [task[t].listed EXCEPT ![c] = {}]]
             q == [r EXCEPT !.pc = "others", !.commit = c,
                            !.man = task[t].listed[c]]
  <2>1. task'[t] = r \/ task'[t] = q
    BY <1>1 DEF EvictNext, Set
  <2>2. r.pc = "next" /\ q.pc = "others"
    BY DEF Blank
  <2> QED
    BY <2>1, <2>2
<1>2. CASE EvictUnmap(t) \/ EvictUnlink(t)
  BY <1>0, <1>2 DEF EvictUnmap, EvictUnlink, Set, TaskStates, EvictPCs
<1>5. CASE EvictUnref(t) /\ Set(t, [task[t] EXCEPT !.pc = "rmref"])
  <2>1. task'[t].pc = "rmref"
    BY <1>5 DEF Set, TaskStates
  <2> QED
    BY <1>0, <2>1 DEF EvictPCs
<1>3. CASE \/ EvictDone(t) \/ EvictFail(t) \/ EvictRemoveRef(t)
           \/ EvictUnref(t) /\ ~Set(t, [task[t] EXCEPT !.pc = "rmref"])
  <2> DEFINE r == [Blank EXCEPT !.op = "evict", !.pc = "next",
                                !.listed = task[t].listed]
  <2>1. task'[t] = r \/ task'[t] = Blank
    BY <1>3 DEF EvictDone, EvictFail, EvictUnref, EvictRemoveRef, Set
  <2>2. r.pc = "next"
    BY DEF Blank
  <2> QED
    BY <1>0, <2>1, <2>2 DEF EvictPCs
<1>4. ASSUME EvictMove(t) PROVE task'[t].pc \in {"keep", "delete", "blobs"}
  <2>1. CASE EvictList(t)
    BY <2>1 DEF EvictList, Set, TaskStates
  <2>3. CASE EvictTarget(t)
    BY <2>3 DEF EvictTarget, Set, TaskStates
  <2>4. CASE EvictScan(t)
    BY <2>4 DEF EvictScan, Set, TaskStates
  <2>2. ASSUME NEW x, EvictKeep(t, x) \/ EvictDelete(t, x) \/ EvictBlob(t, x)
        PROVE  task'[t].pc = task[t].pc /\ task[t].pc \in {"keep", "delete", "blobs"}
    BY <2>2 DEF EvictKeep, EvictDelete, EvictBlob, Set, At, TaskStates
  <2> QED
    BY <1>4, <2>1, <2>2, <2>3, <2>4 DEF EvictMove
<1> QED
  BY <1>0, <1>1, <1>2, <1>3, <1>4, <1>5 DEF EvictStep, EvictMove, EvictPCs

(* What the watcher takes up.                                              *)
LEMMA WatcherLeads ==
  ASSUME TypeInv, PruneBegin \/ \E c \in Commits : TryIngest(c)
  PROVE  task'[Watcher].pc \in {"next", "read"}
<1> task \in [Tasks -> TaskStates] /\ Watcher \in Tasks
  BY DEF TypeInv, TypeOK, Tasks
<1>1. ASSUME PruneBegin PROVE task'[Watcher].pc = "next"
  BY <1>1 DEF PruneBegin, Set, Blank
<1>2. ASSUME NEW c \in Commits, TryIngest(c) PROVE task'[Watcher].pc = "read"
  BY <1>2 DEF TryIngest, Set, Blank
<1> QED
  BY <1>1, <1>2

(* Only a step of EvictMove leads there.                                   *)
LEMMA OnlyEvictMoves ==
  ASSUME TypeInv, [Next]_vars, NEW u \in Tasks, task'[u] # task[u],
         task'[u].pc \in {"keep", "delete", "blobs"}
  PROVE  EvictMove(u)
<1>1. ASSUME u = Watcher, PruneBegin \/ \E c \in Commits : TryIngest(c) PROVE FALSE
  BY <1>1, WatcherLeads
<1>2. ASSUME Crash PROVE FALSE
  BY <1>2 DEF Crash, Blank
<1> QED
  BY <1>1, <1>2, WhoMoves, RequestLeads, PullLeads, HfLeads, IngestLeads, EvictLeads

(* Beside an eviction the store only shrinks: no block, reference or       *)
(* mapping is added.                                                       *)
LEMMA ShrinkStep ==
  ASSUME IndInv, [Next]_vars, Evicting
  PROVE  Shrinks
<1> TypeInv /\ task \in [Tasks -> TaskStates] /\ entry \in Manifests
  BY DEF IndInv, TypeInv, TypeOK
<1> Handlers \subseteq Tasks /\ Watcher \in Tasks
  BY DEF Tasks
<1>1. \A u \in Tasks : task[u].op \notin {"pull", "ingest"} /\ TaskOK(task[u])
  BY DEF Evicting, IndInv, Exclusion, TypeInv, TasksOK, TaskOK
<1>2. ASSUME NEW u \in Tasks PROVE task[u].pc \notin PullPCs \cup IngestPCs
  BY <1>1 DEF TaskOK
<1>3. ASSUME UNCHANGED store, torn' = torn, NEW u \in Tasks, Only(u),
             task[u].pc \notin {"delete", "blobs"}
      PROVE  Shrinks
  BY <1>3, NotEvicting DEF Shrinks, store
<1>4. ASSUME NEW h \in Handlers, Request(h) PROVE Shrinks
  <2>1. /\ UNCHANGED store /\ torn' = torn /\ Only(h)
        /\ task[h].pc \notin {"delete", "blobs"}
    BY <1>4 DEF Request, PullBegin, PullRelink, IngestBegin, EvictBegin, Set, Only,
                Admitted, At
  <2> QED
    BY <1>3, <2>1
<1>5. ASSUME NEW h \in Handlers, PullStep(h) PROVE FALSE
  BY <1>2, <1>5 DEF PullStep, PullRoot, PullEmpty, PullLeaves, PullPlace, PullFail,
       PullUndone, PullMap, PullFile, PullChunk, PullUndo, PullInner, At, PullPCs
<1>6. ASSUME NEW h \in Handlers, HfStep(h) PROVE Shrinks
  <2>1. /\ UNCHANGED store /\ torn' = torn /\ Only(h)
        /\ task[h].pc \notin {"delete", "blobs"}
    BY <1>6 DEF HfStep, HfManifest, HfFetched, HfFail, WriteRef, HfFetch,
          WriteLink, Set, Only, At
  <2> QED
    BY <1>3, <2>1
<1>7. ASSUME NEW t \in Tasks, IngestStep(t) PROVE FALSE
  BY <1>2, <1>7 DEF IngestStep, IngestRead, IngestNode, IngestDir, IngestMap,
       IngestOpen, IngestLeaf, IngestInner, At, IngestPCs
<1>8. ASSUME NEW t \in Tasks, EvictStep(t) PROVE Shrinks
  <2>1. Only(t)
    BY <1>8 DEF Only, EvictStep, EvictDone, EvictList, EvictTarget, EvictScan,
          EvictUnmap, EvictFail, EvictUnlink, EvictUnref, EvictRemoveRef,
          EvictNext, EvictKeep, EvictDelete, EvictBlob, Set
  <2>2. CASE \/ EvictDone(t) \/ EvictList(t) \/ EvictTarget(t)
             \/ EvictUnlink(t) \/ EvictUnref(t) \/ EvictRemoveRef(t)
             \/ \E c \in Commits : EvictNext(t, c) \/ EvictKeep(t, c)
    <3>1. /\ UNCHANGED store /\ torn' = torn /\ task[t].pc \notin {"delete", "blobs"}
      BY <2>2 DEF EvictDone, EvictList, EvictTarget, EvictUnlink, EvictUnref,
                  EvictRemoveRef, EvictNext, EvictKeep, At
    <3> QED
      BY <1>3, <2>1, <3>1
  <2>3. CASE \/ EvictScan(t) \/ \E x \in Cids : EvictDelete(t, x)
             \/ \E f \in Files : EvictBlob(t, f)
    <3>1. /\ task'[t].pc \in {"delete", "blobs"} /\ task'[t].commit = task[t].commit
      <4>1. CASE EvictScan(t)
        BY <4>1 DEF EvictScan, Set, TaskStates
      <4>2. ASSUME NEW x \in Cids, EvictDelete(t, x)
            PROVE  task'[t].pc = "delete" /\ task'[t].commit = task[t].commit
        BY <4>2 DEF EvictDelete, At, Set, TaskStates
      <4>3. ASSUME NEW f \in Files, EvictBlob(t, f)
            PROVE  task'[t].pc = "blobs" /\ task'[t].commit = task[t].commit
        BY <4>3 DEF EvictBlob, At, Set, TaskStates
      <4> QED
        BY <2>3, <4>1, <4>2, <4>3
    <3>2. entry' = entry /\ torn' = torn /\ blocks' \subseteq blocks
      BY <2>3 DEF EvictScan, EvictDelete, EvictBlob, store
    <3>3. \A x \in Raw : fref'[x] \in {fref[x], None}
      BY <2>3 DEF EvictScan, EvictDelete, EvictBlob, store, TypeInv, TypeOK
    <3>4. \A c \in Commits : BeingEvicted(c) => BeingEvicted(c)'
      BY <2>1, <3>1, <3>2 DEF Only, BeingEvicted, At
    <3> QED
      BY <3>2, <3>3, <3>4 DEF Shrinks
  <2>4. CASE EvictUnmap(t)
    <3> DEFINE c == task[t].commit
    <3>1. /\ entry' = [entry EXCEPT ![c] = {}] /\ blocks' = blocks
          /\ fref' = fref /\ torn' = torn \ {c}
      BY <2>4 DEF EvictUnmap
    <3>2. \A o \in Commits : o # c /\ BeingEvicted(o) => BeingEvicted(o)'
      BY <2>1, <3>1 DEF Only, BeingEvicted, At
    <3>3. \A o \in Commits : entry'[o] # {} => o # c /\ entry'[o] = entry[o]
      BY <3>1 DEF Manifests
    <3> QED
      BY <3>1, <3>2, <3>3 DEF Shrinks
  <2>5. CASE EvictFail(t)
    <3>1. UNCHANGED store /\ torn' = torn \cup {task[t].commit}
      BY <2>5 DEF EvictFail
    <3>2. \A c \in Commits : BeingEvicted(c) => BeingEvicted(c)'
      BY <2>1, <3>1 DEF Only, BeingEvicted, At
    <3> QED
      BY <3>1, <3>2 DEF Shrinks, store
  <2> QED
    BY <1>8, <2>2, <2>3, <2>4, <2>5 DEF EvictStep
<1>9. CASE PruneBegin \/ \E c \in Commits : TryIngest(c)
  <2>1. /\ UNCHANGED store /\ torn' = torn /\ Only(Watcher)
        /\ task[Watcher].pc \notin {"delete", "blobs"}
    BY <1>9 DEF PruneBegin, TryIngest, Set, Only, Admitted, At
  <2> QED
    BY <1>3, <2>1
<1>10. CASE Crash
  BY <1>10 DEF Crash, BeingEvicted, Shrinks, store
<1>11. ASSUME UNCHANGED <<store, task, torn>> PROVE Shrinks
  BY <1>11 DEF Shrinks, store, BeingEvicted, At
<1> QED
  BY <1>4, <1>5, <1>6, <1>7, <1>8, <1>9, <1>10, <1>11
     DEF Next, HfDownload, DeleteRepo, vars, store

(* No eviction runs at first.                                              *)
LEMMA ReachInit == Init => ReachInv
<1> SUFFICES ASSUME Init PROVE ReachInv
  OBVIOUS
<1>1. \A t \in Tasks : task[t].pc = "idle"
  BY DEF Init, Blank
<1> QED
  BY <1>1, IndInit DEF ReachInv, WalkSpared, RefsListed

(* ReachInv is inductive.                                                  *)
LEMMA ReachStep ==
  ASSUME ReachInv, [Next]_vars, Exclusion'
  PROVE  ReachInv'
<1> IndInv /\ IndInv' /\ TypeInv
  BY IndStep DEF ReachInv, IndInv
<1> task \in [Tasks -> TaskStates] /\ entry \in Manifests
  BY DEF TypeInv, TypeOK
<1> SUFFICES ASSUME NEW u \in Tasks,
                    task'[u].pc \in {"keep", "delete", "blobs"}
             PROVE  WalkSpared(task[u])' /\ RefsListed(task[u])'
  BY DEF ReachInv, WalkSpared, RefsListed
<1>1. WalkSpared(task[u]) /\ RefsListed(task[u])
  BY DEF ReachInv
<1>2. task'[u] = task[u] \/ EvictMove(u)
  BY OnlyEvictMoves
<1>3. task[u].pc \in EvictPCs
  BY <1>2 DEF EvictPCs, EvictMove, EvictList, EvictTarget, EvictScan, EvictKeep,
              EvictDelete, EvictBlob, At
<1>4. Shrinks
  BY <1>3, ShrinkStep DEF Evicting
<1>5. ASSUME NEW o \in Commits, entry'[o] # {}, ~BeingEvicted(o)', o # task'[u].commit
      PROVE  /\ entry'[o] = entry[o] /\ entry[o] # {} /\ ~BeingEvicted(o)
             /\ Walk(entry'[o], blocks') \subseteq Walk(entry[o], blocks)
  BY <1>4, <1>5, WalkMonotone DEF Shrinks
<1>6. CASE task'[u] = task[u]
  <2>1. WalkSpared(task[u])'
    BY <1>1, <1>5, <1>6 DEF WalkSpared
  <2>2. RefsListed(task[u])'
    BY <1>1, <1>4, <1>6 DEF RefsListed, Shrinks
  <2> QED
    BY <2>1, <2>2
<1>7. CASE EvictList(u)
  <2>1. /\ task'[u].pc = "keep" /\ task'[u].commit = task[u].commit
        /\ task'[u].others = [entry EXCEPT ![task[u].commit] = {}]
    BY <1>7 DEF EvictList, Set, TaskStates
  <2>2. WalkSpared(task[u])'
    BY <1>5, <2>1 DEF WalkSpared, Manifests
  <2> QED
    BY <2>1, <2>2 DEF RefsListed
<1>8. ASSUME NEW d \in Commits, EvictKeep(u, d)
      PROVE  WalkSpared(task[u])' /\ RefsListed(task[u])'
  <2> DEFINE S == task[u].others[d]
  <2>1. /\ task'[u].pc = "keep" /\ task'[u].commit = task[u].commit
        /\ task'[u].others = [task[u].others EXCEPT ![d] = {}]
        /\ task'[u].keep = task[u].keep \cup Walk(S, blocks)
        /\ task[u].pc = "keep" /\ task[u].others \in Manifests
    BY <1>8 DEF EvictKeep, At, Set, TaskStates
  <2>2. ASSUME NEW o \in Commits, entry'[o] # {}, ~BeingEvicted(o)', o # task'[u].commit
        PROVE  \/ task'[u].others[o] = entry'[o]
               \/ Walk(entry'[o], blocks') \subseteq task'[u].keep
    <3>1. \/ task[u].others[o] = entry[o]
          \/ Walk(entry[o], blocks) \subseteq task[u].keep
      BY <1>1, <1>5, <2>1, <2>2 DEF WalkSpared
    <3>2. CASE o = d /\ S = entry[o]
      BY <1>5, <2>1, <2>2, <3>2
    <3>3. CASE o # d
      BY <1>5, <2>1, <2>2, <3>1, <3>3 DEF Manifests
    <3>4. CASE o = d /\ S # entry[o]
      BY <1>5, <2>1, <2>2, <3>1, <3>4
    <3> QED
      BY <3>2, <3>3, <3>4
  <2> QED
    BY <2>1, <2>2 DEF WalkSpared, RefsListed
<1>9. CASE EvictTarget(u)
  <2>1. /\ task'[u].pc = "delete" /\ task'[u].commit = task[u].commit
        /\ task'[u].cids \cap task[u].keep = {}
        /\ task[u].pc = "keep" /\ \A o \in Commits : task[u].others[o] = {}
    BY <1>9 DEF EvictTarget, At, Set, TaskStates, NoEntries
  <2>2. WalkSpared(task[u])'
    BY <1>1, <1>5, <2>1 DEF WalkSpared
  <2> QED
    BY <2>1, <2>2 DEF RefsListed
<1>10. ASSUME NEW x \in Cids, EvictDelete(u, x)
       PROVE  WalkSpared(task[u])' /\ RefsListed(task[u])'
  <2>1. /\ task'[u].pc = "delete" /\ task'[u].commit = task[u].commit
        /\ task'[u].cids \subseteq task[u].cids /\ task[u].pc = "delete"
    BY <1>10 DEF EvictDelete, At, Set, TaskStates
  <2>2. WalkSpared(task[u])'
    BY <1>1, <1>5, <2>1 DEF WalkSpared
  <2> QED
    BY <2>1, <2>2 DEF RefsListed
<1>11. CASE EvictScan(u)
  <2>1. /\ task'[u].pc = "blobs" /\ fref' = fref
        /\ task'[u].paths = {fref[x] : x \in Raw} \ {None}
    BY <1>11 DEF EvictScan, Set, TaskStates, store
  <2> QED
    BY <2>1 DEF WalkSpared, RefsListed
<1>12. ASSUME NEW f \in Files, EvictBlob(u, f)
       PROVE  WalkSpared(task[u])' /\ RefsListed(task[u])'
  <2>1. /\ task'[u].pc = "blobs" /\ fref' = fref /\ task[u].pc = "blobs"
        /\ task'[u].paths = task[u].paths
    BY <1>12 DEF EvictBlob, At, Set, TaskStates, store
  <2> QED
    BY <1>1, <2>1 DEF WalkSpared, RefsListed
<1> QED
  BY <1>2, <1>6, <1>7, <1>8, <1>9, <1>10, <1>11, <1>12 DEF EvictMove

(* The invariant of an eviction beside others, relinks, the user and       *)
(* crashes: what can be reached from another mapped revision is kept or    *)
(* has yet to be walked, and the paths found are all there are.            *)
THEOREM ReachSafe == Spec /\ []Exclusion => []ReachInv
<1>1. ReachInv /\ [Next]_vars /\ Exclusion' => ReachInv'
  BY ReachStep
<1> QED
  BY ReachInit, <1>1, PTL DEF Spec

(* Only an eviction and a rollback delete from the blockstore, and a       *)
(* rollback only leaves.                                                   *)
LEMMA WhoDeletes ==
  ASSUME TypeInv, [Next]_vars, NEW x \in Cids, LosesHold(x)
  PROVE  \/ x \in Raw /\ \E h \in Handlers : At(h, "undo")
         \/ \E t \in Tasks : EvictDelete(t, x)
<1> fref \in [Raw -> Paths \cup {None}] /\ None \notin Paths
  BY LayoutAssumption DEF TypeInv, TypeOK
<1>1. ~UNCHANGED <<blocks, fref>>
  BY DEF LosesHold, Held
<1>2. ~(blocks \subseteq blocks' /\ fref' = fref)
  BY DEF LosesHold, Held
<1>3. ASSUME NEW y, NEW p \in Paths, PutLeaf(y, p) PROVE FALSE
  BY <1>1, <1>2, <1>3 DEF PutLeaf, LosesHold, Held
<1>4. ASSUME NEW t \in Tasks, NEW f \in Files, task[t].commit \in Commits
      PROVE  Blob(t, f) \in Paths
  BY <1>4, LayoutAssumption DEF Blob, Repo, Paths
<1>5. ASSUME NEW h \in Handlers, PullStep(h) PROVE x \in Raw /\ At(h, "undo")
  <2>1. ASSUME NEW y, PullChunk(h, y) PROVE FALSE
    <3>1. task[h].file \in Files /\ task[h].commit \in Commits
      BY <2>1 DEF PullChunk, At, TypeInv, TasksOK, TaskOK, Tasks
    <3> QED
      BY <1>3, <1>4, <2>1, <3>1 DEF PullChunk, Tasks
  <2>2. ASSUME NEW y \in Raw, PullUndo(h, y) PROVE x = y /\ At(h, "undo")
    BY <2>2 DEF PullUndo, DeleteBlock, LosesHold, Held
  <2> QED
    BY <1>1, <1>2, <1>5, <2>1, <2>2 DEF PullStep, PullRoot, PullEmpty, PullLeaves,
         PullPlace, PullFail, PullUndone, PullMap, PullFile, PullInner,
         FindNode, ReadThrough, store
<1>6. ASSUME NEW t \in Tasks, IngestStep(t) PROVE FALSE
  <2>1. ASSUME NEW y, IngestLeaf(t, y) PROVE FALSE
    <3>1. task[t].file \in Files /\ task[t].commit \in Commits
      BY <2>1 DEF IngestLeaf, At, TypeInv, TasksOK, TaskOK
    <3> QED
      BY <1>3, <1>4, <2>1, <3>1 DEF IngestLeaf
  <2> QED
    BY <1>1, <1>2, <1>6, <2>1 DEF IngestStep, IngestRead, IngestNode, IngestDir,
         IngestMap, IngestOpen, IngestInner, store
<1>7. ASSUME NEW t \in Tasks, EvictStep(t) PROVE EvictDelete(t, x)
  <2>1. ASSUME NEW y \in Cids, EvictDelete(t, y) PROVE y = x
    BY <2>1 DEF EvictDelete, LosesHold, Held
  <2> QED
    BY <1>1, <1>7, <2>1 DEF EvictStep, EvictDone, EvictList, EvictTarget, EvictScan,
         EvictUnmap, EvictFail, EvictUnlink, EvictUnref, EvictRemoveRef,
         EvictNext, EvictKeep, EvictBlob, store
<1>8. ASSUME NEW h \in Handlers, Request(h) \/ HfStep(h) PROVE FALSE
  BY <1>1, <1>8 DEF Request, PullBegin, PullRelink, IngestBegin, EvictBegin, HfStep,
       HfManifest, HfFetched, HfFail, WriteRef, HfFetch, WriteLink, store
<1> QED
  BY <1>1, <1>5, <1>6, <1>7, <1>8
     DEF Next, TryIngest, HfDownload, PruneBegin, DeleteRepo, Crash, store, vars

(* What an eviction takes cannot be reached from another mapped revision.  *)
LEMMA SparesStep ==
  ASSUME ReachInv, [Next]_vars, NEW c \in Commits, StaysMapped(c),
         NEW x \in Walk(entry[c], blocks), LosesHold(x)
  PROVE  \E h \in Handlers : At(h, "undo")
<1>1. TypeInv /\ entry[c] \in SUBSET Files
  BY DEF ReachInv, IndInv, TypeInv, TypeOK, Manifests
<1>2. x \in Cids
  BY <1>1, WalkType
<1>3. ASSUME NEW t \in Tasks, EvictDelete(t, x) PROVE FALSE
  <2>1. task[t].pc = "delete" /\ x \in task[t].cids /\ WalkSpared(task[t])
    BY <1>3 DEF EvictDelete, At, ReachInv
  <2>2. entry[c] # {} /\ ~BeingEvicted(c) /\ c # task[t].commit
    BY <2>1 DEF StaysMapped, BeingEvicted, At
  <2> QED
    BY <2>1, <2>2 DEF WalkSpared
<1> QED
  BY <1>1, <1>2, <1>3, WhoDeletes

(* For every layout, however many evictions overlap and wherever they are  *)
(* cut short: if no pull and no ingest runs beside an eviction, it takes   *)
(* no block and no reference that is reached from another mapped revision. *)
THEOREM EvictionsSpareOthers == Spec /\ []Exclusion => EvictSparesMapped
<1>1. ASSUME ReachInv, [Next]_vars
      PROVE  \A c \in Commits : StaysMapped(c) =>
               \A x \in Walk(entry[c], blocks) :
                  LosesHold(x) => \E h \in Handlers : At(h, "undo")
  BY <1>1, SparesStep
<1> QED
  BY <1>1, ReachSafe, PTL DEF Spec, EvictSparesMapped

(* Only an eviction and the user remove blob files.                        *)
LEMMA WhoUnlinks ==
  ASSUME TypeInv, [Next]_vars, ~(disk \subseteq disk'),
         task' # task \/ issued' = issued
  PROVE  \E t \in Tasks : \E f \in Files : EvictBlob(t, f)
<1>1. ASSUME NEW h \in Handlers, Request(h) \/ PullStep(h) \/ HfStep(h) PROVE FALSE
  BY <1>1 DEF Request, PullBegin, PullRelink, IngestBegin, EvictBegin,
       PullStep, PullRoot, PullEmpty, PullLeaves, PullPlace, PullFail, PullUndone,
       PullMap, PullFile, PullChunk, PullUndo, PullInner, HfStep, HfManifest,
       HfFetched, HfFail, WriteRef, HfFetch, WriteLink, hub
<1>2. ASSUME NEW t \in Tasks, IngestStep(t) PROVE FALSE
  BY <1>2 DEF IngestStep, IngestRead, IngestNode, IngestDir, IngestMap,
       IngestOpen, IngestLeaf, IngestInner, hub
<1>3. ASSUME NEW t \in Tasks, EvictStep(t) PROVE \E f \in Files : EvictBlob(t, f)
  BY <1>3 DEF EvictStep, EvictDone, EvictList, EvictTarget, EvictScan,
       EvictUnmap, EvictFail, EvictUnlink, EvictUnref, EvictRemoveRef,
       EvictNext, EvictKeep, EvictDelete, hub
<1>4. ASSUME NEW r \in Repos, DeleteRepo(r) PROVE FALSE
  BY <1>4, TaskAssumption DEF DeleteRepo, Issue, TypeInv, TypeOK
<1> QED
  BY <1>1, <1>2, <1>3, <1>4
     DEF Next, TryIngest, HfDownload, PruneBegin, Crash, hub, vars

(* And it removes no blob that a reference still points into, also one     *)
(* registered for another repository's revision.                           *)
THEOREM EvictionsKeepReferencedBlobs == Spec /\ []Exclusion => EvictRemovesUnreferenced
<1> DEFINE A == task' # task => \A p \in disk \ disk', x \in Raw : fref'[x] # p
<1>1. ASSUME ReachInv, [Next]_vars PROVE A
  <2> SUFFICES ASSUME task' # task, NEW p \in disk \ disk', NEW x \in Raw, fref'[x] = p
               PROVE  FALSE
    OBVIOUS
  <2>1. p # None
    BY <1>1, LayoutAssumption DEF ReachInv, IndInv, TypeInv, TypeOK
  <2>2. PICK t \in Tasks : \E f \in Files : EvictBlob(t, f)
    <3>1. TypeInv /\ ~(disk \subseteq disk')
      BY <1>1 DEF ReachInv, IndInv
    <3> QED
      BY <1>1, <3>1, WhoUnlinks
  <2>3. /\ task[t].pc = "blobs" /\ p \notin task[t].paths /\ fref' = fref
    BY <2>2 DEF EvictBlob, At, store
  <2>4. RefsListed(task[t])
    BY <1>1 DEF ReachInv
  <2> QED
    BY <2>1, <2>3, <2>4 DEF RefsListed
<1> QED
  BY <1>1, ReachSafe, PTL DEF Spec, EvictRemovesUnreferenced

(* An eviction that has seen a reference goes on having seen it, and       *)
(* removes no blob that such a reference leads to.                         *)
LEMMA SeenStep ==
  ASSUME TypeInv, [Next]_vars, NEW x \in Raw, Sheltered(x), fref'[x] = fref[x]
  PROVE  Sheltered(x)' /\ (task' # task => fref[x] \notin disk \ disk')
<1> task \in [Tasks -> TaskStates]
  BY DEF TypeInv, TypeOK
<1>1. ASSUME NEW u \in Tasks, task'[u].pc = "blobs"
      PROVE  fref[x] \in task'[u].paths
  <2>1. CASE task'[u] = task[u]
    BY <1>1, <2>1 DEF Sheltered, At
  <2>2. CASE EvictScan(u)
    <3>1. task'[u].paths = {fref[y] : y \in Raw} \ {None}
      BY <2>2 DEF EvictScan, Set, TaskStates
    <3> QED
      BY <3>1 DEF Sheltered
  <2>3. ASSUME NEW f \in Files, EvictBlob(u, f) PROVE fref[x] \in task'[u].paths
    <3>1. At(u, "blobs") /\ task'[u].paths = task[u].paths
      BY <2>3 DEF EvictBlob, At, Set, TaskStates
    <3> QED
      BY <3>1 DEF Sheltered
  <2>4. ASSUME \/ EvictList(u) \/ EvictTarget(u)
               \/ \E o \in Commits : EvictKeep(u, o)
               \/ \E y \in Cids : EvictDelete(u, y)
        PROVE  FALSE
    BY <1>1, <2>4 DEF EvictList, EvictTarget, EvictKeep, EvictDelete, At, Set,
                      TaskStates
  <2> QED
    BY <1>1, <2>1, <2>2, <2>3, <2>4, OnlyEvictMoves DEF EvictMove
<1>2. ASSUME task' # task, fref[x] \in disk \ disk' PROVE FALSE
  <2>1. PICK t \in Tasks : \E f \in Files : EvictBlob(t, f)
    BY <1>2, WhoUnlinks
  <2>2. At(t, "blobs") /\ fref[x] \notin task[t].paths
    BY <1>2, <2>1 DEF EvictBlob
  <2> QED
    BY <2>2 DEF Sheltered
<1> QED
  BY <1>1, <1>2 DEF Sheltered, At

(* For every layout and with nothing kept apart: an eviction never removes *)
(* a blob that a reference leads to which was there before its scan.  What *)
(* Exclusion adds to this is the references written between the scan and   *)
(* the removal.                                                            *)
THEOREM SeenBlobsAreKept == Spec => SeenBlobsStay
<1>1. TypeInv /\ [Next]_vars => TypeInv'
  BY TypeStep
<1>2. TypeInv /\ [Next]_vars =>
        [\A x \in Raw : Sheltered(x) /\ fref'[x] = fref[x] =>
           Sheltered(x)' /\ (task' # task => fref[x] \notin disk \ disk')]_vars
  BY SeenStep
<1> QED
  BY TypeInit, <1>1, <1>2, PTL DEF Spec, SeenBlobsStay

(* Who writes a reference: a pull that has verified the chunk, or an       *)
(* ingest at its leaves.                                                   *)
LEMMA WhoRefers ==
  ASSUME TypeInv, [Next]_vars, NEW x \in Raw, fref'[x] # None, fref'[x] # fref[x]
  PROVE  \/ \E h \in Handlers : PullChunk(h, x) /\ fref'[x] = Blob(h, task[h].file)
         \/ \E t \in Tasks : IngestLeaf(t, x) /\ fref'[x] = Blob(t, task[t].file)
<1> fref \in [Raw -> Paths \cup {None}]
  BY DEF TypeInv, TypeOK
<1>1. ASSUME NEW y, NEW p, PutLeaf(y, p) PROVE y = x /\ fref'[x] = p
  BY <1>1 DEF PutLeaf
<1>2. ASSUME NEW h \in Handlers, PullStep(h)
      PROVE  PullChunk(h, x) /\ fref'[x] = Blob(h, task[h].file)
  <2>1. ASSUME NEW y, PullChunk(h, y) PROVE y = x /\ fref'[x] = Blob(h, task[h].file)
    BY <1>1, <2>1 DEF PullChunk
  <2>2. ASSUME NEW y, PullUndo(h, y) PROVE FALSE
    BY <2>2 DEF PullUndo, DeleteBlock
  <2> QED
    BY <1>2, <2>1, <2>2 DEF PullStep, PullRoot, PullEmpty, PullLeaves, PullPlace,
         PullFail, PullUndone, PullMap, PullFile, PullInner,
         FindNode, ReadThrough, store
<1>3. ASSUME NEW t \in Tasks, IngestStep(t)
      PROVE  IngestLeaf(t, x) /\ fref'[x] = Blob(t, task[t].file)
  <2>1. ASSUME NEW y, IngestLeaf(t, y) PROVE y = x /\ fref'[x] = Blob(t, task[t].file)
    BY <1>1, <2>1 DEF IngestLeaf
  <2> QED
    BY <1>3, <2>1 DEF IngestStep, IngestRead, IngestNode, IngestDir, IngestMap,
         IngestOpen, IngestInner, store
<1>4. ASSUME NEW t \in Tasks, EvictStep(t) PROVE FALSE
  <2>1. ASSUME NEW y \in Cids, EvictDelete(t, y) PROVE FALSE
    BY <2>1 DEF EvictDelete
  <2> QED
    BY <1>4, <2>1 DEF EvictStep, EvictDone, EvictList, EvictTarget, EvictScan,
         EvictUnmap, EvictFail, EvictUnlink, EvictUnref, EvictRemoveRef,
         EvictNext, EvictKeep, EvictBlob, store
<1>5. ASSUME NEW h \in Handlers, Request(h) \/ HfStep(h) PROVE FALSE
  BY <1>5 DEF Request, PullBegin, PullRelink, IngestBegin, EvictBegin, HfStep,
       HfManifest, HfFetched, HfFail, WriteRef, HfFetch, WriteLink, store
<1> QED
  BY <1>2, <1>3, <1>4, <1>5
     DEF Next, TryIngest, HfDownload, PruneBegin, DeleteRepo, Crash, store, vars

(* h will rename the file into place, or roll the reference back.          *)
Covers(h, x) ==
    /\ \/ At(h, "chunk") /\ x \in task[h].reg
       \/ At(h, "undo") /\ x \in task[h].cids
    /\ fref[x] = Blob(h, task[h].file)

(* A pull that covers a reference goes on to, until the file is there or   *)
(* the reference is gone, unless a deletion fails.                         *)
LEMMA CoverStep ==
  ASSUME TypeInv, NEW h \in Handlers, PullStep(h), NEW x \in Raw,
         Covers(h, x), fref'[x] = fref[x], issued' = issued
  PROVE  Covers(h, x)' \/ fref'[x] \in disk' \/ fref'[x] = None
<1> task \in [Tasks -> TaskStates] /\ h \in Tasks /\ task[h] \in TaskStates
  BY DEF TypeInv, TypeOK, Tasks
<1> DEFINE Same == task'[h].commit = task[h].commit /\ task'[h].file = task[h].file
<1>1. ASSUME Same, \/ task'[h].pc = "chunk" /\ x \in task'[h].reg
                   \/ task'[h].pc = "undo" /\ x \in task'[h].cids
      PROVE  Covers(h, x)'
  BY <1>1 DEF Covers, At, Blob, Repo
<1>2. ASSUME NEW y \in Raw, PullChunk(h, y) PROVE Covers(h, x)'
  <2>1. Same /\ task'[h].pc = "chunk" /\ x \in task'[h].reg
    BY <1>2 DEF PullChunk, Covers, At, Set, TaskStates
  <2> QED
    BY <1>1, <2>1
<1>3. ASSUME NEW y \in Raw, PullUndo(h, y) PROVE Covers(h, x)' \/ fref'[x] = None
  <2>1. CASE y = x
    BY <1>3, <2>1, TaskAssumption
       DEF PullUndo, DeleteBlock, Fault, Issue, TypeInv, TypeOK
  <2>2. CASE y # x
    <3>1. Same /\ task'[h].pc = "undo" /\ x \in task'[h].cids
      BY <1>3, <2>2 DEF PullUndo, Covers, At, Set, TaskStates
    <3> QED
      BY <1>1, <3>1
  <2> QED
    BY <2>1, <2>2
<1>4. CASE PullPlace(h)
  BY <1>4 DEF PullPlace, Covers, At
<1>5. CASE PullFail(h)
  <2>1. At(h, "chunk") /\ Set(h, [task[h] EXCEPT !.pc = "undo", !.cids = task[h].reg])
    BY <1>5 DEF PullFail, Covers, At
  <2>2. Same /\ task'[h].pc = "undo" /\ x \in task'[h].cids
    BY <2>1 DEF Covers, At, Set, TaskStates
  <2> QED
    BY <1>1, <2>2
<1> QED
  BY <1>2, <1>3, <1>4, <1>5
     DEF PullStep, PullRoot, PullEmpty, PullLeaves, PullUndone, PullMap, PullFile,
         PullInner, Covers, At

(* For every layout, if evictions run apart from pulls and ingests: no     *)
(* step of a pull or an eviction, failures and rollbacks included, leaves  *)
(* behind a reference to a file that is not there.                         *)
THEOREM NoRefLeftDangling == Spec /\ []Exclusion => NoDanglingRef
<1> DEFINE A == issued' = issued
                  /\ (\A t \in Tasks : At(t, "leaf") => task'[t] = task[t])
                => \A x \in Raw : Dangles(x)' => Dangles(x)
<1>1. ASSUME ReachInv, [Next]_vars PROVE A
  <2> SUFFICES ASSUME issued' = issued,
                      \A t \in Tasks : At(t, "leaf") => task'[t] = task[t],
                      NEW x \in Raw, Dangles(x)', ~Dangles(x)
               PROVE  FALSE
    OBVIOUS
  <2> TypeInv /\ task \in [Tasks -> TaskStates] /\ Handlers \subseteq Tasks
    BY <1>1 DEF ReachInv, IndInv, TypeInv, TypeOK, Tasks
  <2>1. /\ fref'[x] # None /\ fref'[x] \notin disk'
        /\ \A h \in Handlers : ~Covers(h, x)'
    BY DEF Dangles, Covers
  <2>2. fref'[x] = fref[x]
    <3>1. ASSUME NEW h \in Handlers, PullChunk(h, x),
                 fref'[x] = Blob(h, task[h].file)
          PROVE  FALSE
      <4>1. /\ task'[h].pc = "chunk" /\ x \in task'[h].reg
            /\ task'[h].commit = task[h].commit /\ task'[h].file = task[h].file
        BY <3>1 DEF PullChunk, At, Set, TaskStates
      <4>2. Covers(h, x)'
        BY <3>1, <4>1 DEF Covers, At, Blob, Repo
      <4> QED
        BY <2>1, <4>2
    <3>2. ASSUME NEW t \in Tasks, IngestLeaf(t, x) PROVE FALSE
      <4>1. x \in task[t].cids /\ task'[t].cids = task[t].cids \ {x} /\ At(t, "leaf")
        BY <3>2 DEF IngestLeaf, Set, TaskStates
      <4> QED
        BY <4>1
    <3> QED
      BY <1>1, <2>1, <3>1, <3>2, WhoRefers
  <2>3. fref[x] \notin disk
    <3> SUFFICES ASSUME fref[x] \in disk PROVE FALSE
      OBVIOUS
    <3>1. PICK t \in Tasks : \E f \in Files : EvictBlob(t, f)
      BY <1>1, <2>1, <2>2, WhoUnlinks
    <3>2. task[t].pc = "blobs" /\ RefsListed(task[t]) /\ fref[x] \notin task[t].paths
      BY <1>1, <2>1, <2>2, <3>1 DEF EvictBlob, At, ReachInv
    <3> QED
      BY <2>1, <2>2, <3>2 DEF RefsListed
  <2>4. PICK h \in Handlers : Covers(h, x)
    BY <2>1, <2>2, <2>3 DEF Dangles, Covers
  <2>5. task'[h] # task[h]
    BY <2>1, <2>2, <2>4 DEF Covers, At, Blob, Repo
  <2>6. PullStep(h)
    <3>1. task[h].pc \in {"chunk", "undo"} /\ h # Watcher
      BY <2>4, TaskAssumption DEF Covers, At
    <3>2. ASSUME Request(h) PROVE FALSE
      BY <3>1, <3>2 DEF Request, PullBegin, PullRelink, IngestBegin, EvictBegin,
           Admitted, At
    <3>3. ASSUME Crash PROVE FALSE
      BY <3>3, TaskAssumption DEF Crash, Issue, TypeInv, TypeOK
    <3> QED
      BY <1>1, <2>5, <3>1, <3>2, <3>3, WhoMoves, HfLeads, IngestLeads, EvictLeads
         DEF IngestPCs, EvictPCs
  <2> QED
    BY <2>1, <2>2, <2>4, <2>6, CoverStep
<1> QED
  BY <1>1, ReachSafe, PTL DEF Spec, NoDanglingRef

=============================================================================
