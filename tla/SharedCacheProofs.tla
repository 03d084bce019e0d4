------------------------- MODULE SharedCacheProofs -------------------------
(***************************************************************************)
(* Proofs about SharedCache, for every cache layout, every number of       *)
(* handlers and every choice of operations.                                *)
(*                                                                         *)
(*   TypeCorrect     Spec => []TypeOK                                      *)
(*   TreeSafe        Spec /\ []Exclusion => []TreeHeld                     *)
(*                                                                         *)
(* TypeOK needs TaskOK (which fields a program counter makes meaningful).  *)
(* TreeHeld needs, besides, what a pull or an ingest has put in place      *)
(* so far (Built) and what an eviction's keep set protects (Spared).       *)
(***************************************************************************)
EXTENDS SharedCache, TLAPS

PullPCs   == {"peer", "file", "empty", "leaves", "chunk", "undo", "hf",
              "download", "hflink"}
IngestPCs == {"read", "add", "leaf", "imap"}
EvictPCs  == {"next", "others", "keep", "delete", "blobs", "unlink", "unref",
              "rmref"}

(* What a task's program counter says of its other fields.                 *)
TaskOK(r) ==
    /\ r.pc \notin {"idle", "next"} => r.commit \in Commits
    /\ r.pc \in {"empty", "leaves", "chunk", "undo", "leaf"} => r.file \in Files
    /\ r.pc \in {"chunk", "undo"} => r.cids \subseteq Raw
    /\ r.pc \in PullPCs => r.op = "pull"
    /\ r.pc = "link" => r.op \in {"pull", "relink"}
    /\ r.pc \in IngestPCs => r.op \in {"pull", "ingest"}
    /\ r.pc \in EvictPCs => r.op = "evict"

TasksOK == \A t \in Tasks : TaskOK(task[t])

TypeInv == TypeOK /\ TasksOK

(* Nothing that adds blocks and entries is at work beside an eviction.     *)
Exclusion ==
    \A t, u \in Tasks : task[t].op = "evict" => task[u].op \notin {"pull", "ingest"}

(* The nodes a pull or an ingest has put in the blocks bucket by now; a    *)
(* pull knows the ones it could not store.                                 *)
Built(r) ==
    /\ r.pc \in {"file", "empty", "leaves", "chunk", "undo"} =>
         /\ DirCid[r.man] \in blocks \cup r.lost
         /\ \A f \in r.man \ r.files : NodeOf(f) \subseteq blocks \cup r.lost
    /\ r.pc \in {"empty", "leaves", "chunk", "undo"} =>
         NodeOf(r.file) \subseteq blocks \cup r.lost
    /\ r.pc \in {"add", "leaf", "imap"} =>
         \A f \in r.man \ r.files : NodeOf(f) \subseteq blocks
    /\ r.pc = "imap" => r.files = {} /\ DirCid[r.man] \in blocks

(* What an eviction has yet to walk, or will not delete.                   *)
Spared(r) ==
    \A o \in Commits :
      entry[o] # {} /\ ~BeingEvicted(o) /\ o \notin holed /\ o # r.commit =>
        /\ r.pc = "keep" => \/ r.others[o] = entry[o]
                            \/ Tree(entry[o]) \subseteq r.keep
        /\ r.pc = "delete" => Tree(entry[o]) \cap r.cids = {}

IndInv ==
    /\ TypeInv
    /\ Exclusion
    /\ \A t \in Tasks : Built(task[t]) /\ Spared(task[t])
    /\ TreeHeld

-----------------------------------------------------------------------------
(* Typing                                                                  *)

(* The record of an idle task.                                             *)
LEMMA BlankType == Blank \in TaskStates /\ TaskOK(Blank)
  BY DEF Blank, TaskStates, TaskOK, NoEntries, Manifests, PCs, Kinds,
         PullPCs, IngestPCs, EvictPCs

(* The record of an operation just taken up, and of an eviction's loop.    *)
LEMMA StartType ==
  ASSUME NEW c \in Commits
  PROVE  /\ \A l \in {"peer", "hf"} :
              LET r == [Blank EXCEPT !.op = "pull", !.commit = c, !.pc = l]
              IN  r \in TaskStates /\ TaskOK(r)
         /\ LET r == [Blank EXCEPT !.op = "ingest", !.commit = c, !.pc = "read"]
            IN  r \in TaskStates /\ TaskOK(r)
<1>1. ASSUME NEW l \in {"peer", "hf"}
      PROVE  LET r == [Blank EXCEPT !.op = "pull", !.commit = c, !.pc = l]
             IN  r \in TaskStates /\ TaskOK(r)
  BY BlankType DEF TaskStates, TaskOK, PCs, PullPCs, IngestPCs, EvictPCs, Kinds
<1>2. LET r == [Blank EXCEPT !.op = "ingest", !.commit = c, !.pc = "read"]
      IN  r \in TaskStates /\ TaskOK(r)
  <2> DEFINE r == [Blank EXCEPT !.op = "ingest", !.commit = c, !.pc = "read"]
  <2>1. r \in TaskStates /\ r.op = "ingest" /\ r.commit = c /\ r.pc = "read"
    BY BlankType DEF TaskStates, PCs, Kinds
  <2>2. TaskOK(r)
    <3> HIDE DEF r
    <3> QED
      BY <2>1 DEF TaskOK, PullPCs, IngestPCs, EvictPCs
  <2> QED
    BY <2>1, <2>2
<1> QED
  BY <1>1, <1>2

(* The record of an eviction between two revisions.                        *)
LEMMA LoopType ==
  ASSUME NEW l \in Manifests
  PROVE  LET r == [Blank EXCEPT !.op = "evict", !.pc = "next", !.listed = l]
         IN  r \in TaskStates /\ TaskOK(r) /\ r.op = "evict"
<1> DEFINE r == [Blank EXCEPT !.op = "evict", !.pc = "next", !.listed = l]
<1>1. r \in TaskStates /\ r.op = "evict" /\ r.pc = "next"
  BY BlankType DEF TaskStates, PCs, Kinds
<1>2. TaskOK(r)
  <2> HIDE DEF r
  <2> QED
    BY <1>1 DEF TaskOK, PullPCs, IngestPCs, EvictPCs
<1> QED
  BY <1>1, <1>2

(* A step of task t: no other task's record changes, and t's stays good.   *)
Only(t) == task' = [task EXCEPT ![t] = task'[t]]
Good(t) == task'[t] \in TaskStates /\ TaskOK(task'[t])

(* A step that sets one well-typed task keeps all of them well typed.      *)
LEMMA StepType ==
  ASSUME TypeInv, NEW t \in Tasks, Only(t), Good(t)
  PROVE  task' \in [Tasks -> TaskStates] /\ TasksOK'
  BY DEF TypeInv, TypeOK, TasksOK, Only, Good, TaskOK

(* Storing a leaf keeps the buckets well typed.                            *)
LEMMA PutLeafType ==
  ASSUME TypeInv, NEW x \in Raw, NEW p \in Paths, PutLeaf(x, p)
  PROVE  blocks' \subseteq Cids /\ fref' \in [Raw -> Paths \cup {None}]
  BY DagAssumption DEF TypeInv, TypeOK, PutLeaf, Held, Cids

(* One level of a walk stays within the CIDs.                              *)
LEMMA BelowType ==
  ASSUME NEW X \in SUBSET Cids, NEW bs
  PROVE  Below(X, bs) \in SUBSET Cids
  BY DagAssumption DEF Below

(* The parts of a file's DAG are CIDs.                                     *)
LEMMA DagType ==
  ASSUME NEW f \in Files
  PROVE  /\ FileDag[f] \in SUBSET Cids
         /\ Chunks[f] \in SUBSET Raw
         /\ Inner[f] \in SUBSET Pb
<1>1. {FileCid[f]} \in SUBSET Cids
  BY DagAssumption
<1>2. FileDag[f] \in SUBSET Cids
  BY <1>1, BelowType DEF FileDag
<1> QED
  BY <1>2 DEF Chunks, Inner

(* A whole walk stays within the CIDs.                                     *)
LEMMA WalkType ==
  ASSUME NEW S \in SUBSET Files, NEW bs
  PROVE  Walk(S, bs) \subseteq Cids
<1>1. {DirCid[S]} \in SUBSET Cids
  BY DagAssumption DEF Cids
<1> QED
  BY <1>1, BelowType DEF Walk

(* Reading nodes through the store: they are in it or noted as lost, and   *)
(* what was stored or noted still is.                                      *)
LEMMA ReadThroughEffect ==
  ASSUME TypeInv, NEW h \in Tasks, NEW X \in SUBSET Pb, NEW r \in TaskStates,
         ReadThrough(h, X, r)
  PROVE  /\ task'[h] \in TaskStates
         /\ \E L \in SUBSET Pb : task'[h] = [r EXCEPT !.lost = L]
         /\ blocks \subseteq blocks' /\ blocks' \subseteq blocks \cup X
         /\ X \cup r.lost \subseteq blocks' \cup task'[h].lost
         /\ issued' \in 0..MaxIssued
<1>1. CASE /\ blocks' = blocks \cup X
           /\ Set(h, [r EXCEPT !.lost = @ \ X])
           /\ UNCHANGED issued
  BY <1>1 DEF TypeInv, TypeOK, Set, TaskStates
<1>2. ASSUME NEW L \in SUBSET (X \ blocks), Fault,
             blocks' = blocks \cup (X \ L),
             Set(h, [r EXCEPT !.lost = (@ \ X) \cup L])
      PROVE  /\ task'[h] = [r EXCEPT !.lost = (@ \ X) \cup L]
             /\ task'[h] \in TaskStates
             /\ X \cup r.lost \subseteq blocks' \cup task'[h].lost
             /\ issued' \in 0..MaxIssued
  BY <1>2, TaskAssumption DEF TypeInv, TypeOK, Set, TaskStates, Fault, Issue
<1> QED
  BY <1>1, <1>2 DEF ReadThrough, TaskStates

(* The fields it leaves alone.                                             *)
LEMMA ReadThroughFrame ==
  ASSUME TypeInv, NEW h \in Tasks, NEW X \in SUBSET Pb, NEW r \in TaskStates,
         ReadThrough(h, X, r)
  PROVE  /\ task'[h].op = r.op /\ task'[h].pc = r.pc
         /\ task'[h].commit = r.commit /\ task'[h].man = r.man
         /\ task'[h].files = r.files /\ task'[h].file = r.file
         /\ task'[h].cids = r.cids /\ task'[h].reg = r.reg
         /\ TaskOK(r) => Good(h)
<1>1. PICK L \in SUBSET Pb : task'[h] = [r EXCEPT !.lost = L]
  BY ReadThroughEffect
<1>2. /\ task'[h].op = r.op /\ task'[h].pc = r.pc
      /\ task'[h].commit = r.commit /\ task'[h].man = r.man
      /\ task'[h].files = r.files /\ task'[h].file = r.file
      /\ task'[h].cids = r.cids /\ task'[h].reg = r.reg
  BY <1>1 DEF TaskStates
<1> QED
  BY <1>2, ReadThroughEffect DEF Good, TaskOK

(* What findNode reads is dag-pb.                                          *)
LEMMA FindNodeType ==
  ASSUME NEW S \in SUBSET Files, NEW f
  PROVE  {DirCid[S]} \in SUBSET Pb /\ {DirCid[S]} \cup NodeOf(f) \in SUBSET Pb
  BY DagAssumption DEF NodeOf

(* Giving a provider up keeps the types.                                   *)
LEMMA GiveUpType ==
  ASSUME TypeInv, NEW h \in Tasks, task[h].commit \in Commits, GiveUp(h)
  PROVE  Good(h) /\ issued' \in 0..MaxIssued
<1> DEFINE r(l) == [Blank EXCEPT !.op = "pull", !.commit = task[h].commit,
                                 !.pc = l]
<1>1. \A l \in {"peer", "hf"} : r(l) \in TaskStates /\ TaskOK(r(l))
  BY StartType
<1>2. task'[h] \in {r("peer"), r("hf"), Blank}
  BY DEF TypeInv, TypeOK, GiveUp, Fallback, Set
<1>3. issued' \in 0..MaxIssued
  BY TaskAssumption DEF TypeInv, TypeOK, GiveUp, Issue
<1> QED
  BY <1>1, <1>2, <1>3, BlankType DEF Good

(* So does every step of a pull from a peer.                               *)
LEMMA PullType ==
  ASSUME TypeInv, NEW h \in Handlers, PullStep(h)
  PROVE  TypeInv'
<1> h \in Tasks
  BY DEF Tasks
<1> task \in [Tasks -> TaskStates] /\ task[h] \in TaskStates /\ TaskOK(task[h])
  BY DEF TypeInv, TypeOK, TasksOK
<1>0. Only(h)
  BY DEF Only, PullStep, PullRoot, PullEmpty, PullLeaves, PullPlace, PullFail,
         PullUndone, PullMap, PullFile, PullChunk, PullUndo, PullInner, GiveUp,
         FindNode, ReadThrough, Set
<1>1. CASE PullRoot(h)
  <2> DEFINE S == FilesOf[task[h].commit]
             r == [task[h] EXCEPT !.pc = "file", !.man = S, !.files = S]
  <2>1. S \in SUBSET Files /\ At(h, "peer") /\ ReadThrough(h, {DirCid[S]}, r)
    BY <1>1, LayoutAssumption DEF PullRoot, At, TaskOK
  <2>2. r \in TaskStates /\ TaskOK(r)
    BY <2>1 DEF At, TaskStates, TaskOK, PCs, PullPCs, IngestPCs, EvictPCs
  <2>3. {DirCid[S]} \in SUBSET Pb
    BY <2>1, FindNodeType
  <2> HIDE DEF r, S
  <2>4. Good(h) /\ blocks' \subseteq blocks \cup {DirCid[S]} /\ issued' \in 0..MaxIssued
    BY <2>1, <2>2, <2>3, ReadThroughFrame, ReadThroughEffect
  <2> QED
    BY <1>0, <1>1, <2>3, <2>4, StepType
       DEF PullRoot, TypeInv, TypeOK, hub, Cids
<1>2. CASE PullEmpty(h)
  <2>1. Good(h)
    BY <1>2
       DEF PullEmpty, Set, Good, At, TaskStates, TaskOK, PCs, PullPCs, IngestPCs,
           EvictPCs
  <2> QED
    BY <1>0, <1>2, <2>1, StepType, DagAssumption
       DEF PullEmpty, TypeInv, TypeOK, store, hub, At, TaskOK, Cids
<1>3. CASE PullPlace(h)
  <2>1. Good(h)
    <3>1. CASE Set(h, [task[h] EXCEPT !.pc = "file",
                           !.files = @ \ {task[h].file},
                           !.file = None, !.reg = {}])
      BY <1>3, <3>1
         DEF PullPlace, Set, Good, Cids, At, TaskStates, TaskOK, PCs, PullPCs, IngestPCs,
             EvictPCs
    <3>2. CASE Set(h, [task[h] EXCEPT !.pc = "undo", !.cids = task[h].reg])
      BY <1>3, <3>2
         DEF PullPlace, Set, Good, Cids, At, TaskStates, TaskOK, PCs, PullPCs, IngestPCs,
             EvictPCs
    <3> QED
      BY <1>3, <3>1, <3>2 DEF PullPlace
  <2> QED
    BY <1>0, <1>3, <2>1, StepType, LayoutAssumption
       DEF PullPlace, TypeInv, TypeOK, store, hub, At, TaskOK, Blob, Repo, Paths
<1>4. CASE PullFail(h)
  <2>1. Good(h)
    <3>1. CASE /\ GiveUp(h)
               /\ At(h, "peer") \/ At(h, "file") \/ At(h, "empty") \/ At(h, "leaves")
      BY <3>1, GiveUpType DEF At, TaskOK
    <3>2. CASE /\ At(h, "chunk")
               /\ Set(h, [task[h] EXCEPT !.pc = "undo", !.cids = task[h].reg])
      BY <3>2 DEF Set, Good, Cids, At, TaskStates, TaskOK, PCs, PullPCs,
                  IngestPCs, EvictPCs
    <3> QED
      BY <1>4, <3>1, <3>2 DEF PullFail
  <2> QED
    BY <1>0, <1>4, <2>1, StepType, GiveUpType
       DEF PullFail, TypeInv, TypeOK, store, hub, At, TaskOK
<1>5. CASE PullUndone(h)
  <2>1. Good(h)
    BY <1>5, GiveUpType DEF PullUndone, At, TaskOK
  <2> QED
    BY <1>0, <1>5, <2>1, StepType, GiveUpType
       DEF PullUndone, TypeInv, TypeOK, store, hub, At, TaskOK
<1>6. CASE PullMap(h)
  <2>1. Good(h)
    BY <1>6
       DEF PullMap, Set, Good, At, TaskStates, TaskOK, PCs, PullPCs, IngestPCs,
           EvictPCs
  <2> QED
    BY <1>0, <1>6, <2>1, StepType
       DEF PullMap, TypeInv, TypeOK, store, hub, At, TaskOK, Manifests, TaskStates
<1>7. ASSUME NEW f \in Files, PullFile(h, f) PROVE TypeInv'
  <2> DEFINE X  == {DirCid[task[h].man]} \cup NodeOf(f)
             r1 == [task[h] EXCEPT !.files = @ \ {f}]
             r2 == [task[h] EXCEPT !.pc = "empty", !.file = f]
             r3 == [task[h] EXCEPT !.pc = "leaves", !.file = f,
                                   !.cids = Inner[f], !.reg = {}]
  <2>1. At(h, "file") /\ task[h].man \in SUBSET Files
    BY <1>7 DEF PullFile, TaskStates
  <2>2. X \in SUBSET Pb
    BY <2>1, FindNodeType
  <2>3. r1 \in TaskStates /\ TaskOK(r1)
    BY <2>1 DEF At, TaskStates, TaskOK, PCs, PullPCs, IngestPCs, EvictPCs
  <2>4. r2 \in TaskStates /\ TaskOK(r2)
    BY <2>1 DEF At, TaskStates, TaskOK, PCs, PullPCs, IngestPCs, EvictPCs
  <2>5. r3 \in TaskStates /\ TaskOK(r3)
    BY <2>1, DagType
       DEF At, TaskStates, TaskOK, PCs, PullPCs, IngestPCs, EvictPCs, Cids
  <2>6. PICK r \in {r1, r2, r3} : ReadThrough(h, X, r)
    BY <1>7 DEF PullFile, FindNode
  <2>7. r \in TaskStates /\ TaskOK(r)
    BY <2>3, <2>4, <2>5
  <2>8. disk' \subseteq disk \cup {Blob(h, f)} /\ Blob(h, f) \in Paths
    BY <1>7, <2>1, LayoutAssumption DEF PullFile, Blob, Repo, Paths, At, TaskOK
  <2> HIDE DEF X, r1, r2, r3
  <2>9. Good(h) /\ blocks' \subseteq blocks \cup X /\ issued' \in 0..MaxIssued
    BY <2>2, <2>6, <2>7, ReadThroughFrame, ReadThroughEffect
  <2> QED
    BY <1>0, <1>7, <2>2, <2>8, <2>9, StepType
       DEF PullFile, TypeInv, TypeOK, Cids
<1>8. ASSUME NEW x \in Raw, PullChunk(h, x) PROVE TypeInv'
  <2>1. Good(h)
    BY <1>8
       DEF PullChunk, Set, Good, At, TaskStates, TaskOK, PCs, PullPCs, IngestPCs,
           EvictPCs
  <2> QED
    BY <1>0, <1>8, <2>1, StepType, PutLeafType, LayoutAssumption
       DEF PullChunk, TypeInv, TypeOK, store, hub, At, TaskOK, Blob, Repo, Paths
<1>9. ASSUME NEW x \in Raw, PullUndo(h, x) PROVE TypeInv'
  <2>1. Good(h)
    BY <1>9
       DEF PullUndo, Set, Good, At, TaskStates, TaskOK, PCs, PullPCs, IngestPCs,
           EvictPCs
  <2> QED
    BY <1>0, <1>9, <2>1, StepType, TaskAssumption
       DEF PullUndo, TypeInv, TypeOK, store, hub, At, TaskOK, DeleteBlock,
           Fault, Issue
<1>10. ASSUME NEW x \in Pb, PullInner(h, x) PROVE TypeInv'
  <2> DEFINE r == [task[h] EXCEPT !.cids = @ \ {x}]
  <2>1. At(h, "leaves") /\ ReadThrough(h, {x}, r) /\ {x} \in SUBSET Pb
    BY <1>10 DEF PullInner
  <2>2. r \in TaskStates /\ TaskOK(r)
    BY <2>1 DEF At, TaskStates, TaskOK, PCs, PullPCs, IngestPCs, EvictPCs
  <2> HIDE DEF r
  <2>3. Good(h) /\ blocks' \subseteq blocks \cup {x} /\ issued' \in 0..MaxIssued
    BY <2>1, <2>2, ReadThroughFrame, ReadThroughEffect
  <2> QED
    BY <1>0, <1>10, <2>3, StepType
       DEF PullInner, TypeInv, TypeOK, hub, Cids
<1>11. CASE PullLeaves(h)
  <2>1. Good(h)
    BY <1>11, DagType
       DEF PullLeaves, Set, Good, At, TaskStates, TaskOK, PCs, PullPCs,
           IngestPCs, EvictPCs, Cids
  <2> QED
    BY <1>0, <1>11, <2>1, StepType
       DEF PullLeaves, TypeInv, TypeOK, store, hub
<1> QED
  BY <1>1, <1>2, <1>3, <1>4, <1>5, <1>6, <1>7, <1>8, <1>9, <1>10, <1>11
     DEF PullStep

(* So does every step of a pull from the Hub.                              *)
LEMMA HfType ==
  ASSUME TypeInv, NEW h \in Handlers, HfStep(h)
  PROVE  TypeInv'
<1> h \in Tasks
  BY DEF Tasks
<1> task \in [Tasks -> TaskStates] /\ task[h] \in TaskStates /\ TaskOK(task[h])
  BY DEF TypeInv, TypeOK, TasksOK
<1>0. Only(h)
  BY DEF Only, HfStep, HfManifest, HfFetched, HfFail, WriteRef, HfFetch, WriteLink, Set
<1>1. CASE HfManifest(h)
  <2>1. Good(h)
    BY <1>1, LayoutAssumption
       DEF HfManifest, Set, Good, At, TaskStates, TaskOK, PCs, PullPCs, IngestPCs,
           EvictPCs
  <2> QED
    BY <1>0, <1>1, <2>1, StepType
       DEF HfManifest, TypeInv, TypeOK, store, hub
<1>2. CASE HfFetched(h)
  <2>1. Good(h)
    BY <1>2
       DEF HfFetched, Set, Good, At, TaskStates, TaskOK, PCs, PullPCs, IngestPCs,
           EvictPCs
  <2> QED
    BY <1>0, <1>2, <2>1, StepType
       DEF HfFetched, TypeInv, TypeOK, store, hub
<1>3. CASE HfFail(h)
  <2>1. Good(h)
    BY <1>3, BlankType
       DEF HfFail, Set, Good, At, TaskStates, TaskOK, PCs, PullPCs, IngestPCs,
           EvictPCs
  <2> QED
    BY <1>0, <1>3, <2>1, StepType
       DEF HfFail, TypeInv, TypeOK, store, hub
<1>4. CASE WriteRef(h)
  <2>1. Good(h)
    <3>1. CASE /\ At(h, "hflink")
               /\ Set(h, [task[h] EXCEPT !.pc = "read", !.man = {}])
      BY <3>1 DEF Set, Good, At, TaskStates, TaskOK, PCs, PullPCs, IngestPCs,
                  EvictPCs
    <3>2. CASE Set(h, Blank)
      BY <1>4, <3>2, BlankType
         DEF Set, Good
    <3> QED
      BY <1>4, <3>1, <3>2 DEF WriteRef
  <2> QED
    BY <1>0, <1>4, <2>1, StepType, LayoutAssumption
       DEF WriteRef, TypeInv, TypeOK, store, hub, At, TaskOK, Repo
<1>5. ASSUME NEW f \in Files, HfFetch(h, f) PROVE TypeInv'
  <2>1. Good(h)
    BY <1>5
       DEF HfFetch, Set, Good, At, TaskStates, TaskOK, PCs, PullPCs, IngestPCs,
           EvictPCs
  <2> QED
    BY <1>0, <1>5, <2>1, StepType, LayoutAssumption
       DEF HfFetch, TypeInv, TypeOK, store, hub, At, TaskOK, Blob, Repo, Paths
<1>6. ASSUME NEW f \in Files, WriteLink(h, f) PROVE TypeInv'
  <2>1. Good(h)
    <3>1. CASE Set(h, [task[h] EXCEPT !.files = @ \ {f}])
      BY <1>6, <3>1
         DEF WriteLink, Set, Good, At, TaskStates, TaskOK, PCs, PullPCs,
             IngestPCs, EvictPCs
    <3>2. CASE Set(h, Fallback(h)) \/ Set(h, Blank)
      <4>1. task[h].commit \in Commits
        BY <1>6 DEF WriteLink, At, TaskOK
      <4> QED
        BY <3>2, <4>1, StartType, BlankType DEF Set, Good, Fallback
    <3> QED
      BY <1>6, <3>1, <3>2 DEF WriteLink
  <2> QED
    BY <1>0, <1>6, <2>1, StepType
       DEF WriteLink, TypeInv, TypeOK, store, hub, At, TaskOK, Manifests
<1> QED
  BY <1>1, <1>2, <1>3, <1>4, <1>5, <1>6 DEF HfStep

(* So does every step of an ingest.                                        *)
LEMMA IngestType ==
  ASSUME TypeInv, NEW t \in Tasks, IngestStep(t)
  PROVE  TypeInv'
<1> task \in [Tasks -> TaskStates] /\ task[t] \in TaskStates /\ TaskOK(task[t])
  BY DEF TypeInv, TypeOK, TasksOK
<1>0. Only(t)
  BY DEF Only, IngestStep, IngestRead, IngestNode, IngestDir, IngestMap,
         IngestOpen, IngestLeaf, IngestInner, Set
<1>1. CASE IngestRead(t)
  <2>1. Good(t)
    <3>1. CASE Set(t, [task[t] EXCEPT !.pc = "add",
                                   !.man = links[task[t].commit],
                                   !.files = links[task[t].commit]])
      BY <1>1, <3>1
         DEF IngestRead, Set, Good, TypeInv, TypeOK, Manifests, At, TaskStates, TaskOK, PCs, PullPCs, IngestPCs,
             EvictPCs
    <3>2. CASE Set(t, Blank)
      BY <1>1, <3>2, BlankType
         DEF Set, Good
    <3> QED
      BY <1>1, <3>1, <3>2 DEF IngestRead
  <2> QED
    BY <1>0, <1>1, <2>1, StepType
       DEF IngestRead, TypeInv, TypeOK, store, hub
<1>2. CASE IngestNode(t)
  <2>1. Good(t)
    BY <1>2
       DEF IngestNode, Set, Good, At, TaskStates, TaskOK, PCs, PullPCs, IngestPCs,
           EvictPCs
  <2> QED
    BY <1>0, <1>2, <2>1, StepType, DagAssumption
       DEF IngestNode, TypeInv, TypeOK, store, hub, At, TaskOK, NodeOf, Cids
<1>3. CASE IngestDir(t)
  <2>1. Good(t)
    BY <1>3
       DEF IngestDir, Set, Good, At, TaskStates, TaskOK, PCs, PullPCs, IngestPCs,
           EvictPCs
  <2> QED
    BY <1>0, <1>3, <2>1, StepType, DagAssumption
       DEF IngestDir, TypeInv, TypeOK, store, hub, At, TaskOK, TaskStates, Cids
<1>4. CASE IngestMap(t)
  <2>1. Good(t)
    BY <1>4, BlankType
       DEF IngestMap, Set, Good, At, TaskStates, TaskOK, PCs, PullPCs, IngestPCs,
           EvictPCs
  <2> QED
    BY <1>0, <1>4, <2>1, StepType
       DEF IngestMap, TypeInv, TypeOK, store, hub, At, TaskOK, Manifests, TaskStates
<1>5. ASSUME NEW f \in Files, IngestOpen(t, f) PROVE TypeInv'
  <2>1. Good(t)
    <3>1. CASE Set(t, [task[t] EXCEPT !.pc = "leaf", !.file = f,
                                   !.cids = FileDag[f] \ NodeOf(f)])
      BY <1>5, <3>1, DagType
         DEF IngestOpen, Set, Good, Cids, At, TaskStates, TaskOK, PCs, PullPCs, IngestPCs,
             EvictPCs
    <3>2. CASE Set(t, Blank)
      BY <1>5, <3>2, BlankType
         DEF Set, Good
    <3> QED
      BY <1>5, <3>1, <3>2 DEF IngestOpen
  <2> QED
    BY <1>0, <1>5, <2>1, StepType
       DEF IngestOpen, TypeInv, TypeOK, store, hub
<1>6. ASSUME NEW x \in Raw, IngestLeaf(t, x) PROVE TypeInv'
  <2>1. Good(t)
    BY <1>6
       DEF IngestLeaf, Set, Good, At, TaskStates, TaskOK, PCs, PullPCs, IngestPCs,
           EvictPCs
  <2> QED
    BY <1>0, <1>6, <2>1, StepType, PutLeafType, LayoutAssumption
       DEF IngestLeaf, TypeInv, TypeOK, store, hub, At, TaskOK, Blob, Repo, Paths
<1>7. ASSUME NEW x \in Pb, IngestInner(t, x) PROVE TypeInv'
  <2>1. Good(t)
    BY <1>7
       DEF IngestInner, Set, Good, At, TaskStates, TaskOK, PCs, PullPCs,
           IngestPCs, EvictPCs
  <2> QED
    BY <1>0, <1>7, <2>1, StepType
       DEF IngestInner, TypeInv, TypeOK, store, hub, Cids
<1> QED
  BY <1>1, <1>2, <1>3, <1>4, <1>5, <1>6, <1>7 DEF IngestStep

(* The record of an eviction that takes up a revision.                     *)
LEMMA EvictStartType ==
  ASSUME NEW r \in TaskStates, r.op = "evict", NEW d \in Commits,
         NEW S \in SUBSET Files
  PROVE  LET q == [r EXCEPT !.pc = "others", !.commit = d, !.man = S]
         IN  q \in TaskStates /\ TaskOK(q)
  BY DEF TaskStates, TaskOK, PCs, PullPCs, IngestPCs, EvictPCs

(* Every step of an eviction keeps the types.                              *)
LEMMA EvictType ==
  ASSUME TypeInv, NEW t \in Tasks, EvictStep(t)
  PROVE  TypeInv'
<1> task \in [Tasks -> TaskStates] /\ task[t] \in TaskStates /\ TaskOK(task[t])
  BY DEF TypeInv, TypeOK, TasksOK
<1>0. Only(t)
  BY DEF Only, EvictStep, EvictDone, EvictList, EvictTarget, EvictScan,
         EvictUnmap, EvictFail, EvictUnlink, EvictUnref, EvictRemoveRef,
         EvictNext, EvictKeep,
         EvictDelete, EvictBlob, Set
<1>1. CASE EvictDone(t)
  <2>1. Good(t)
    BY <1>1, BlankType
       DEF EvictDone, Set, Good, At, TaskStates, TaskOK, PCs, PullPCs, IngestPCs,
           EvictPCs
  <2> QED
    BY <1>0, <1>1, <2>1, StepType
       DEF EvictDone, TypeInv, TypeOK, store, hub
<1>2. CASE EvictList(t)
  <2>1. Good(t)
    BY <1>2
       DEF EvictList, Set, Good, TypeInv, TypeOK, Manifests, At, TaskStates, TaskOK, PCs, PullPCs, IngestPCs,
           EvictPCs
  <2> QED
    BY <1>0, <1>2, <2>1, StepType
       DEF EvictList, TypeInv, TypeOK, store, hub
<1>3. CASE EvictTarget(t)
  <2>1. Good(t)
    BY <1>3, WalkType
       DEF EvictTarget, Set, Good, At, TaskStates, TaskOK, PCs, PullPCs,
           IngestPCs, EvictPCs
  <2> QED
    BY <1>0, <1>3, <2>1, StepType
       DEF EvictTarget, TypeInv, TypeOK, store, hub
<1>4. CASE EvictScan(t)
  <2>1. Good(t)
    <3>1. {fref[x] : x \in Raw} \ {None} \subseteq Paths
      BY DEF TypeInv, TypeOK
    <3> QED
      BY <1>4, <3>1 DEF EvictScan, Set, Good, At, TaskStates, TaskOK, PCs,
                        PullPCs, IngestPCs, EvictPCs
  <2> QED
    BY <1>0, <1>4, <2>1, StepType
       DEF EvictScan, TypeInv, TypeOK, store, hub
<1>5. CASE EvictUnmap(t)
  <2>1. Good(t)
    BY <1>5
       DEF EvictUnmap, Set, Good, At, TaskStates, TaskOK, PCs, PullPCs, IngestPCs,
           EvictPCs
  <2> QED
    BY <1>0, <1>5, <2>1, StepType
       DEF EvictUnmap, TypeInv, TypeOK, store, hub, At, TaskOK, Manifests
<1>6. CASE EvictUnlink(t)
  <2>1. Good(t)
    BY <1>6
       DEF EvictUnlink, Set, Good, At, TaskStates, TaskOK, PCs, PullPCs, IngestPCs,
           EvictPCs
  <2> QED
    BY <1>0, <1>6, <2>1, StepType
       DEF EvictUnlink, TypeInv, TypeOK, store, hub, At, TaskOK, Manifests
<1>7. CASE EvictUnref(t)
  <2>1. Good(t)
    <3>1. task[t].listed \in Manifests
      BY DEF TaskStates
    <3>2. CASE Set(t, [task[t] EXCEPT !.pc = "rmref"])
      <4>1. task[t].pc = "unref"
        BY <1>7 DEF EvictUnref, At
      <4> QED
        BY <3>2, <4>1 DEF Set, Good, TaskStates, TaskOK, PCs, PullPCs, IngestPCs,
                          EvictPCs
    <3> QED
      BY <1>7, <3>1, <3>2, LoopType DEF EvictUnref, Set, Good
  <2> QED
    BY <1>0, <1>7, <2>1, StepType
       DEF EvictUnref, TypeInv, TypeOK, store, hub
<1>8. ASSUME NEW d \in Commits, EvictNext(t, d) PROVE TypeInv'
  <2>1. Good(t)
    <3> DEFINE l == [task[t].listed EXCEPT ![d] = {}]
               r == [Blank EXCEPT !.op = "evict", !.pc = "next", !.listed = l]
               q == [r EXCEPT !.pc = "others", !.commit = d,
                              !.man = task[t].listed[d]]
    <3>1. l \in Manifests /\ task[t].listed[d] \in SUBSET Files
      BY DEF TaskStates, Manifests
    <3>2. r \in TaskStates /\ TaskOK(r) /\ r.op = "evict"
      BY <3>1, LoopType
    <3>3. task'[t] = r \/ task'[t] = q
      BY <1>8 DEF EvictNext, Set
    <3>4. q \in TaskStates /\ TaskOK(q)
      BY <3>1, <3>2, EvictStartType
    <3> QED
      BY <3>2, <3>3, <3>4 DEF Good
  <2> QED
    BY <1>0, <1>8, <2>1, StepType
       DEF EvictNext, TypeInv, TypeOK, store, hub
<1>9. ASSUME NEW d \in Commits, EvictKeep(t, d) PROVE TypeInv'
  <2>1. Good(t)
    <3>1. task[t].others[d] \in SUBSET Files
      BY DEF TaskStates, Manifests
    <3>2. Walk(task[t].others[d], blocks) \subseteq Cids
      BY <3>1, WalkType
    <3> QED
      BY <1>9, <3>2 DEF EvictKeep, Set, Good, At, TaskStates, TaskOK, PCs,
                        Manifests, PullPCs, IngestPCs, EvictPCs
  <2> QED
    BY <1>0, <1>9, <2>1, StepType
       DEF EvictKeep, TypeInv, TypeOK, store, hub
<1>10. ASSUME NEW x \in Cids, EvictDelete(t, x) PROVE TypeInv'
  <2>1. Good(t)
    BY <1>10
       DEF EvictDelete, Set, Good, Cids, At, TaskStates, TaskOK, PCs, PullPCs, IngestPCs,
           EvictPCs
  <2> QED
    BY <1>0, <1>10, <2>1, StepType, DagAssumption
       DEF EvictDelete, TypeInv, TypeOK, store, hub, At, TaskOK, Cids
<1>11. ASSUME NEW f \in Files, EvictBlob(t, f) PROVE TypeInv'
  <2>1. Good(t)
    BY <1>11
       DEF EvictBlob, Set, Good, At, TaskStates, TaskOK, PCs, PullPCs, IngestPCs,
           EvictPCs
  <2> QED
    BY <1>0, <1>11, <2>1, StepType
       DEF EvictBlob, TypeInv, TypeOK, store, hub
<1>12. CASE EvictFail(t)
  <2> DEFINE r == [Blank EXCEPT !.op = "evict", !.pc = "next",
                                !.listed = task[t].listed]
  <2>1. r \in TaskStates /\ TaskOK(r)
    BY LoopType DEF TaskStates
  <2>2. task'[t] = r \/ task'[t] = Blank
    BY <1>12 DEF EvictFail, Set
  <2>3. Good(t)
    BY <2>1, <2>2, BlankType DEF Good
  <2>4. torn' \subseteq Commits /\ issued' \in 0..MaxIssued
    BY <1>12, TaskAssumption
       DEF EvictFail, At, TaskOK, TypeInv, TypeOK, Fault, Issue
  <2> QED
    BY <1>0, <1>12, <2>3, <2>4, StepType
       DEF EvictFail, TypeInv, TypeOK, store, hub
<1>13. CASE EvictRemoveRef(t)
  <2>1. Good(t)
    <3>1. task[t].listed \in Manifests
      BY DEF TaskStates
    <3> QED
      BY <1>13, <3>1, LoopType DEF EvictRemoveRef, Set, Good
  <2> QED
    BY <1>0, <1>13, <2>1, StepType
       DEF EvictRemoveRef, TypeInv, TypeOK, store, hub
<1> QED
  BY <1>1, <1>2, <1>3, <1>4, <1>5, <1>6, <1>7, <1>8, <1>9, <1>10, <1>11, <1>12,
     <1>13
     DEF EvictStep

(* Taking up an operation.                                                 *)
LEMMA RequestType ==
  ASSUME TypeInv, NEW t \in Tasks, NEW c \in Commits, NEW C \in SUBSET Commits,
         \/ PullBegin(t, c) \/ PullRelink(t, c) \/ IngestBegin(t, c)
         \/ EvictBegin(t, C)
         \/ t = Watcher /\ TryIngest(c)
  PROVE  TypeInv'
<1> DEFINE b(k, l) == [Blank EXCEPT !.op = k, !.commit = c, !.pc = l]
           r == [Blank EXCEPT !.op = "relink", !.commit = c, !.pc = "link",
                              !.man = entry[c], !.files = entry[c]]
           m == [d \in Commits |-> IF d \in C THEN entry[d] ELSE {}]
           e == [Blank EXCEPT !.op = "evict", !.pc = "next", !.listed = m]
<1>1. entry[c] \in SUBSET Files /\ m \in Manifests
  BY DEF TypeInv, TypeOK, Manifests
<1>2. /\ b("pull", "peer") \in TaskStates /\ TaskOK(b("pull", "peer"))
      /\ b("pull", "hf") \in TaskStates /\ TaskOK(b("pull", "hf"))
      /\ b("ingest", "read") \in TaskStates /\ TaskOK(b("ingest", "read"))
  BY StartType
<1>3. r \in TaskStates /\ TaskOK(r)
  <2>1. r \in TaskStates /\ r.op = "relink" /\ r.commit = c /\ r.pc = "link"
    BY <1>1, BlankType DEF TaskStates, PCs, Kinds
  <2> HIDE DEF r
  <2> QED
    BY <2>1 DEF TaskOK, PullPCs, IngestPCs, EvictPCs
<1>4. e \in TaskStates /\ TaskOK(e)
  BY <1>1, LoopType
<1>5. task'[t] \in {b("pull", "peer"), b("pull", "hf"), b("ingest", "read"), r, e}
  BY DEF TypeInv, TypeOK, PullBegin, PullRelink, IngestBegin, EvictBegin,
         TryIngest, Set
<1>6. Good(t)
  BY <1>2, <1>3, <1>4, <1>5 DEF Good
<1>7. Only(t)
  BY DEF TypeInv, TypeOK, PullBegin, PullRelink, IngestBegin, EvictBegin,
         TryIngest, Set, Only
<1>8. issued' \in 0..MaxIssued
  BY TaskAssumption DEF TypeInv, TypeOK, PullBegin, PullRelink, IngestBegin,
                        EvictBegin, TryIngest, Issue
<1> QED
  BY <1>6, <1>7, <1>8, StepType
     DEF TypeInv, TypeOK, PullBegin, PullRelink, IngestBegin, EvictBegin,
         TryIngest, store, hub

(* TypeInv is inductive.                                                   *)
LEMMA TypeStep ==
  ASSUME TypeInv, [Next]_vars
  PROVE  TypeInv'
<1>1. ASSUME NEW h \in Handlers, Request(h) \/ PullStep(h) \/ HfStep(h)
      PROVE  TypeInv'
  <2>1. CASE Request(h)
    <3> h \in Tasks
      BY DEF Tasks
    <3>1. ASSUME NEW c \in Commits,
                 \/ PullBegin(h, c) \/ PullRelink(h, c)
                 \/ IngestBegin(h, c) \/ EvictBegin(h, {c})
          PROVE  TypeInv'
      <4> {c} \in SUBSET Commits
        OBVIOUS
      <4> QED
        BY <3>1, RequestType
    <3>2. ASSUME NEW C \in SUBSET Commits, EvictBegin(h, C)
          PROVE  TypeInv'
      <4> PICK c \in C : entry[c] # {}
        BY <3>2 DEF EvictBegin
      <4> QED
        BY <3>2, RequestType
    <3> QED
      BY <2>1, <3>1, <3>2 DEF Request
  <2> QED
    BY <1>1, <2>1, PullType, HfType
<1>2. ASSUME NEW t \in Tasks, IngestStep(t) \/ EvictStep(t)
      PROVE  TypeInv'
  BY <1>2, IngestType, EvictType
<1>3. ASSUME NEW c \in Commits, TryIngest(c)
      PROVE  TypeInv'
  <2>1. Watcher \in Tasks
    BY DEF Tasks
  <2> QED
    BY <1>3, <2>1, RequestType
<1>4. ASSUME NEW c \in Commits, HfDownload(c)
      PROVE  TypeInv'
  <2>1. FilesOf[c] \in SUBSET Files /\ RepoOf[c] \in Repos
    BY LayoutAssumption
  <2>2. links' \in Manifests /\ ref' \in [Repos -> Commits \cup {None}]
    BY <1>4, <2>1 DEF HfDownload, TypeInv, TypeOK, Manifests
  <2>3. disk' \subseteq Paths
    BY <1>4, <2>1 DEF HfDownload, TypeInv, TypeOK, Paths
  <2>4. issued' \in 0..MaxIssued
    BY <1>4, TaskAssumption DEF HfDownload, TypeInv, TypeOK, Issue
  <2> QED
    BY <1>4, <2>2, <2>3, <2>4
       DEF HfDownload, TypeInv, TypeOK, TasksOK, TaskOK, store
<1>5. CASE PruneBegin
  <2> DEFINE e == [Blank EXCEPT !.op = "evict", !.pc = "next", !.listed = entry]
  <2>1. Watcher \in Tasks
    BY DEF Tasks
  <2>2. e \in TaskStates /\ TaskOK(e)
    BY LoopType DEF TypeInv, TypeOK
  <2>3. Only(Watcher) /\ task'[Watcher] = e
    BY <1>5, <2>1 DEF TypeInv, TypeOK, PruneBegin, Set, Only
  <2> QED
    BY <1>5, <2>1, <2>2, <2>3, StepType
       DEF Good, PruneBegin, TypeInv, TypeOK, store, hub
<1>6. ASSUME NEW r \in Repos, DeleteRepo(r)
      PROVE  TypeInv'
  BY <1>6, LayoutAssumption, TaskAssumption
     DEF DeleteRepo, TypeInv, TypeOK, TasksOK, TaskOK, Manifests, Issue, store
<1>7. CASE Crash
  <2>1. torn' \subseteq Commits
    BY <1>7 DEF Crash, TypeInv, TypeOK, TasksOK, TaskOK, At
  <2> QED
    BY <1>7, <2>1, BlankType, TaskAssumption
       DEF Crash, TypeInv, TypeOK, TasksOK, Issue, store, hub
<1>8. CASE UNCHANGED vars
  BY <1>8 DEF vars, TypeInv, TypeOK, TasksOK, TaskOK
<1> QED
  BY <1>1, <1>2, <1>3, <1>4, <1>5, <1>6, <1>7, <1>8 DEF Next

(* The initial state is well typed.                                        *)
LEMMA TypeInit == Init => TypeInv
  BY BlankType, TaskAssumption
     DEF Init, TypeInv, TypeOK, TasksOK, NoEntries, Manifests, Cids

(* Every bucket, every directory and every task's record is always of its  *)
(* type: references lead to blob paths, no step leaves a task half set up. *)
THEOREM TypeCorrect == Spec => []TypeOK
<1>1. TypeInv => TypeOK
  BY DEF TypeInv
<1> QED
  BY TypeInit, TypeStep, <1>1, PTL DEF Spec

-----------------------------------------------------------------------------
(* The tree of a mapped revision                                           *)

(* A revision's tree has dag-pb nodes only, so that no rollback touches    *)
(* it.                                                                     *)
LEMMA TreePb ==
  ASSUME NEW S \in SUBSET Files
  PROVE  Tree(S) \subseteq Pb
  BY DagAssumption DEF Tree, NodeOf

(* A walk keeps where it started.                                          *)
LEMMA BelowGrows ==
  ASSUME NEW X, NEW bs
  PROVE  X \subseteq Below(X, bs)
  BY DEF Below

(* evict.walk finds a revision's directory and file roots if the directory *)
(* is there.                                                               *)
LEMMA WalkTree ==
  ASSUME NEW S \in SUBSET Files, NEW bs, Tree(S) \subseteq bs
  PROVE  Tree(S) \subseteq Walk(S, bs)
<1> DEFINE B == Below({DirCid[S]}, bs)
<1>1. DirCid[S] \in bs /\ DirCid[S] \in Pb
  BY DagAssumption DEF Tree
<1>2. Links[DirCid[S]] = {FileCid[f] : f \in S}
  BY DagAssumption
<1>3. Tree(S) \subseteq B
  BY <1>1, <1>2 DEF Tree, NodeOf, Below
<1>4. B \subseteq Walk(S, bs)
  <2>1. B \subseteq Below(B, bs)
    BY BelowGrows
  <2>2. Below(B, bs) \subseteq Below(Below(B, bs), bs)
    BY BelowGrows
  <2> QED
    BY <2>1, <2>2 DEF Walk
<1> QED
  BY <1>3, <1>4

(* A step that changes no entry, drops no dag-pb block and ends no         *)
(* eviction keeps the invariant, if its own task's part of it holds.       *)
LEMMA GrowStep ==
  ASSUME IndInv, TypeInv', Exclusion', NEW t \in Tasks, Only(t),
         entry' = entry, holed' = holed, blocks \cap Pb \subseteq blocks',
         \A c \in Commits : BeingEvicted(c) => BeingEvicted(c)',
         Built(task[t])', Spared(task[t])'
  PROVE  IndInv'
<1>1. ASSUME NEW u \in Tasks, u # t
      PROVE  task'[u] = task[u]
  BY <1>1 DEF IndInv, TypeInv, TypeOK, Only
<1>2. ASSUME NEW u \in Tasks
      PROVE  Built(task[u])'
  <2>1. CASE u = t
    BY <2>1
  <2>2. CASE u # t
    <3>1. task[u].man \in SUBSET Files
      BY DEF IndInv, TypeInv, TypeOK, TaskStates
    <3>2. \A f : NodeOf(f) \subseteq Pb
      BY DEF NodeOf
    <3>3. DirCid[task[u].man] \in Pb
      BY <3>1, DagAssumption
    <3>4. Built(task[u]) /\ task'[u] = task[u]
      BY <1>1, <2>2 DEF IndInv
    <3> QED
      BY <3>2, <3>3, <3>4 DEF Built
  <2> QED
    BY <2>1, <2>2
<1>3. ASSUME NEW u \in Tasks
      PROVE  Spared(task[u])'
  BY <1>1 DEF IndInv, Spared
<1>4. TreeHeld'
  BY TreePb DEF IndInv, TypeInv, TypeOK, Manifests, TreeHeld
<1> QED
  BY <1>2, <1>3, <1>4 DEF IndInv

(* No task but t changes, and t is not in the deleting part of an eviction. *)
LEMMA NotEvicting ==
  ASSUME IndInv, NEW t \in Tasks, Only(t), torn' = torn,
         task[t].pc \notin {"delete", "blobs"}
  PROVE  \A c \in Commits : BeingEvicted(c) => BeingEvicted(c)'
  BY DEF IndInv, TypeInv, TypeOK, Only, BeingEvicted, At

(* A task keeps its operation or ends it.                                  *)
LEMMA ExclusionStep ==
  ASSUME IndInv, NEW t \in Tasks, Only(t),
         task'[t].op \in {task[t].op, "none"}
  PROVE  Exclusion'
  BY DEF IndInv, TypeInv, TypeOK, Only, Exclusion

(* Recording an entry whose tree is in place, or known not to be.          *)
LEMMA MapStep ==
  ASSUME IndInv, TypeInv', Exclusion', NEW t \in Tasks, Only(t),
         task[t].op \in {"pull", "ingest"}, task[t].pc # "idle",
         task[t].commit \in Commits,
         Tree(task[t].man) \subseteq blocks \/ task[t].commit \in holed',
         holed \subseteq holed' \cup {task[t].commit}, blocks' = blocks,
         entry' = [entry EXCEPT ![task[t].commit] = task[t].man],
         torn' = torn \ {task[t].commit},
         task'[t].pc \in {"link", "idle"}
  PROVE  IndInv'
<1>1. \A u \in Tasks : task[u].op # "evict" /\ task[u].pc \notin EvictPCs
  BY DEF IndInv, Exclusion, TypeInv, TasksOK, TaskOK
<1>2. \A u \in Tasks : task'[u].pc \notin EvictPCs
  BY <1>1 DEF IndInv, TypeInv, TypeOK, Only, EvictPCs
<1>3. ASSUME NEW u \in Tasks
      PROVE  Built(task[u])' /\ Spared(task[u])'
  <2>1. Spared(task[u])'
    BY <1>2 DEF Spared, EvictPCs
  <2>2. Built(task[u])'
    BY DEF IndInv, TypeInv, TypeOK, Only, Built
  <2> QED
    BY <2>1, <2>2
<1>4. TreeHeld'
  <2>1. \A c \in Commits : BeingEvicted(c) => c \in torn
    BY <1>1 DEF BeingEvicted, At, EvictPCs
  <2>2. ASSUME NEW c \in Commits, entry'[c] # {}, ~BeingEvicted(c)',
               c \notin holed'
        PROVE  Tree(entry'[c]) \subseteq blocks'
    <3>1. CASE c = task[t].commit
      BY <2>2, <3>1 DEF IndInv, TypeInv, TypeOK, Manifests
    <3>2. CASE c # task[t].commit
      BY <2>1, <2>2, <3>2
         DEF IndInv, TypeInv, TypeOK, Manifests, TreeHeld, BeingEvicted
    <3> QED
      BY <3>1, <3>2
  <2> QED
    BY <2>2 DEF TreeHeld, Tree
<1> QED
  BY <1>3, <1>4 DEF IndInv

(* A pull that gives a provider up tries the next, turns to the Hub or     *)
(* ends.                                                                   *)
LEMMA GiveUpEffect ==
  ASSUME TypeInv, NEW h \in Tasks, GiveUp(h)
  PROVE  /\ task'[h].pc \in {"peer", "hf", "idle"}
         /\ task'[h].op \in {"pull", "none"}
<1> DEFINE r(l) == [Blank EXCEPT !.op = "pull", !.commit = task[h].commit,
                                 !.pc = l]
<1>1. task'[h] \in {r("peer"), r("hf"), Blank}
  BY DEF TypeInv, TypeOK, GiveUp, Fallback, Set
<1>2. /\ r("peer").pc = "peer" /\ r("peer").op = "pull"
      /\ r("hf").pc = "hf" /\ r("hf").op = "pull"
      /\ Blank.pc = "idle" /\ Blank.op = "none"
  BY DEF Blank
<1> QED
  BY <1>1, <1>2

(* What findNode and reconstructFile leave in the task's record and in the *)
(* blocks bucket.                                                          *)
LEMMA PullFileEffect ==
  ASSUME TypeInv, NEW h \in Tasks, NEW f \in Files, PullFile(h, f)
  PROVE  /\ task'[h].pc \in {"file", "empty", "leaves"}
         /\ task'[h].pc # "file" => task'[h].file = f
         /\ task'[h].man = task[h].man
         /\ task'[h].op = task[h].op
         /\ task[h].files \ {f} \subseteq task'[h].files
         /\ blocks \subseteq blocks'
         /\ task[h].lost \subseteq blocks' \cup task'[h].lost
         /\ NodeOf(f) \subseteq blocks' \cup task'[h].lost
<1> task \in [Tasks -> TaskStates] /\ task[h] \in TaskStates
  BY DEF TypeInv, TypeOK
<1> DEFINE X  == {DirCid[task[h].man]} \cup NodeOf(f)
           r1 == [task[h] EXCEPT !.files = @ \ {f}]
           r2 == [task[h] EXCEPT !.pc = "empty", !.file = f]
           r3 == [task[h] EXCEPT !.pc = "leaves", !.file = f,
                                 !.cids = Inner[f], !.reg = {}]
<1>1. task[h].pc = "file" /\ \E r \in {r1, r2, r3} : ReadThrough(h, X, r)
  BY DEF PullFile, FindNode, At
<1>2. X \in SUBSET Pb
  BY FindNodeType DEF TaskStates
<1>3. ASSUME NEW r \in {r1, r2, r3}
      PROVE  /\ r \in TaskStates /\ r.pc \in {"file", "empty", "leaves"}
             /\ r.pc # "file" => r.file = f
             /\ r.man = task[h].man /\ r.op = task[h].op
             /\ task[h].files \ {f} \subseteq r.files
             /\ r.lost = task[h].lost
  <2>1. CASE r = r1
    BY <1>1, <2>1 DEF TaskStates
  <2>2. CASE r = r2
    BY <2>2 DEF TaskStates, PCs
  <2>3. CASE r = r3
    BY <2>3, DagType DEF TaskStates, PCs, Cids
  <2> QED
    BY <2>1, <2>2, <2>3
<1>4. PICK r \in {r1, r2, r3} : ReadThrough(h, X, r)
  BY <1>1
<1>5. NodeOf(f) \subseteq X
  OBVIOUS
<1> HIDE DEF X, r1, r2, r3
<1> QED
  BY <1>2, <1>3, <1>4, <1>5, ReadThroughEffect, ReadThroughFrame

(* Reading the root sets the pull up with the revision's files.            *)
LEMMA PullRootEffect ==
  ASSUME TypeInv, NEW h \in Tasks, task[h].commit \in Commits, PullRoot(h)
  PROVE  /\ task'[h].pc = "file" /\ task'[h].op = task[h].op
         /\ task'[h].files = task'[h].man
         /\ DirCid[task'[h].man] \in blocks' \cup task'[h].lost
         /\ blocks \subseteq blocks'
<1> task \in [Tasks -> TaskStates] /\ task[h] \in TaskStates
  BY DEF TypeInv, TypeOK
<1> DEFINE S == FilesOf[task[h].commit]
           r == [task[h] EXCEPT !.pc = "file", !.man = S, !.files = S]
<1>1. S \in SUBSET Files /\ ReadThrough(h, {DirCid[S]}, r)
  BY LayoutAssumption DEF PullRoot
<1>2. r \in TaskStates /\ r.pc = "file" /\ r.op = task[h].op /\ r.files = S /\ r.man = S
  BY <1>1 DEF TaskStates, PCs
<1>3. {DirCid[S]} \in SUBSET Pb
  BY <1>1, FindNodeType
<1> HIDE DEF r, S
<1> QED
  BY <1>1, <1>2, <1>3, ReadThroughEffect, ReadThroughFrame

(* Reading an interior node takes it off the list.                         *)
LEMMA PullInnerEffect ==
  ASSUME TypeInv, NEW h \in Tasks, NEW x \in Pb, PullInner(h, x)
  PROVE  /\ task'[h].pc = task[h].pc /\ task'[h].op = task[h].op
         /\ task'[h].man = task[h].man
         /\ task'[h].file = task[h].file /\ task'[h].files = task[h].files
         /\ task[h].lost \subseteq blocks' \cup task'[h].lost
         /\ blocks \subseteq blocks'
<1> task \in [Tasks -> TaskStates] /\ task[h] \in TaskStates
  BY DEF TypeInv, TypeOK
<1> DEFINE r == [task[h] EXCEPT !.cids = @ \ {x}]
<1>1. ReadThrough(h, {x}, r) /\ {x} \in SUBSET Pb
  BY DEF PullInner
<1>2. /\ r \in TaskStates /\ r.pc = task[h].pc /\ r.op = task[h].op
      /\ r.man = task[h].man /\ r.file = task[h].file
      /\ r.files = task[h].files /\ r.lost = task[h].lost
  BY DEF TaskStates
<1> HIDE DEF r
<1>3. blocks \subseteq blocks' /\ {x} \cup r.lost \subseteq blocks' \cup task'[h].lost
  BY <1>1, <1>2, ReadThroughEffect
<1>4. /\ task'[h].op = r.op /\ task'[h].pc = r.pc /\ task'[h].man = r.man
      /\ task'[h].files = r.files /\ task'[h].file = r.file
  BY <1>1, <1>2, ReadThroughFrame
<1> QED
  BY <1>2, <1>3, <1>4

(* A pull that has placed a blob, or failed to, goes on with its next file *)
(* or rolls back, with the same manifest.                                  *)
LEMMA PullPlaceEffect ==
  ASSUME TypeInv, NEW h \in Tasks, PullPlace(h)
  PROVE  /\ task'[h].pc \in {"file", "undo"}
         /\ task'[h].pc = "undo" => task'[h].file = task[h].file
         /\ task'[h].man = task[h].man
         /\ task'[h].op = task[h].op
         /\ task'[h].lost = task[h].lost
         /\ task[h].files \ {task[h].file} \subseteq task'[h].files
<1> task \in [Tasks -> TaskStates] /\ task[h] \in TaskStates
  BY DEF TypeInv, TypeOK
<1>1. CASE Set(h, [task[h] EXCEPT !.pc = "file",
                                  !.files = @ \ {task[h].file},
                                  !.file = None, !.reg = {}])
  BY <1>1 DEF Set, TaskStates
<1>2. CASE Set(h, [task[h] EXCEPT !.pc = "undo", !.cids = task[h].reg])
  BY <1>2 DEF Set, TaskStates
<1> QED
  BY <1>1, <1>2 DEF PullPlace

(* Every step of a pull from a peer keeps IndInv.                          *)
LEMMA PullInv ==
  ASSUME IndInv, NEW h \in Handlers, PullStep(h)
  PROVE  IndInv'
<1> h \in Tasks
  BY DEF Tasks
<1> task \in [Tasks -> TaskStates] /\ task[h] \in TaskStates /\ TaskOK(task[h])
  BY DEF IndInv, TypeInv, TypeOK, TasksOK
<1>1. TypeInv'
  BY PullType DEF IndInv
<1>2. Only(h)
  BY DEF Only, PullStep, PullRoot, PullEmpty, PullLeaves, PullPlace, PullFail,
         PullUndone, PullMap, PullFile, PullChunk, PullUndo, PullInner, GiveUp,
         FindNode, ReadThrough, Set
<1>3. task[h].op = "pull" /\ task[h].pc \in PullPCs
  BY DEF PullStep, PullRoot, PullEmpty, PullLeaves, PullPlace, PullFail,
         PullUndone, PullMap, PullFile, PullChunk, PullUndo, PullInner, At,
         TaskOK, PullPCs
<1>4. /\ task'[h].op \in {task[h].op, "none"}
      /\ ~PullMap(h) => task'[h].pc \in PullPCs \cup {"idle"}
  <2> TypeInv
    BY DEF IndInv
  <2>1. CASE PullRoot(h) \/ PullEmpty(h) \/ PullMap(h)
    <3>1. CASE PullRoot(h)
      BY <3>1, PullRootEffect DEF PullRoot, At, TaskOK, PullPCs
    <3>2. CASE PullEmpty(h)
      BY <3>2 DEF PullEmpty, Set, TaskStates, PullPCs
    <3>3. CASE PullMap(h)
      <4>1. task'[h].op = task[h].op
        BY <3>3 DEF PullMap, Set, TaskStates
      <4> QED
        BY <3>3, <4>1
    <3> QED
      BY <2>1, <3>1, <3>2, <3>3
  <2>2. CASE PullPlace(h)
    BY <2>2, PullPlaceEffect DEF PullPCs
  <2>3. CASE GiveUp(h)
    BY <1>3, <2>3, GiveUpEffect DEF PullPCs
  <2>4. CASE Set(h, [task[h] EXCEPT !.pc = "undo", !.cids = task[h].reg])
    BY <2>4 DEF Set, TaskStates, PullPCs
  <2>5. ASSUME NEW f \in Files, PullFile(h, f)
        PROVE  task'[h].op = task[h].op /\ task'[h].pc \in PullPCs
    BY <2>5, PullFileEffect DEF PullPCs
  <2>6. ASSUME NEW x \in Raw, PullChunk(h, x) \/ PullUndo(h, x)
        PROVE  task'[h].op = task[h].op /\ task'[h].pc \in PullPCs
    <3>1. CASE PullChunk(h, x)
      BY <1>3, <3>1 DEF PullChunk, Set, TaskStates
    <3>2. CASE PullUndo(h, x)
      BY <1>3, <3>2 DEF PullUndo, Set, TaskStates
    <3> QED
      BY <2>6, <3>1, <3>2
  <2>7. ASSUME PullLeaves(h) \/ \E x \in Pb : PullInner(h, x)
        PROVE  task'[h].op = task[h].op /\ task'[h].pc \in PullPCs
    <3>1. CASE PullLeaves(h)
      BY <3>1 DEF PullLeaves, Set, TaskStates, PullPCs
    <3>2. ASSUME NEW x \in Pb, PullInner(h, x)
          PROVE  task'[h].op = task[h].op /\ task'[h].pc \in PullPCs
      BY <1>3, <3>2, PullInnerEffect
    <3> QED
      BY <2>7, <3>1, <3>2
  <2> QED
    BY <2>1, <2>2, <2>3, <2>4, <2>5, <2>6, <2>7
       DEF PullStep, PullFail, PullUndone
<1>5. Exclusion'
  BY <1>2, <1>4, ExclusionStep
<1>6. CASE PullMap(h)
  <2>1. /\ Tree(task[h].man) \subseteq blocks \/ task[h].commit \in holed'
        /\ holed \subseteq holed' \cup {task[h].commit}
    <3>1. Tree(task[h].man) \subseteq blocks \cup task[h].lost
      BY <1>6 DEF IndInv, PullMap, At, Built, Tree
    <3> QED
      BY <1>6, <3>1 DEF PullMap
  <2>2. task'[h].pc = "link"
    BY <1>6 DEF PullMap, Set, TaskStates
  <2> QED
    BY <1>1, <1>2, <1>3, <1>5, <1>6, <2>1, <2>2, MapStep
       DEF PullMap, At, TaskOK
<1>7. CASE ~PullMap(h)
  <2>1. entry' = entry /\ torn' = torn /\ holed' = holed
    BY <1>7 DEF PullStep, PullRoot, PullEmpty, PullLeaves, PullPlace, PullFail,
                PullUndone, PullFile, PullChunk, PullUndo, PullInner, store, hub
  <2>2. blocks \cap Pb \subseteq blocks'
    BY <1>7, DagAssumption
       DEF PullStep, PullRoot, PullEmpty, PullLeaves, PullPlace, PullFail,
           PullUndone, PullFile, PullChunk, PullUndo, PullInner, PutLeaf,
           FindNode, ReadThrough, DeleteBlock, store, hub
  <2>3. \A c \in Commits : BeingEvicted(c) => BeingEvicted(c)'
    BY <1>2, <1>3, <2>1, NotEvicting DEF PullPCs
  <2>5. Spared(task[h])'
    BY <1>4, <1>7 DEF Spared, PullPCs
  <2>6. Built(task[h])'
    <3>1. CASE PullRoot(h)
      <4>1. task[h].commit \in Commits /\ TypeInv
        BY <3>1 DEF PullRoot, At, TaskOK, IndInv
      <4> QED
        BY <3>1, <4>1, PullRootEffect DEF Built
    <3>2. CASE PullEmpty(h)
      BY <3>2 DEF PullEmpty, At, Set, IndInv, Built, TaskStates
    <3>3. CASE PullPlace(h)
      <4>1. Built(task[h]) /\ task[h].pc = "chunk" /\ blocks' = blocks
        BY <3>3 DEF PullPlace, At, IndInv, store
      <4> QED
        BY <3>3, <4>1, PullPlaceEffect DEF IndInv, Built
    <3>4. CASE PullFail(h) \/ PullUndone(h)
      <4>1. CASE GiveUp(h)
        BY <4>1, GiveUpEffect DEF IndInv, Built
      <4>2. CASE /\ PullFail(h) /\ At(h, "chunk")
                 /\ Set(h, [task[h] EXCEPT !.pc = "undo", !.cids = task[h].reg])
        BY <4>2 DEF PullFail, At, Set, IndInv, Built, TaskStates, store
      <4> QED
        BY <3>4, <4>1, <4>2 DEF PullFail, PullUndone
    <3>5. ASSUME NEW f \in Files, PullFile(h, f)
          PROVE  Built(task[h])'
      <4>1. /\ DirCid[task[h].man] \in blocks \cup task[h].lost
            /\ \A g \in task[h].man \ task[h].files :
                  NodeOf(g) \subseteq blocks \cup task[h].lost
        BY <3>5 DEF PullFile, At, IndInv, Built
      <4>2. TypeInv
        BY DEF IndInv
      <4>3. blocks \cup task[h].lost \subseteq blocks' \cup task'[h].lost
        BY <3>5, <4>2, PullFileEffect
      <4> QED
        BY <3>5, <4>1, <4>2, <4>3, PullFileEffect DEF Built
    <3>6. ASSUME NEW x \in Raw, PullChunk(h, x)
          PROVE  Built(task[h])'
      <4>1. blocks \subseteq blocks'
        BY <3>6 DEF PullChunk, PutLeaf
      <4> QED
        BY <3>6, <4>1 DEF PullChunk, At, Set, IndInv, Built, TaskStates
    <3>7. ASSUME NEW x \in Raw, PullUndo(h, x)
          PROVE  Built(task[h])'
      <4>1. /\ DirCid[task[h].man] \in Pb
            /\ \A f : NodeOf(f) \subseteq Pb
        BY DagAssumption DEF TaskStates, NodeOf
      <4>2. Built(task[h]) /\ task[h].pc = "undo"
        BY <3>7 DEF IndInv, PullUndo, At
      <4>3. /\ task'[h].pc = "undo" /\ task'[h].man = task[h].man
            /\ task'[h].file = task[h].file /\ task'[h].files = task[h].files
            /\ task'[h].lost = task[h].lost
        BY <3>7 DEF PullUndo, At, Set, TaskStates
      <4> QED
        BY <2>2, <4>1, <4>2, <4>3 DEF Built
    <3>8. ASSUME PullLeaves(h) \/ \E x \in Pb : PullInner(h, x)
          PROVE  Built(task[h])'
      <4>1. Built(task[h]) /\ task[h].pc = "leaves" /\ TypeInv
        BY <3>8 DEF PullLeaves, PullInner, At, IndInv
      <4>2. /\ task'[h].pc \in {"leaves", "chunk"} /\ task'[h].man = task[h].man
            /\ task'[h].file = task[h].file /\ task'[h].files = task[h].files
            /\ blocks \cup task[h].lost \subseteq blocks' \cup task'[h].lost
        <5>1. CASE PullLeaves(h)
          BY <5>1 DEF PullLeaves, Set, TaskStates, store
        <5>2. CASE \E x \in Pb : PullInner(h, x)
          BY <4>1, <5>2, PullInnerEffect
        <5> QED
          BY <3>8, <5>1, <5>2
      <4> QED
        BY <4>1, <4>2 DEF Built
    <3> QED
      BY <1>7, <3>1, <3>2, <3>3, <3>4, <3>5, <3>6, <3>7, <3>8 DEF PullStep
  <2> QED
    BY <1>1, <1>2, <1>5, <2>1, <2>2, <2>3, <2>5, <2>6, GrowStep
<1> QED
  BY <1>6, <1>7

(* So does every step of a pull from the Hub.                              *)
LEMMA HfInv ==
  ASSUME IndInv, NEW h \in Handlers, HfStep(h)
  PROVE  IndInv'
<1> h \in Tasks
  BY DEF Tasks
<1> task \in [Tasks -> TaskStates] /\ task[h] \in TaskStates /\ TaskOK(task[h])
  BY DEF IndInv, TypeInv, TypeOK, TasksOK
<1>1. TypeInv'
  BY HfType DEF IndInv
<1>2. Only(h)
  BY DEF Only, HfStep, HfManifest, HfFetched, HfFail, WriteRef, HfFetch,
         WriteLink, Set
<1>3. /\ task[h].pc \notin {"delete", "blobs"}
      /\ entry' = entry /\ blocks' = blocks /\ torn' = torn /\ holed' = holed
  BY DEF HfStep, HfManifest, HfFetched, HfFail, WriteRef, HfFetch, WriteLink,
         At, store
<1>4. /\ task'[h].op \in {task[h].op, "none"}
      /\ task'[h].pc \in {"hf", "download", "link", "hflink", "read", "idle"}
  <2>1. CASE HfManifest(h) \/ HfFetched(h)
    <3>1. CASE HfManifest(h)
      BY <3>1 DEF HfManifest, Set, TaskStates
    <3>2. CASE HfFetched(h)
      BY <3>2 DEF HfFetched, Set, TaskStates
    <3> QED
      BY <2>1, <3>1, <3>2
  <2>2. CASE Set(h, Blank)
    BY <2>2 DEF Set, Blank
  <2>3. CASE Set(h, [task[h] EXCEPT !.pc = "read", !.man = {}])
    BY <2>3 DEF Set, TaskStates
  <2>5. CASE Set(h, Fallback(h)) /\ task[h].op = "pull"
    BY <2>5 DEF Set, Fallback, Blank
  <2>4. ASSUME NEW f \in Files, HfFetch(h, f) \/ WriteLink(h, f),
               ~Set(h, Blank), ~(Set(h, Fallback(h)) /\ task[h].op = "pull")
        PROVE  /\ task'[h].op = task[h].op
               /\ task'[h].pc \in {"download", "link", "hflink"}
    <3>1. Set(h, [task[h] EXCEPT !.files = @ \ {f}])
      BY <2>4 DEF HfFetch, WriteLink
    <3>2. task[h].pc \in {"download", "link", "hflink"}
      BY <2>4 DEF HfFetch, WriteLink, At
    <3> QED
      BY <3>1, <3>2 DEF Set, TaskStates
  <2> QED
    BY <2>1, <2>2, <2>3, <2>4, <2>5 DEF HfStep, HfFail, WriteRef
<1>5. Built(task[h])' /\ Spared(task[h])'
  BY <1>4 DEF Built, Spared
<1> QED
  BY <1>1, <1>2, <1>3, <1>4, <1>5, NotEvicting, ExclusionStep, GrowStep

(* So does every step of an ingest.                                        *)
LEMMA IngestInv ==
  ASSUME IndInv, NEW t \in Tasks, IngestStep(t)
  PROVE  IndInv'
<1> task \in [Tasks -> TaskStates] /\ task[t] \in TaskStates /\ TaskOK(task[t])
  BY DEF IndInv, TypeInv, TypeOK, TasksOK
<1>1. TypeInv'
  BY IngestType DEF IndInv
<1>2. Only(t)
  BY DEF Only, IngestStep, IngestRead, IngestNode, IngestDir, IngestMap,
         IngestOpen, IngestLeaf, IngestInner, Set
<1>3. task[t].op \in {"pull", "ingest"} /\ task[t].pc \in IngestPCs
  BY DEF IngestStep, IngestRead, IngestNode, IngestDir, IngestMap,
         IngestOpen, IngestLeaf, IngestInner, At, TaskOK, IngestPCs
<1>4. Built(task[t])
  BY DEF IndInv
<1>5. CASE IngestMap(t)
  <2>1. Tree(task[t].man) \subseteq blocks
    BY <1>4, <1>5 DEF IngestMap, At, Built, Tree
  <2>2. task'[t].pc = "idle" /\ task'[t].op = "none"
    BY <1>5 DEF IngestMap, Set, Blank
  <2>3. Exclusion'
    BY <1>2, <2>2, ExclusionStep
  <2> QED
    BY <1>1, <1>2, <1>3, <1>5, <2>1, <2>2, <2>3, MapStep
       DEF IngestMap, At, TaskOK
<1>6. CASE ~IngestMap(t)
  <2>1. entry' = entry /\ torn' = torn /\ holed' = holed /\ blocks \subseteq blocks'
    BY <1>6 DEF IngestStep, IngestRead, IngestNode, IngestDir, IngestOpen,
                IngestLeaf, IngestInner, PutLeaf, store
  <2>2. /\ task'[t].op \in {task[t].op, "none"}
        /\ task'[t].pc \in {"idle", "add", "leaf", "imap"}
        /\ Built(task[t])'
    <3>1. CASE Set(t, Blank)
      BY <3>1 DEF Set, Blank, Built
    <3>2. CASE IngestRead(t) /\ ~Set(t, Blank)
      <4>1. Set(t, [task[t] EXCEPT !.pc = "add",
                                   !.man = links[task[t].commit],
                                   !.files = links[task[t].commit]])
        BY <3>2 DEF IngestRead
      <4> QED
        BY <4>1 DEF Set, TaskStates, Built
    <3>3. CASE IngestNode(t)
      BY <1>4, <3>3 DEF IngestNode, At, Set, TaskStates, Built
    <3>4. CASE IngestDir(t)
      BY <1>4, <3>4 DEF IngestDir, At, Set, TaskStates, Built
    <3>5. ASSUME NEW f \in Files, IngestOpen(t, f), ~Set(t, Blank)
          PROVE  /\ task'[t].op = task[t].op /\ task'[t].pc = "leaf"
                 /\ Built(task[t])'
      <4>1. /\ Set(t, [task[t] EXCEPT !.pc = "leaf", !.file = f,
                                      !.cids = FileDag[f] \ NodeOf(f)])
            /\ task[t].pc = "add"
        BY <3>5 DEF IngestOpen, At
      <4> QED
        BY <1>4, <2>1, <4>1 DEF Set, TaskStates, Built
    <3>6. ASSUME NEW x \in Raw, IngestLeaf(t, x)
          PROVE  /\ task'[t].op = task[t].op /\ task'[t].pc = "leaf"
                 /\ Built(task[t])'
      BY <1>4, <2>1, <3>6 DEF IngestLeaf, At, Set, TaskStates, Built
    <3>7. ASSUME NEW x \in Pb, IngestInner(t, x)
          PROVE  /\ task'[t].op = task[t].op /\ task'[t].pc = "leaf"
                 /\ Built(task[t])'
      BY <1>4, <2>1, <3>7 DEF IngestInner, At, Set, TaskStates, Built
    <3> QED
      BY <1>6, <3>1, <3>2, <3>3, <3>4, <3>5, <3>6, <3>7 DEF IngestStep
  <2>3. Spared(task[t])'
    BY <2>2 DEF Spared
  <2>4. Exclusion'
    BY <1>2, <2>2, ExclusionStep
  <2>5. \A c \in Commits : BeingEvicted(c) => BeingEvicted(c)'
    BY <1>2, <1>3, <2>1, NotEvicting DEF IngestPCs
  <2> QED
    BY <1>1, <1>2, <2>1, <2>2, <2>3, <2>4, <2>5, GrowStep
<1> QED
  BY <1>5, <1>6

(* The bookkeeping steps of an eviction: they change no bucket but, in     *)
(* EvictUnmap, the mapping.                                                *)
LEMMA EvictInv ==
  ASSUME IndInv, NEW t \in Tasks, EvictStep(t)
  PROVE  IndInv'
<1> task \in [Tasks -> TaskStates] /\ task[t] \in TaskStates /\ TaskOK(task[t])
  BY DEF IndInv, TypeInv, TypeOK, TasksOK
<1> TypeInv /\ TypeInv'
  BY EvictType DEF IndInv
<1>1. Only(t)
  BY DEF Only, EvictStep, EvictDone, EvictList, EvictTarget, EvictScan,
         EvictUnmap, EvictFail, EvictUnlink, EvictUnref, EvictRemoveRef,
         EvictNext, EvictKeep,
         EvictDelete, EvictBlob, Set
<1>2. task[t].op = "evict" /\ task[t].pc \in EvictPCs
  BY DEF EvictStep, EvictDone, EvictList, EvictTarget, EvictScan,
         EvictUnmap, EvictFail, EvictUnlink, EvictUnref, EvictRemoveRef,
         EvictNext, EvictKeep,
         EvictDelete, EvictBlob, At, TaskOK, EvictPCs
<1>3. Spared(task[t])
  BY DEF IndInv
(* A step outside the deleting part, or one that enters it.                *)
<1>4. ASSUME entry' = entry, blocks' = blocks, torn' = torn, holed' = holed,
             task'[t].op \in {task[t].op, "none"},
             task'[t].pc \in EvictPCs \cup {"idle"},
             \/ task[t].pc \notin {"delete", "blobs"}
             \/ task'[t].pc \in {"delete", "blobs"} /\ task'[t].commit = task[t].commit,
             Spared(task[t])'
      PROVE  IndInv'
  <2>1. Exclusion'
    BY <1>1, <1>4, ExclusionStep
  <2>2. \A c \in Commits : BeingEvicted(c) => BeingEvicted(c)'
    BY <1>1, <1>4 DEF Only, BeingEvicted, At
  <2>3. Built(task[t])'
    BY <1>4 DEF Built, EvictPCs
  <2> QED
    BY <1>1, <1>4, <2>1, <2>2, <2>3, GrowStep
<1>5. CASE EvictDone(t)
  <2>1. task'[t].op = "none" /\ task'[t].pc = "idle"
    BY <1>5 DEF EvictDone, Set, Blank
  <2> QED
    BY <1>4, <1>5, <2>1 DEF EvictDone, At, store, Spared
<1>6. CASE EvictList(t)
  <2>1. /\ task'[t].op = task[t].op /\ task'[t].pc = "keep"
        /\ task'[t].commit = task[t].commit
        /\ task'[t].others = [entry EXCEPT ![task[t].commit] = {}]
    BY <1>6 DEF EvictList, Set, TaskStates
  <2>2. entry' = entry /\ entry \in Manifests
    BY <1>6 DEF EvictList, store, TypeInv, TypeOK
  <2>3. Spared(task[t])'
    BY <2>1, <2>2 DEF Spared, Manifests
  <2> QED
    BY <1>4, <1>6, <2>1, <2>3 DEF EvictList, At, store, EvictPCs
<1>7. CASE EvictTarget(t)
  <2>1. /\ task'[t].op = task[t].op /\ task'[t].pc = "delete"
        /\ task'[t].commit = task[t].commit
        /\ task'[t].cids \cap task[t].keep = {}
    BY <1>7 DEF EvictTarget, Set, TaskStates
  <2>2. /\ entry' = entry /\ torn' = torn /\ holed' = holed /\ task[t].pc = "keep"
        /\ \A o \in Commits : task[t].others[o] = {}
    BY <1>7 DEF EvictTarget, At, store, NoEntries
  <2>3. \A c \in Commits : BeingEvicted(c) => BeingEvicted(c)'
    BY <1>1, <2>2, NotEvicting
  <2>4. Spared(task[t])'
    BY <1>3, <2>1, <2>2, <2>3 DEF Spared
  <2> QED
    BY <1>4, <1>7, <2>1, <2>4 DEF EvictTarget, At, store, EvictPCs
<1>8. CASE EvictScan(t)
  <2>1. /\ task'[t].op = task[t].op /\ task'[t].pc = "blobs"
        /\ task'[t].commit = task[t].commit
    BY <1>8 DEF EvictScan, Set, TaskStates
  <2> QED
    BY <1>4, <1>8, <2>1 DEF EvictScan, store, EvictPCs, Spared
<1>9. CASE EvictUnlink(t)
  <2>1. task'[t].op = task[t].op /\ task'[t].pc = "unref"
    BY <1>9 DEF EvictUnlink, Set, TaskStates
  <2> QED
    BY <1>4, <1>9, <2>1 DEF EvictUnlink, At, store, EvictPCs, Spared
<1>10. CASE EvictUnref(t)
  <2>1. task'[t].op = "evict" /\ task'[t].pc \in {"rmref", "next"}
    <3>1. CASE Set(t, [task[t] EXCEPT !.pc = "rmref"])
      BY <1>2, <3>1 DEF Set, TaskStates
    <3> QED
      BY <1>10, <3>1 DEF EvictUnref, Set, Blank
  <2> QED
    BY <1>2, <1>4, <1>10, <2>1 DEF EvictUnref, At, store, EvictPCs, Spared
<1>17. CASE EvictRemoveRef(t)
  <2>1. task'[t].op = "evict" /\ task'[t].pc = "next"
    BY <1>17 DEF EvictRemoveRef, Set, Blank
  <2> QED
    BY <1>2, <1>4, <1>17, <2>1 DEF EvictRemoveRef, At, store, EvictPCs, Spared
<1>11. ASSUME NEW d \in Commits, EvictNext(t, d)
       PROVE  IndInv'
  <2>1. task'[t].op = "evict" /\ task'[t].pc \in {"next", "others"}
    <3> DEFINE r == [Blank EXCEPT !.op = "evict", !.pc = "next",
                       !.listed = [task[t].listed EXCEPT ![d] = {}]]
               q == [r EXCEPT !.pc = "others", !.commit = d,
                              !.man = task[t].listed[d]]
    <3>1. task'[t] = r \/ task'[t] = q
      BY <1>11 DEF EvictNext, Set
    <3>2. r.op = "evict" /\ r.pc = "next"
      BY DEF Blank
    <3>3. q.op = "evict" /\ q.pc = "others"
      BY DEF Blank
    <3> QED
      BY <3>1, <3>2, <3>3
  <2> QED
    BY <1>2, <1>4, <1>11, <2>1 DEF EvictNext, At, store, EvictPCs, Spared
<1>12. ASSUME NEW d \in Commits, EvictKeep(t, d)
       PROVE  IndInv'
  <2> DEFINE S == task[t].others[d]
  <2>1. /\ task'[t].op = task[t].op /\ task'[t].pc = "keep"
        /\ task'[t].commit = task[t].commit
        /\ task'[t].others = [task[t].others EXCEPT ![d] = {}]
        /\ task'[t].keep = task[t].keep \cup Walk(S, blocks)
    BY <1>12 DEF EvictKeep, At, Set, TaskStates
  <2>2. /\ entry' = entry /\ blocks' = blocks /\ torn' = torn /\ holed' = holed
        /\ task[t].pc = "keep" /\ task[t].others \in Manifests
        /\ entry \in Manifests
    BY <1>12 DEF EvictKeep, At, store, TaskStates, TypeInv, TypeOK
  <2>3. \A c \in Commits : BeingEvicted(c) => BeingEvicted(c)'
    BY <1>1, <2>2, NotEvicting
  <2>4. ASSUME NEW o \in Commits, entry[o] # {}, ~BeingEvicted(o),
               o \notin holed, o # task[t].commit
        PROVE  \/ task'[t].others[o] = entry[o]
               \/ Tree(entry[o]) \subseteq task'[t].keep
    <3>1. CASE o = d /\ S = entry[o]
      <4>1. Tree(entry[o]) \subseteq blocks
        BY <2>4 DEF IndInv, TreeHeld
      <4>2. Tree(S) \subseteq Walk(S, blocks)
        BY <2>2, <3>1, <4>1, WalkTree DEF Manifests
      <4> QED
        BY <2>1, <3>1, <4>2
    <3>2. CASE ~(o = d /\ S = entry[o])
      BY <1>3, <2>1, <2>2, <2>4, <3>2 DEF Spared, Manifests
    <3> QED
      BY <3>1, <3>2
  <2>5. Spared(task[t])'
    BY <2>1, <2>2, <2>3, <2>4 DEF Spared
  <2> QED
    BY <1>4, <2>1, <2>2, <2>5 DEF EvictPCs
<1>13. ASSUME NEW f \in Files, EvictBlob(t, f)
       PROVE  IndInv'
  <2>1. /\ task'[t].op = task[t].op /\ task'[t].pc = "blobs"
        /\ task'[t].commit = task[t].commit
    BY <1>13 DEF EvictBlob, At, Set, TaskStates
  <2> QED
    BY <1>4, <1>13, <2>1 DEF EvictBlob, store, EvictPCs, Spared
<1>14. CASE EvictUnmap(t)
  <2> DEFINE c == task[t].commit
  <2>1. /\ task'[t].op = task[t].op /\ task'[t].pc = "unlink"
        /\ task'[t].commit = c /\ c \in Commits
    BY <1>14 DEF EvictUnmap, At, Set, TaskStates, TaskOK
  <2>2. /\ entry' = [entry EXCEPT ![c] = {}] /\ entry \in Manifests
        /\ blocks' = blocks /\ torn' = torn \ {c} /\ holed' = holed \ {c}
    BY <1>14 DEF EvictUnmap, TypeInv, TypeOK
  <2>3. \A o \in Commits : o # c /\ BeingEvicted(o) => BeingEvicted(o)'
    BY <1>1, <2>1, <2>2 DEF Only, BeingEvicted, At
  <2>4. Exclusion'
    BY <1>1, <2>1, ExclusionStep
  <2>5. \A o \in Commits : entry'[o] # {} => o # c /\ entry'[o] = entry[o]
    BY <2>2 DEF Manifests
  <2>6. ASSUME NEW u \in Tasks
        PROVE  Built(task[u])' /\ Spared(task[u])'
    <3>1. CASE u = t
      BY <2>1, <3>1 DEF Built, Spared
    <3>2. CASE u # t
      <4>1. task'[u] = task[u] /\ Built(task[u]) /\ Spared(task[u])
        BY <1>1, <3>2 DEF Only, IndInv
      <4>2. Built(task[u])'
        BY <2>2, <4>1 DEF Built
      <4>3. Spared(task[u])'
        BY <2>2, <2>3, <2>5, <4>1 DEF Spared
      <4> QED
        BY <4>2, <4>3
    <3> QED
      BY <3>1, <3>2
  <2>7. TreeHeld'
    BY <2>2, <2>3, <2>5 DEF IndInv, TreeHeld
  <2> QED
    BY <2>4, <2>6, <2>7 DEF IndInv
(* The one step that drops dag-pb blocks: what it drops is no tree node of *)
(* another mapped revision, and nobody is building on it.                  *)
<1>15. ASSUME NEW x \in Cids, EvictDelete(t, x)
       PROVE  IndInv'
  <2>1. /\ task'[t].op = task[t].op /\ task'[t].pc = "delete"
        /\ task'[t].commit = task[t].commit
        /\ task'[t].cids = task[t].cids \ {x}
        /\ task[t].pc = "delete" /\ x \in task[t].cids
    BY <1>15 DEF EvictDelete, At, Set, TaskStates
  <2>2. /\ entry' = entry /\ torn' = torn /\ holed' = holed
        /\ blocks \ {x} \subseteq blocks'
    BY <1>15 DEF EvictDelete, store
  <2>3. \A o \in Commits : BeingEvicted(o) <=> BeingEvicted(o)'
    BY <1>1, <2>1, <2>2 DEF Only, BeingEvicted, At
  <2>4. \A o \in Commits : ~BeingEvicted(o) => o # task[t].commit
    BY <2>1 DEF BeingEvicted, At
  <2>5. Exclusion'
    BY <1>1, <2>1, ExclusionStep
  <2>6. ASSUME NEW u \in Tasks
        PROVE  Built(task[u])'
    <3>1. task[u].op \notin {"pull", "ingest"} /\ TaskOK(task[u])
      BY <1>2 DEF IndInv, Exclusion, TypeInv, TasksOK
    <3>2. task[u].pc \notin PullPCs \cup IngestPCs
      BY <3>1 DEF TaskOK
    <3>3. task'[u].pc = task[u].pc
      BY <1>1, <2>1 DEF Only
    <3> QED
      BY <3>2, <3>3 DEF Built, PullPCs, IngestPCs
  <2>7. ASSUME NEW u \in Tasks
        PROVE  Spared(task[u])'
    <3>1. CASE u = t
      BY <1>3, <2>1, <2>2, <2>3, <3>1 DEF Spared
    <3>2. CASE u # t
      <4>1. task'[u] = task[u] /\ Spared(task[u])
        BY <1>1, <3>2 DEF Only, IndInv
      <4> QED
        BY <2>2, <2>3, <4>1 DEF Spared
    <3> QED
      BY <3>1, <3>2
  <2>8. TreeHeld'
    <3>1. ASSUME NEW o \in Commits, entry[o] # {}, ~BeingEvicted(o),
                 o \notin holed
          PROVE  Tree(entry[o]) \subseteq blocks'
      <4>1. Tree(entry[o]) \subseteq blocks
        BY <3>1 DEF IndInv, TreeHeld
      <4>2. x \notin Tree(entry[o])
        BY <1>3, <2>1, <2>4, <3>1 DEF Spared
      <4> QED
        BY <2>2, <4>1, <4>2
    <3> QED
      BY <2>2, <2>3, <3>1 DEF TreeHeld
  <2> QED
    BY <2>5, <2>6, <2>7, <2>8 DEF IndInv
<1>16. CASE EvictFail(t)
  <2>1. task'[t].op \in {"evict", "none"} /\ task'[t].pc \in {"next", "idle"}
    BY <1>16 DEF EvictFail, Set, Blank
  <2>2. /\ entry' = entry /\ blocks' = blocks /\ holed' = holed
        /\ torn' = torn \cup {task[t].commit}
    BY <1>16 DEF EvictFail, store
  <2>3. \A c \in Commits : BeingEvicted(c) => BeingEvicted(c)'
    BY <1>1, <2>2 DEF Only, BeingEvicted, At
  <2>4. Exclusion'
    BY <1>1, <1>2, <2>1, ExclusionStep
  <2>5. Built(task[t])' /\ Spared(task[t])'
    BY <2>1 DEF Built, Spared
  <2> QED
    BY <1>1, <2>2, <2>3, <2>4, <2>5, GrowStep
<1> QED
  BY <1>5, <1>6, <1>7, <1>8, <1>9, <1>10, <1>11, <1>12, <1>13, <1>14, <1>15,
     <1>16, <1>17
     DEF EvictStep

(* So does every request that is admitted, unless it breaks the exclusion.  *)
LEMMA RequestInv ==
  ASSUME IndInv, TypeInv', Exclusion', NEW t \in Tasks, At(t, "idle"), Only(t),
         task'[t].pc \in {"peer", "hf", "link", "read", "next"},
         UNCHANGED <<store, hub, torn, holed>>
  PROVE  IndInv'
<1>1. task[t].pc \notin {"delete", "blobs"}
  BY DEF At
<1>2. Built(task[t])' /\ Spared(task[t])'
  BY DEF Built, Spared
<1> QED
  BY <1>1, <1>2, NotEvicting, GrowStep DEF store

(* IndInv is inductive for as long as the exclusion lasts.                 *)
LEMMA IndStep ==
  ASSUME IndInv, [Next]_vars, Exclusion'
  PROVE  IndInv'
<1> TypeInv /\ TypeInv'
  BY TypeStep DEF IndInv
<1> task \in [Tasks -> TaskStates]
  BY DEF TypeInv, TypeOK
<1>1. ASSUME NEW t \in Tasks, NEW c \in Commits,
             PullBegin(t, c) \/ PullRelink(t, c) \/ IngestBegin(t, c)
      PROVE  IndInv'
  <2>1. CASE PullBegin(t, c)
    <3>1. Only(t) /\ task'[t].pc \in {"peer", "hf"}
      BY <2>1 DEF PullBegin, Set, Only, Blank
    <3> QED
      BY <2>1, <3>1, RequestInv DEF PullBegin, Admitted
  <2>2. CASE PullRelink(t, c)
    <3>1. Only(t) /\ task'[t].pc = "link"
      BY <2>2 DEF PullRelink, Set, Only, Blank
    <3> QED
      BY <2>2, <3>1, RequestInv DEF PullRelink, Admitted
  <2>3. CASE IngestBegin(t, c)
    <3>1. Only(t) /\ task'[t].pc = "read"
      BY <2>3 DEF IngestBegin, Set, Only, Blank
    <3> QED
      BY <2>3, <3>1, RequestInv DEF IngestBegin, Admitted
  <2> QED
    BY <1>1, <2>1, <2>2, <2>3
<1>2. ASSUME NEW t \in Tasks, NEW C \in SUBSET Commits, EvictBegin(t, C)
      PROVE  IndInv'
  <2>1. Only(t) /\ task'[t].pc = "next"
    BY <1>2 DEF EvictBegin, Set, Only, Blank
  <2> QED
    BY <1>2, <2>1, RequestInv DEF EvictBegin, Admitted
<1>3. CASE PruneBegin
  <2>1. Watcher \in Tasks
    BY DEF Tasks
  <2>2. Only(Watcher) /\ task'[Watcher].pc = "next"
    BY <1>3, <2>1 DEF PruneBegin, Set, Only, Blank
  <2> QED
    BY <1>3, <2>1, <2>2, RequestInv DEF PruneBegin, Admitted
<1>4. ASSUME NEW h \in Handlers, Request(h) \/ PullStep(h) \/ HfStep(h)
      PROVE  IndInv'
  <2>1. h \in Tasks
    BY DEF Tasks
  <2>2. CASE Request(h)
    BY <1>1, <1>2, <2>1, <2>2 DEF Request
  <2> QED
    BY <1>4, <2>2, PullInv, HfInv
<1>5. ASSUME NEW t \in Tasks, IngestStep(t) \/ EvictStep(t)
      PROVE  IndInv'
  BY <1>5, IngestInv, EvictInv
<1>6. ASSUME NEW c \in Commits, TryIngest(c)
      PROVE  IndInv'
  <2>1. Watcher \in Tasks
    BY DEF Tasks
  <2>2. Only(Watcher) /\ task'[Watcher].pc = "read"
    BY <1>6, <2>1 DEF TryIngest, Set, Only, Blank
  <2> QED
    BY <1>6, <2>1, <2>2, RequestInv DEF TryIngest, Admitted
<1>7. ASSUME UNCHANGED <<entry, blocks, task, torn, holed>>
      PROVE  IndInv'
  BY <1>7 DEF IndInv, Exclusion, Built, Spared, TreeHeld, BeingEvicted, At
<1>8. CASE Crash
  <2>1. \A t \in Tasks : task'[t].op = "none" /\ task'[t].pc = "idle"
    BY <1>8 DEF Crash, Blank
  <2>2. entry' = entry /\ blocks' = blocks /\ holed' = holed
    BY <1>8 DEF Crash, store
  <2>3. \A c \in Commits : BeingEvicted(c) => BeingEvicted(c)'
    BY <1>8 DEF Crash, BeingEvicted
  <2>4. \A t \in Tasks : Built(task[t])' /\ Spared(task[t])'
    BY <2>1 DEF Built, Spared
  <2>5. Exclusion'
    BY <2>1 DEF Exclusion
  <2>6. TreeHeld'
    BY <2>2, <2>3 DEF IndInv, TreeHeld
  <2> QED
    BY <2>4, <2>5, <2>6 DEF IndInv
<1> QED
  BY <1>3, <1>4, <1>5, <1>6, <1>7, <1>8
     DEF Next, HfDownload, DeleteRepo, store, vars

(* Nothing is mapped and nobody is at work at first.                       *)
LEMMA IndInit == Init => IndInv
<1> SUFFICES ASSUME Init PROVE IndInv
  OBVIOUS
<1>1. TypeInv
  BY TypeInit
<1>2. \A t \in Tasks : task[t].op = "none" /\ task[t].pc = "idle"
  BY DEF Init, Blank
<1>3. \A c \in Commits : entry[c] = {}
  BY DEF Init, NoEntries
<1> QED
  BY <1>1, <1>2, <1>3 DEF IndInv, Exclusion, Built, Spared, TreeHeld

(* In every behaviour of the program in which evictions do not overlap     *)
(* pulls and ingests, the directory node and the file roots of every       *)
(* mapped revision stay in the blocks bucket until that revision's own     *)
(* eviction, whatever pulls fail and roll back, however many evictions and *)
(* relinks overlap, whatever the user deletes and wherever the node        *)
(* crashes.  The exception is a revision whose last pull could not store   *)
(* one of these nodes and mapped it all the same.                          *)
THEOREM TreeSafe == Spec /\ []Exclusion => []TreeHeld
<1>1. IndInv /\ [Next]_vars /\ Exclusion' => IndInv'
  BY IndStep
<1>2. IndInv => TreeHeld
  BY DEF IndInv
<1> QED
  BY IndInit, <1>1, <1>2, PTL DEF Spec

=============================================================================
