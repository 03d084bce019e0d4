----------------------------- MODULE RevisionDag ----------------------------
(***************************************************************************)
(* The DAG of one revision: how ingest builds it from a snapshot's files   *)
(* and how a puller takes it apart again.                                  *)
(*                                                                         *)
(* A path is a sequence of names, a file's content a sequence of chunks.   *)
(* A node is given by value, since its CID is the hash of that value: a    *)
(* raw leaf, a file node over an ordered list of links, a directory over   *)
(* named children.                                                         *)
(***************************************************************************)
EXTENDS Naturals, FiniteSets, Sequences, SequencesExt

CONSTANTS
    Names,          \* file and directory names
    MaxDepth,       \* bound on the length of a path
    MaxFiles,       \* bound on the files of a revision
    Contents,       \* what a file may hold
    LinksPerBlock,  \* Maxlinks of the balanced layout
    MaxFileChunks   \* leaf budget of a puller

VARIABLES
    files,   \* the manifest: path -> content
    root,    \* the directory node ingest announces, NoNode before
    todo,    \* files the puller has yet to reconstruct
    got,     \* path -> content reconstructed
    phase    \* "ingest", "pull", "done" or "failed"

vars == <<files, root, todo, got, phase>>

AllPaths == UNION {[1..n -> Names] : n \in 1..MaxDepth}

(* A file system has no file that is also a directory.                     *)
Snapshots == {P \in UNION {{{p}, {p, q}, {p, q, r}} : p, q, r \in AllPaths} :
                Cardinality(P) <= MaxFiles
                /\ \A p, q \in P : p # q => ~IsPrefix(p, q)}

-----------------------------------------------------------------------------
(* Nodes                                                                   *)

NoNode    == [kind |-> "none"]
Raw(x)    == [kind |-> "raw", data |-> x]
Empty     == Raw("")
File(l)   == [kind |-> "file", links |-> l]
Dir(kids) == [kind |-> "dir", kids |-> kids]

(* balanced.Layout: rows of at most LinksPerBlock links until one node is  *)
(* left; a file of one chunk is its leaf, an empty one a zero-length leaf. *)
Row(s) ==
    [i \in 1..((Len(s) + LinksPerBlock - 1) \div LinksPerBlock) |->
        File(SubSeq(s, (i - 1) * LinksPerBlock + 1,
                    Min({i * LinksPerBlock, Len(s)})))]

RECURSIVE Stack(_)
Stack(s) == IF Len(s) = 1 THEN s[1] ELSE Stack(Row(s))

Layout(content) ==
    IF content = <<>> THEN Empty
    ELSE Stack([i \in DOMAIN content |-> Raw(content[i])])

-----------------------------------------------------------------------------
(* Ingest                                                                  *)

(* dirOf, <<>> for the top and for the top itself.                         *)
DirOf(p) == IF p = <<>> THEN <<>> ELSE Front(p)

(* buildTree's byDir: the directories that hold a file themselves.         *)
ByDir == {DirOf(p) : p \in DOMAIN files}

(* buildDir: the sub-directories among ByDir whose parent is dir, then the *)
(* files of dir.                                                           *)
RECURSIVE BuildDir(_)
BuildDir(dir) ==
    LET subs == {k \in ByDir : k # dir /\ DirOf(k) = dir}
        here == {p \in DOMAIN files : DirOf(p) = dir}
    IN  Dir([n \in {Last(k) : k \in subs \cup here} |->
               IF Append(dir, n) \in here THEN Layout(files[Append(dir, n)])
                                          ELSE BuildDir(Append(dir, n))])

BuildTree ==
    /\ phase = "ingest"
    /\ root' = BuildDir(<<>>)
    /\ todo' = DOMAIN files
    /\ phase' = "pull"
    /\ UNCHANGED <<files, got>>

-----------------------------------------------------------------------------
(* Pull                                                                    *)

(* findNode, one name at a time; NoNode is its error.                      *)
FindNode(p) ==
    FoldLeft(LAMBDA nd, n : IF nd.kind = "dir" /\ n \in DOMAIN nd.kids
                              THEN nd.kids[n] ELSE NoNode,
             root, p)

(* Mutant: a chunk seen before is not collected again.                     *)
RECURSIVE CollectLeavesOnce(_, _)
CollectLeavesOnce(nd, out) ==
    CASE ~out.ok -> out
      [] out.ok /\ nd.kind = "raw" ->
           IF Len(out.leaves) >= MaxFileChunks THEN [out EXCEPT !.ok = FALSE]
           ELSE IF Contains(out.leaves, nd.data) THEN out
           ELSE [out EXCEPT !.leaves = Append(@, nd.data)]
      [] OTHER -> FoldLeft(LAMBDA acc, l : CollectLeavesOnce(l, acc),
                           out, nd.links)

(* Mutant: the budget is one short.                                        *)
RECURSIVE CollectLeavesShort(_, _)
CollectLeavesShort(nd, out) ==
    CASE ~out.ok -> out
      [] out.ok /\ nd.kind = "raw" ->
           IF Len(out.leaves) + 1 >= MaxFileChunks THEN [out EXCEPT !.ok = FALSE]
           ELSE [out EXCEPT !.leaves = Append(@, nd.data)]
      [] OTHER -> FoldLeft(LAMBDA acc, l : CollectLeavesShort(l, acc),
                           out, nd.links)

(* collectLeaves, depth first, nothing memoized, within the budget.        *)
RECURSIVE CollectLeaves(_, _)
CollectLeaves(nd, out) ==
    CASE ~out.ok -> out
      [] out.ok /\ nd.kind = "raw" ->
           IF Len(out.leaves) >= MaxFileChunks THEN [out EXCEPT !.ok = FALSE]
           ELSE [out EXCEPT !.leaves = Append(@, nd.data)]
      [] OTHER -> FoldLeft(LAMBDA acc, l : CollectLeaves(l, acc), out, nd.links)

(* reconstruct, one file: located, enumerated, written; any error ends the *)
(* pull from this provider.                                                *)
Reconstruct(p) ==
    /\ phase = "pull" /\ p \in todo
    /\ LET nd  == FindNode(p)
           out == IF nd \in {NoNode, Empty}
                    THEN [ok |-> nd = Empty, leaves |-> <<>>]
                    ELSE CollectLeaves(nd, [ok |-> TRUE, leaves |-> <<>>])
       IN  \/ /\ out.ok
              /\ got' = [q \in DOMAIN got \cup {p} |->
                           IF q = p THEN out.leaves ELSE got[q]]
              /\ todo' = todo \ {p}
              /\ phase' = IF todo' = {} THEN "done" ELSE "pull"
           \/ /\ ~out.ok
              /\ phase' = "failed"
              /\ UNCHANGED <<got, todo>>
    /\ UNCHANGED <<files, root>>

Init ==
    /\ files \in UNION {[P -> Contents] : P \in Snapshots}
    /\ root = NoNode
    /\ todo = {}
    /\ got = <<>>
    /\ phase = "ingest"

Next == BuildTree \/ \E p \in AllPaths : Reconstruct(p)

Spec == Init /\ [][Next]_vars

-----------------------------------------------------------------------------
(* Properties                                                              *)

(* A file the puller reconstructs holds the chunks of the file ingested,   *)
(* repetitions included and in order, however interior nodes are shared.   *)
Reassembled == \A p \in DOMAIN got : got[p] = files[p]

OverBudget == \E p \in DOMAIN files : Len(files[p]) > MaxFileChunks

(* ingest.go: buildTree "adds every file as a nocopy DAG and wires them    *)
(* into a directory tree"; so a pull of it can only fail on the leaf       *)
(* budget.                                                                 *)
EveryFileLocated == phase = "failed" => OverBudget

(* Some directory on the way to a file holds no file of its own.           *)
Detached ==
    \E p \in DOMAIN files : \E n \in 1..(Len(p) - 2) : SubSeq(p, 1, n) \notin ByDir

(* The same but for those directories: every other revision can be pulled. *)
AttachedFilesLocated == phase = "failed" => OverBudget \/ Detached

=============================================================================
