--------------------------- MODULE MCSharedCache ---------------------------
(***************************************************************************)
(* Small hub caches for TLC.  Files are strings; a CID is a pair that says *)
(* what it hashes: <<"leaf", i>>, <<"node", f>>, <<"dir", S>>.             *)
(***************************************************************************)
EXTENDS SharedCache

CONSTANTS
    Layout,   \* commit -> <<repository, files>>
    Pieces    \* file -> set of interior nodes, each a set of chunk numbers

CidLeaf(i) == <<"leaf", i>>
Numbers(f) == UNION Pieces[f]

(* A file of one piece is its leaf or a root over leaves; of several, a    *)
(* root over one interior node for each.  Chunk 0 is the zero-length one.  *)
IsLeaf(f)  == \A i, j \in Numbers(f) : i = j
IsDeep(f)  == \E I, J \in Pieces[f] : I # J

MCCommits == DOMAIN Layout
MCRepos   == {Layout[c][1] : c \in DOMAIN Layout}
MCFiles   == UNION {Layout[c][2] : c \in DOMAIN Layout}
MCRaw     == {CidLeaf(i) : i \in UNION {Numbers(f) : f \in MCFiles}}
MCPb      == {<<"root", f>> : f \in {g \in MCFiles : ~IsLeaf(g)}}
                \cup {<<"inner", I>> : I \in UNION {Pieces[f] :
                                          f \in {g \in MCFiles : IsDeep(g)}}}
                \cup {<<"dir", S>> : S \in SUBSET MCFiles}
MCRepoOf  == [c \in MCCommits |-> Layout[c][1]]
MCFilesOf == [c \in MCCommits |-> Layout[c][2]]
MCFileCid == [f \in MCFiles |-> IF IsLeaf(f)
                                  THEN CidLeaf(CHOOSE i \in Numbers(f) : TRUE)
                                  ELSE <<"root", f>>]
MCDirCid  == [S \in SUBSET MCFiles |-> <<"dir", S>>]
MCLinks   == [x \in MCPb |->
                CASE x[1] = "dir"   -> {MCFileCid[f] : f \in x[2]}
                  [] x[1] = "inner" -> {CidLeaf(i) : i \in x[2]}
                  [] x[1] = "root"  -> IF IsDeep(x[2])
                                         THEN {<<"inner", I>> : I \in Pieces[x[2]]}
                                         ELSE {CidLeaf(i) : i \in Numbers(x[2])}]
MCEmptyLeaves == MCRaw \cap {CidLeaf(0)}

(* One repository whose two revisions share a deep file; the second adds a *)
(* one-chunk file that is also a chunk of the first.                       *)
LayoutPair == [c1 |-> <<"r", {"f"}>>, c2 |-> <<"r", {"f", "g"}>>]
PiecesPair == [f |-> {{1}, {2}}, g |-> {{2}}]

(* The same with a zero-length file besides, and a shared file that has no *)
(* chunk of its own; with a zero-length file in place of the other.        *)
LayoutEmpty == [c1 |-> <<"r", {"e", "f"}>>, c2 |-> <<"r", {"f", "g"}>>]
PiecesEmpty == [e |-> {{0}}, f |-> {{1}, {2}}, g |-> {{1, 2}}]
PiecesZero  == [f |-> {{1}}, g |-> {{0}}]

(* The same with a flat file and nothing in common between the two files.  *)
PiecesFlat == [f |-> {{1, 2}}, g |-> {{3}}]

(* A file shared by two revisions of one repository and by another one's.  *)
LayoutThree == [c1 |-> <<"r", {"f"}>>, c2 |-> <<"r", {"f", "g"}>>,
                d  |-> <<"s", {"f"}>>]
PiecesThree == [f |-> {{1}}, g |-> {{2}}]

(* A deep file shared by two repositories, and a revision with one of its  *)
(* chunks as a file.                                                       *)
LayoutSpread == [c1 |-> <<"r", {"f"}>>, c2 |-> <<"r", {"g"}>>,
                 d  |-> <<"s", {"f"}>>]

(* What may be asked of the node and happen to it.                         *)
AllOps    == {"ingest", "pull", "relink", "evict", "prune", "download",
              "delete", "fault", "crash"}
WatchOps  == AllOps \ {"relink", "evict"}
PullOps   == {"pull"}
PullEvict == {"pull", "evict"}

PeerOnly == {"p2p"}
HubOnly  == {"hf"}
Both     == {"p2p", "hf"}

(* The program; an eviction lock, shared and exclusive among evictions; a   *)
(* lock around every operation.                                            *)
NoConflicts == {}
EvictAlone  == {<<"evict", k>> : k \in {"ingest", "pull"}}
                 \cup {<<k, "evict">> : k \in {"ingest", "pull"}}
EvictSolo   == EvictAlone \cup {<<"evict", "evict">>}
OneAtATime  == Kinds \X Kinds

=============================================================================
