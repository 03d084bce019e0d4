------------------------------ MODULE Transfer ------------------------------
(***************************************************************************)
(* pull.Run down to the network: the candidates are tried one after the    *)
(* other, each with a map exchange and then a block stream (BlockStream),  *)
(* and when none delivers the Hub is asked (HubDownload).  One file is     *)
(* fetched: its root, a dag-pb node that is kept once it is here, and its  *)
(* leaves, in batches, into a temporary file that is renamed to the blob's *)
(* name when its digest and size are right.  SharedCache has what this     *)
(* leaves out: the references, the mapping, the links, several files.      *)
(***************************************************************************)
EXTENDS BlockStream, HubDownload

CONSTANTS
    Content,   \* the leaves of the file, which its manifest's sha256 names
    Offers,    \* each candidate's DAG: <<root, leaves>>
    Sources,   \* where the pull may fetch from (--from)
    MaxRuns    \* bound on pulls, the ones after a crash included

ASSUME OfferAssumption ==
    /\ Content \in Seq(Cids) /\ Content # <<>>
    /\ Offers \in Seq(Cids \X Seq(Cids))
    /\ Sources \subseteq {"p2p", "hf"} /\ Sources # {}
    /\ MaxRuns \in Nat

VARIABLES
    puller,   \* what pull.Run is doing
    cands,    \* how many candidates step B found
    k,        \* the one being tried
    written,  \* the leaves in the temporary file
    local,    \* roots in this node's blockstore
    blob,     \* the file under its final name: "none", "partial", "wrong"
              \* (of the right size, with other content) or "whole"
    excused,  \* candidates with which something was wrong (history)
    tardy,    \* candidates this puller kept waiting too long (history)
    runs

pullVars == <<puller, cands, k, written, local, blob, excused, tardy, runs>>
vars     == <<streamVars, hubVars, pullVars>>

Root   == Offers[k][1]
Leaves == Offers[k][2]

OnStream == {"root", "rooted", "file", "batch", "chunks"}
OnHub    == {"hub", "hubfile", "hubcopy"}
Busy     == {"map", "record"} \cup OnStream \cup OnHub

Min(a, b) == IF a <= b THEN a ELSE b

(* Mutant: a batch is one leaf too long.                                   *)
NextBatchLong == SubSeq(Leaves, Len(written) + 1,
                        Min(Len(written) + Batch + 1, Len(Leaves)))

NextBatch == SubSeq(Leaves, Len(written) + 1, Min(Len(written) + Batch, Len(Leaves)))

Init == /\ StreamInit /\ HubInit
        /\ puller = "idle" /\ cands = 0 /\ k = 1 /\ written = <<>>
        /\ local = {} /\ blob \in {"none", "partial", "wrong", "whole"}
        /\ excused = {} /\ tardy = {} /\ runs = 0

(* Where the pull goes when the candidates are used up.                    *)
Fallback == IF "hf" \in Sources THEN "hub" ELSE "failed"

(* Steps A and B.                                                          *)
StartPull ==
    /\ puller \in {"idle", "done", "failed", "down"} /\ runs < MaxRuns
    /\ client = "none"
    /\ runs' = runs + 1 /\ k' = 1 /\ written' = <<>>
    /\ excused' = {} /\ tardy' = {}
    /\ cands' \in IF "p2p" \in Sources THEN 0 .. Len(Offers) ELSE {0}
    /\ puller' = IF cands' = 0 THEN Fallback ELSE "map"
    /\ UNCHANGED <<local, blob, streamVars, hubVars>>

(* The loop's continue: the next candidate, or out of the loop.            *)
NextCandidate(wrong) ==
    /\ excused' = IF wrong THEN excused \cup {k} ELSE excused
    /\ tardy' = IF idled /\ ~wrong THEN tardy \cup {k} ELSE tardy
    /\ k' = k + 1 /\ written' = <<>>
    /\ puller' = IF k = cands THEN Fallback ELSE "map"
    /\ UNCHANGED <<cands, local, blob, runs>>

Step(to) == /\ puller' = to
            /\ UNCHANGED <<cands, k, written, local, blob, excused, tardy, runs>>

(* Step C fails: the candidate is not reached, does not answer in time,    *)
(* refuses, does not share the commit, or answers for another one; or the  *)
(* block stream to it cannot be opened.                                    *)
MapRefused == /\ puller = "map" /\ client = "none"
              /\ NextCandidate(TRUE) /\ UNCHANGED <<streamVars, hubVars>>

(* Step C succeeds, and reconstruct opens the block stream.                *)
MapAnswered == /\ puller = "map"
               /\ \E s \in Stocks, r \in BOOLEAN : OpenStream(s, r)
               /\ Step("root") /\ UNCHANGED hubVars

-----------------------------------------------------------------------------
(* Step D: reconstruct and reconstructFile                                 *)

(* readThrough asks the peer only for what this node does not have.        *)
RootLocal == /\ puller = "root" /\ Root \in local
             /\ Step("file") /\ UNCHANGED <<streamVars, hubVars>>

FetchRoot == /\ puller = "root" /\ Root \notin local
             /\ Fetch(<<Root>>)
             /\ Step("rooted") /\ UNCHANGED hubVars

KeepRoot == /\ puller = "rooted" /\ client = "idle" /\ out = <<Block(Root)>>
            /\ local' = local \cup {Root} /\ puller' = "file"
            /\ UNCHANGED <<cands, k, written, blob, excused, tardy, runs>>
            /\ UNCHANGED <<streamVars, hubVars>>

(* The blob is there already, with the right size and digest.              *)
BlobCached == /\ puller = "file" /\ blob = "whole"
              /\ CloseStream
              /\ Step("record") /\ UNCHANGED hubVars

CreateTemp == /\ puller = "file" /\ blob # "whole"
              /\ Step("batch") /\ UNCHANGED <<streamVars, hubVars>>

FetchBatch == /\ puller = "batch" /\ Len(written) < Len(Leaves)
              /\ Fetch(NextBatch)
              /\ Step("chunks") /\ UNCHANGED hubVars

Verified == written = Content

(* NewBlockWithCid takes the datum for the CID's (it hashes in debug builds *)
(* only): a peer that answers with other bytes is found out by the digest  *)
(* of the whole file.  These peers answer with the block or without.       *)
WriteChunks == /\ puller = "chunks" /\ client = "idle"
               /\ \A i \in 1 .. Len(asked) : out[i] = Block(asked[i])
               /\ written' = written \o asked /\ puller' = "batch"
               /\ UNCHANGED <<cands, k, local, blob, excused, tardy, runs>>
               /\ UNCHANGED <<streamVars, hubVars>>

(* Digest and size are those of the manifest: the rename.                  *)
PlaceBlob == /\ puller = "batch" /\ Len(written) = Len(Leaves)
             /\ Verified
             /\ CloseStream
             /\ blob' = IF written = Content THEN "whole" ELSE "partial"
             /\ puller' = "record"
             /\ UNCHANGED <<cands, k, written, local, excused, tardy, runs, hubVars>>

(* Mapping.Put and WriteSnapshot; when this node fails at one of them the  *)
(* remaining candidates are not tried.                                     *)
Record == /\ puller = "record"
          /\ \/ Step("done")
             \/ /\ puller' = Fallback /\ excused' = 1 .. cands
                /\ UNCHANGED <<cands, k, written, local, blob, tardy, runs>>
          /\ UNCHANGED <<streamVars, hubVars>>

(* An answer that cannot be used, a digest that is not the manifest's, or  *)
(* an error of this node's own disk: rollback, and the deferred Close.     *)
Unusable == \/ puller = "rooted" /\ out # <<Block(Root)>>
            \/ /\ puller = "chunks"
               /\ \E i \in 1 .. Len(asked) : out[i] # Block(asked[i])
            \/ puller = "batch" /\ Len(written) = Len(Leaves) /\ ~Verified

Rollback == /\ client = "idle" /\ Unusable
            /\ CloseStream
            /\ NextCandidate(fault \/ Leaves # Content) /\ UNCHANGED hubVars

DiskError == /\ puller \in {"file", "chunks", "batch"} /\ client = "idle"
             /\ CloseStream
             /\ NextCandidate(TRUE) /\ UNCHANGED hubVars

(* Fetch returned an error.                                                *)
StreamFailed == /\ puller \in OnStream /\ client = "closed"
                /\ NextCandidate(fault) /\ UNCHANGED <<streamVars, hubVars>>

-----------------------------------------------------------------------------
(* pullFromHF and fetchBlob                                                *)

(* RepoInfoAt, TreeAt and manifestFromRevision.                            *)
HubManifest == /\ puller = "hub" /\ client = "none"
               /\ Step("hubfile") \/ Step("failed")
               /\ UNCHANGED <<streamVars, hubVars>>

(* Here the size alone decides.  WriteSnapshot and ingest.Run follow when  *)
(* every file is there, and may fail.                                      *)
HubCached == /\ puller = "hubfile" /\ blob \in {"wrong", "whole"}
             /\ Step("done") \/ Step("failed")
             /\ UNCHANGED <<streamVars, hubVars>>

HubRequest == /\ puller = "hubfile" /\ blob \in {"none", "partial"}
              /\ StartDownload \/ RefuseDownload \/ RefuseStatus
              /\ Step("hubcopy") /\ UNCHANGED streamVars

(* The number of bytes, then sha256 or git blob id, then the rename.       *)
(* Mutant: only the sha256 that the Hub gave is compared, and for a plain  *)
(* git file it gave none.                                                  *)
AcceptedUnhashed == got = Size

Accepted == got = Size /\ right

HubPlace == /\ puller = "hubcopy" /\ copy = "copied" /\ Accepted
            /\ blob' = IF got = Size /\ right THEN "whole" ELSE "partial"
            /\ puller' = "hubfile" /\ NoDownload
            /\ UNCHANGED <<cands, k, written, local, excused, tardy, runs, streamVars>>

HubReject == /\ puller = "hubcopy"
             /\ copy = "failed" \/ (copy = "copied" /\ ~Accepted)
             /\ Step("failed") /\ NoDownload /\ UNCHANGED streamVars

-----------------------------------------------------------------------------
(* The process dies, and with it what it had in memory.  The temporary     *)
(* file stays, under a name of its own.                                    *)
Crash == /\ puller \in Busy
         /\ puller' = "down" /\ cands' = 0 /\ k' = 1 /\ written' = <<>>
         /\ excused' = {} /\ tardy' = {}
         /\ IF puller \in OnStream /\ client # "closed" THEN LoseClient
                                                      ELSE UNCHANGED streamVars
         /\ NoDownload
         /\ UNCHANGED <<local, blob, runs>>

PullWork == \/ MapRefused \/ MapAnswered \/ RootLocal \/ FetchRoot \/ KeepRoot
            \/ BlobCached \/ CreateTemp \/ FetchBatch \/ WriteChunks \/ PlaceBlob
            \/ Record \/ Rollback \/ DiskError \/ StreamFailed
            \/ HubManifest \/ HubCached \/ HubRequest \/ HubPlace \/ HubReject

FetchWork == SendRequest \/ ReadAnswer \/ FetchError \/ FetchDeadline

(* What goes on beside the pull.                                           *)
StreamOver   == /\ puller \notin OnStream /\ Forget
                /\ UNCHANGED <<hubVars, pullVars>>
StreamBeside == /\ FetchWork \/ ServerNext \/ LoseLink \/ LoseServer \/ AlterStock
                /\ UNCHANGED <<hubVars, pullVars>>
ServerSends  == /\ \/ \E r \in BOOLEAN : Arrive(r)
                   \/ \E e \in {"end", "broken"} : EndBody(e)
                   \/ FallSilent
                /\ UNCHANGED <<streamVars, pullVars>>
HubBeside    == /\ HubWork \/ WatchdogTick \/ Pass
                /\ UNCHANGED <<streamVars, pullVars>>

Next == \/ StartPull \/ PullWork \/ Crash
        \/ StreamBeside \/ StreamOver \/ ServerSends \/ HubBeside

(* Goroutines run, deadlines expire, and a server that is alive sends.     *)
Fairness ==
    /\ WF_vars(PullWork)
    /\ WF_vars(FetchWork /\ UNCHANGED <<hubVars, pullVars>>)
    /\ WF_vars(FetchDeadline /\ UNCHANGED <<hubVars, pullVars>>)
    /\ WF_vars(ServerNext /\ UNCHANGED <<hubVars, pullVars>>)
    /\ WF_vars((RequestIdle \/ ServeBlocked) /\ UNCHANGED <<hubVars, pullVars>>)
    /\ WF_vars(StreamOver)
    /\ WF_vars(ServerSends)
    /\ WF_vars(HubBeside)

Spec     == Init /\ [][Next]_vars
LiveSpec == Spec /\ Fairness
-----------------------------------------------------------------------------
(* node.go: "The server answers with exactly one response frame per        *)
(* requested CID, in the same order".  Through deadlines, resets and a     *)
(* store that changes while it is read, a Fetch that returns has for every *)
(* CID an answer that was true of it during the call.                      *)
FetchKeepsPromise == Promise!FetchSpec

(* hffallback.go: "A partially written blob must never appear at the real  *)
(* path".  What appears there is the whole file, from peers or the Hub,    *)
(* and a pull that reports success leaves it there, unless the Hub's turn  *)
(* came and it found a file of the right size that was not its own.        *)
OnlyWholeBlobs == [][/\ blob' # blob => blob' = "whole"
                     /\ puller' = "done" /\ puller # "done" =>
                          blob' = "whole" \/ (puller = "hubfile" /\ blob = "wrong")]_vars

(* "try providers until one succeeds": the Hub is asked only when with     *)
(* every candidate that was found something outside the two programs went  *)
(* wrong, or the puller kept its handler waiting for over blockIdleTimeout *)
(* (it holds the stream while it hashes a blob that is there already).     *)
(* Nothing else the two programs do to each other loses a candidate.       *)
FallbackHasCause == puller \in OnHub => 1 .. cands \subseteq excused \cup tardy

(* Every pull comes to an end: no peer can hold it for ever, and the Hub   *)
(* only in one place, by falling silent in the body of an error, which is  *)
(* read with no timeout and no watchdog.                                   *)
PullEnds == puller \in Busy ~> \/ puller \notin Busy
                               \/ copy = "refused" /\ ~alive

(* node.go: "A peer that ... sends nothing must not pin this handler       *)
(* forever".  A handler whose client has closed or vanished comes to an    *)
(* end, also in the middle of a batch that nobody reads.                   *)
HandlerEnds == client \in {"closed", "lost"} ~> server \in Ended

=============================================================================
