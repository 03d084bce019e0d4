-------------------------- MODULE TransferProofs --------------------------
(***************************************************************************)
(* The composition of pull.Run with a block stream and a Hub download      *)
(* takes only steps the two parts allow, so what is proved of each alone   *)
(* holds of the whole; and the pull turns to the Hub only with cause.      *)
(***************************************************************************)
EXTENDS Transfer, BlockStreamProofs, HubDownloadProofs

OnPeer == {"map"} \cup OnStream

PullTypes ==
    /\ cands \in 0 .. Len(Offers) /\ k \in Nat \ {0}
    /\ puller \in OnPeer => k <= cands
    /\ written \in Seq(Cids)

PartsInv == Aligned /\ WatchInv /\ PullTypes

(* What a candidate offers is a root and a sequence of leaves.             *)
LEMMA OfferTypes ==
    ASSUME PullTypes, puller \in OnPeer
    PROVE  Root \in Cids /\ Leaves \in Seq(Cids)
<1>1. k \in 1 .. Len(Offers)
  BY OfferAssumption DEF PullTypes
<1> QED
  BY <1>1, OfferAssumption DEF Root, Leaves

(* What is asked for is a batch the server accepts.                        *)
LEMMA BatchFits ==
    ASSUME PullTypes, puller \in OnPeer
    PROVE  /\ <<Root>> \in Batches
           /\ Len(written) < Len(Leaves) =>
                /\ NextBatch \in Batches
                /\ Len(written) + Len(NextBatch) <= Len(Leaves)
                /\ \A i \in 1 .. Len(NextBatch) : NextBatch[i] = Leaves[Len(written) + i]
<1>1. Root \in Cids /\ Leaves \in Seq(Cids) /\ written \in Seq(Cids)
  BY OfferTypes DEF PullTypes
<1>2. <<Root>> \in Batches
  <2>1. <<Root>> \in Seq(Cids) /\ Len(<<Root>>) = 1
    BY <1>1
  <2> QED
    BY <2>1, BatchAssumption DEF Batches, Promise!Batches
<1>3. ASSUME Len(written) < Len(Leaves)
      PROVE  /\ NextBatch \in Batches
             /\ Len(written) + Len(NextBatch) <= Len(Leaves)
             /\ \A i \in 1 .. Len(NextBatch) : NextBatch[i] = Leaves[Len(written) + i]
  <2> DEFINE m == Len(written) + 1
             n == Min(Len(written) + Batch, Len(Leaves))
  <2>1. /\ m \in Nat /\ n \in Nat /\ 1 <= m /\ m <= n /\ n <= Len(Leaves)
        /\ n - m + 1 <= Batch
    BY <1>1, <1>3, BatchAssumption DEF Min
  <2>2. NextBatch = SubSeq(Leaves, m, n)
    BY DEF NextBatch
  <2> HIDE DEF m, n
  <2>3. /\ NextBatch \in Seq(Cids) /\ Len(NextBatch) = n - m + 1
        /\ \A i \in 1 .. (n - m + 1) : NextBatch[i] = Leaves[m + i - 1]
    BY <1>1, <2>1, <2>2
  <2>4. NextBatch \in Batches
    BY <2>1, <2>3, BatchAssumption DEF Batches, Promise!Batches
  <2> QED
    BY <1>1, <2>1, <2>3, <2>4 DEF m
<1> QED
  BY <1>2, <1>3

-----------------------------------------------------------------------------
(* Every step of the whole is one of each part, or none                    *)

(* Every step of a pull is a step of the block stream or leaves it alone.  *)
LEMMA StreamPart == PullTypes /\ [Next]_vars => [StreamNext]_streamVars
<1> SUFFICES ASSUME PullTypes, [Next]_vars PROVE StreamNext \/ UNCHANGED streamVars
  OBVIOUS
<1>1. CASE MapAnswered
  BY <1>1 DEF MapAnswered, StreamNext, ClientNext
<1>2. CASE FetchRoot
  <2>1. <<Root>> \in Batches /\ Fetch(<<Root>>)
    BY <1>2, BatchFits DEF FetchRoot, OnPeer, OnStream
  <2> QED
    BY <2>1 DEF StreamNext, ClientNext
<1>3. CASE FetchBatch
  <2>1. NextBatch \in Batches /\ Fetch(NextBatch)
    BY <1>3, BatchFits DEF FetchBatch, OnPeer, OnStream
  <2> QED
    BY <2>1 DEF StreamNext, ClientNext
<1>4. CASE BlobCached \/ PlaceBlob \/ Rollback \/ DiskError
  BY <1>4 DEF BlobCached, PlaceBlob, Rollback, DiskError, StreamNext, ClientNext
<1>5. CASE Crash
  BY <1>5 DEF Crash, StreamNext, WorldNext
<1>6. CASE StreamOver \/ StreamBeside
  BY <1>6 DEF StreamOver, StreamBeside, FetchWork, StreamNext, ClientNext, WorldNext
<1>7. CASE \/ StartPull \/ MapRefused \/ RootLocal \/ KeepRoot \/ CreateTemp
           \/ WriteChunks \/ Record \/ StreamFailed \/ HubManifest \/ HubCached
           \/ HubRequest \/ HubPlace \/ HubReject \/ ServerSends \/ HubBeside
  BY <1>7 DEF StartPull, MapRefused, RootLocal, KeepRoot, CreateTemp,
              WriteChunks, Record, StreamFailed, HubManifest, HubCached,
              HubRequest, HubPlace, HubReject, ServerSends, HubBeside
<1>8. CASE UNCHANGED vars
  BY <1>8 DEF vars
<1> QED
  BY <1>1, <1>2, <1>3, <1>4, <1>5, <1>6, <1>7, <1>8 DEF Next, PullWork

(* Every step of a pull is a step of the Hub's download or leaves it       *)
(* alone.                                                                  *)
LEMMA HubPart == [Next]_vars => [HubNext]_hubVars
<1> SUFFICES ASSUME [Next]_vars PROVE HubNext \/ UNCHANGED hubVars
  OBVIOUS
<1>1. CASE HubRequest \/ HubPlace \/ HubReject \/ Crash
  BY <1>1 DEF HubRequest, HubPlace, HubReject, Crash, HubNext
<1>2. CASE ServerSends \/ HubBeside
  BY <1>2 DEF ServerSends, HubBeside, HubNext
<1>3. CASE \/ StartPull \/ MapRefused \/ MapAnswered \/ RootLocal \/ FetchRoot
           \/ KeepRoot \/ BlobCached \/ CreateTemp \/ FetchBatch \/ WriteChunks
           \/ PlaceBlob \/ Record \/ Rollback \/ DiskError \/ StreamFailed
           \/ HubManifest \/ HubCached \/ StreamOver \/ StreamBeside
  BY <1>3 DEF StartPull, MapRefused, MapAnswered, RootLocal, FetchRoot,
              KeepRoot, BlobCached, CreateTemp, FetchBatch, WriteChunks,
              PlaceBlob, Record, Rollback, DiskError, StreamFailed,
              HubManifest, HubCached, StreamOver, StreamBeside
<1>4. CASE UNCHANGED vars
  BY <1>4 DEF vars
<1> QED
  BY <1>1, <1>2, <1>3, <1>4 DEF Next, PullWork

(* The puller's own variables stay well typed.                             *)
LEMMA PullTypesStep == Aligned /\ PullTypes /\ [Next]_vars => PullTypes'
<1> SUFFICES ASSUME Aligned, PullTypes, [Next]_vars PROVE PullTypes'
  OBVIOUS
<1> USE DEF PullTypes
<1>1. CASE StartPull
  <2>1. cands' \in 0 .. Len(Offers) /\ k' = 1 /\ written' = <<>>
    BY <1>1, OfferAssumption DEF StartPull
  <2>2. puller' \in OnPeer => cands' # 0
    BY <1>1 DEF StartPull, Fallback, OnPeer, OnStream
  <2> QED
    BY <2>1, <2>2, OfferAssumption
<1>2. ASSUME NEW w, NextCandidate(w), puller \in OnPeer PROVE PullTypes'
  <2>1. puller' \in OnPeer => k # cands
    BY <1>2 DEF NextCandidate, Fallback, OnPeer, OnStream
  <2> QED
    BY <1>2, <2>1, OfferAssumption DEF NextCandidate
<1>3. CASE MapRefused \/ Rollback \/ DiskError \/ StreamFailed
  <2>1. puller \in OnPeer
    BY <1>3 DEF MapRefused, Rollback, DiskError, StreamFailed, Unusable, OnPeer, OnStream
  <2> QED
    BY <1>2, <1>3, <2>1 DEF MapRefused, Rollback, DiskError, StreamFailed
<1>4. CASE \/ MapAnswered \/ RootLocal \/ FetchRoot \/ BlobCached
           \/ CreateTemp \/ FetchBatch \/ HubManifest \/ HubCached
           \/ HubRequest \/ HubReject
  BY <1>4 DEF MapAnswered, RootLocal, FetchRoot, BlobCached,
              CreateTemp, FetchBatch, HubManifest, HubCached, HubRequest,
              HubReject, Step, OnPeer, OnStream
<1>5. CASE KeepRoot \/ PlaceBlob \/ Record \/ HubPlace
  BY <1>5 DEF KeepRoot, PlaceBlob, Record, Step, Fallback, HubPlace, OnPeer, OnStream
<1>6. CASE WriteChunks
  <2>1. asked \in Seq(Cids)
    BY <1>6 DEF WriteChunks, Aligned, Engaged, StreamTypes
  <2> QED
    BY <1>6, <2>1 DEF WriteChunks, OnPeer, OnStream
<1>7. CASE Crash
  BY <1>7 DEF Crash, OnPeer, OnStream
<1>8. CASE StreamOver \/ StreamBeside \/ ServerSends \/ HubBeside \/ UNCHANGED vars
  BY <1>8 DEF StreamOver, StreamBeside, ServerSends, HubBeside, vars, pullVars
<1> QED
  BY <1>1, <1>3, <1>4, <1>5, <1>6, <1>7, <1>8 DEF Next, PullWork

(* The parts start in their initial states.                                *)
LEMMA PartsInit == Init => PartsInv
<1> SUFFICES ASSUME Init PROVE PartsInv
  OBVIOUS
<1>1. PullTypes
  BY OfferAssumption DEF Init, PullTypes, OnPeer, OnStream
<1> QED
  BY <1>1, AlignedInit, WatchInit DEF Init, PartsInv

(* The parts' invariants carry over to the pull.                           *)
LEMMA PartsStep == PartsInv /\ [Next]_vars => PartsInv'
  BY StreamPart, HubPart, PullTypesStep, AlignedStep, WatchStep DEF PartsInv

(* The parts keep their invariants in the composition.                     *)
THEOREM PartsHold == Spec => []PartsInv
  BY PartsInit, PartsStep, PTL DEF Spec

(* In a pull as a whole, whatever happens to its streams and to its own    *)
(* process, every Fetch that returns has true answers in the right places. *)
THEOREM PullFetchesTruth == Spec => FetchKeepsPromise
<1>1. Init => Promise!FetchInit
  BY PromiseInit DEF Init
<1>2. PartsInv /\ [Next]_vars => [Promise!FetchNext]_(Promise!fetchVars)
  BY StreamPart, PromiseStep DEF PartsInv
<1> QED
  BY <1>1, <1>2, PartsHold, PTL DEF Spec, FetchKeepsPromise, Promise!FetchSpec

(* A pull cancels its download only when the Hub has fallen silent.        *)
THEOREM PullKeepsLiveStream == Spec => []LiveStreamKept
<1>1. PartsInv => LiveStreamKept
  BY WatchImplies DEF PartsInv
<1> QED
  BY <1>1, PartsHold, PTL

(* And none of its reads waits for longer than the watchdog's bound.       *)
THEOREM PullBoundsSilence == Spec => []SilenceBounded
<1>1. PartsInv => SilenceBounded
  BY WatchImplies DEF PartsInv
<1> QED
  BY <1>1, PartsHold, PTL

-----------------------------------------------------------------------------
(* A stream on which nothing goes wrong does not fail                      *)

(* Between calls the answers to the last one are all there.                *)
Returned == client = "idle" /\ asked # <<>> =>
                /\ Len(out) = Len(asked)
                /\ \A i \in 1 .. Len(asked) : Fits(out[i], i)

(* As long as no fault was met and the handler was not kept waiting, the   *)
(* peer has everything, the stream is up and its handler is there, and the *)
(* batch is one it accepts.  A handler that was kept waiting is gone, and  *)
(* that is all that went wrong then.                                       *)
Healthy == Engaged /\ ~fault /\ ~idled =>
    /\ \A c \in Cids : seen[c] \subseteq {"held"}
    /\ link = "up" /\ server \in {"start", "reading", "serving"}
    /\ relayed => RelayBulk
    /\ client \in {"sending", "reading"} => Len(asked) <= Batch

(* A fault on a stream is not forgotten before the next stream, nor is an  *)
(* idle client's.                                                          *)
LEMMA FaultStays ==
    ASSUME [StreamNext]_streamVars, Engaged
    PROVE  (fault => fault') /\ (idled => idled')
<1>1. CASE ClientNext
  <2>1. CASE \E s \in Stocks, r \in BOOLEAN : OpenStream(s, r)
    BY <2>1 DEF OpenStream, Engaged
  <2>2. CASE FetchDeadline
    BY <2>2 DEF FetchDeadline, Late
  <2>3. CASE Forget
    BY <2>3 DEF Forget, Engaged
  <2> QED
    BY <1>1, <2>1, <2>2, <2>3 DEF ClientNext, Fetch, SendRequest, ReadAnswer,
       FetchError, CloseStream, faultVars
<1>2. CASE ServerNext
  BY <1>2 DEF ServerNext, StartHandler, ReadRequest, RequestEnd, RequestIdle,
     ServeBlock, ServeError, ServeBlocked, Fault, Late, faultVars
<1>3. CASE WorldNext
  BY <1>3 DEF WorldNext, LoseLink, LoseServer, LoseClient, AlterStock, Fault,
     faultVars
<1>4. CASE UNCHANGED streamVars
  BY <1>4 DEF streamVars, faultVars
<1> QED
  BY <1>1, <1>2, <1>3, <1>4 DEF StreamNext

(* A result that was returned stays the batch's.                           *)
LEMMA ReturnedStep == Aligned /\ Returned /\ [StreamNext]_streamVars => Returned'
<1> SUFFICES ASSUME Aligned, Returned, [StreamNext]_streamVars PROVE Returned'
  OBVIOUS
<1>1. CASE \E s \in Stocks, r \in BOOLEAN : OpenStream(s, r)
  BY <1>1 DEF OpenStream, Returned
<1>2. CASE ReadAnswer
  <2>1. StreamTypes /\ InStep /\ down # <<>>
    BY <1>2 DEF Aligned, Engaged, ReadAnswer
  <2>2. out' = Append(out, Head(down)) /\ UNCHANGED <<asked, seen>>
    BY <1>2 DEF ReadAnswer, stockVars
  <2> SUFFICES ASSUME client' = "idle"
               PROVE  /\ Len(out') = Len(asked)
                      /\ \A i \in 1 .. Len(asked) : Fits(out'[i], i)
    BY <2>2 DEF Returned, Fits
  <2>3. Len(out) + 1 = Len(asked)
    BY <1>2 DEF ReadAnswer
  <2>4. /\ Len(out') = Len(asked)
        /\ \A i \in 1 .. Len(out) : out'[i] = out[i]
        /\ out'[Len(out) + 1] = down[1] /\ 1 \in 1 .. Len(down)
    BY <2>1, <2>2, <2>3 DEF StreamTypes
  <2>5. Fits(down[1], Len(out) + 1)
    BY <2>1, <2>4 DEF InStep
  <2>6. ASSUME NEW i \in 1 .. Len(asked) PROVE Fits(out'[i], i)
    <3>1. CASE i \in 1 .. Len(out)
      BY <2>1, <2>4, <3>1 DEF InStep
    <3>2. CASE i = Len(out) + 1
      BY <2>4, <2>5, <3>2
    <3> QED
      BY <2>1, <2>3, <3>1, <3>2 DEF StreamTypes
  <2> QED
    BY <2>4, <2>6
<1>3. CASE AlterStock
  <2>1. /\ UNCHANGED <<client, asked, out>> /\ StreamTypes
        /\ \E c \in Cids, h \in Holdings : seen' = [seen EXCEPT ![c] = @ \cup {h}]
    BY <1>3 DEF AlterStock, clientVars, Aligned, Engaged
  <2>2. \A d \in Cids : seen[d] \subseteq seen'[d]
    BY <2>1 DEF StreamTypes
  <2>3. ASSUME NEW i \in 1 .. Len(asked), Fits(out[i], i) PROVE Fits(out[i], i)'
    <3>1. seen[asked[i]] \subseteq seen'[asked[i]]
      BY <2>1, <2>2 DEF StreamTypes
    <3> QED
      BY <2>1, <2>3, <3>1, AnswersGrow DEF Fits
  <2> QED
    BY <2>1, <2>3 DEF Returned
<1>4. CASE \/ \E b \in Batches : Fetch(b)
           \/ SendRequest \/ FetchError \/ FetchDeadline
           \/ CloseStream \/ Forget \/ LoseClient
  BY <1>4 DEF Fetch, SendRequest, FetchError, FetchDeadline, CloseStream,
              Forget, Drop, LoseClient, Returned
<1>5. CASE ServerNext \/ LoseLink \/ LoseServer \/ UNCHANGED streamVars
  <2>1. UNCHANGED <<clientVars, stockVars>>
    BY <1>5 DEF ServerNext, LoseLink, LoseServer, StartHandler, ReadRequest,
                RequestEnd, RequestIdle, ServeBlock, ServeError, ServeBlocked,
                streamVars
  <2> QED
    BY <2>1 DEF clientVars, stockVars, Returned, Fits
<1> QED
  BY <1>1, <1>2, <1>3, <1>4, <1>5 DEF StreamNext, ClientNext, WorldNext

(* Without a fault the peer keeps everything and its handler goes on.      *)
LEMMA HealthyStep == Aligned /\ Healthy /\ [StreamNext]_streamVars => Healthy'
<1> SUFFICES ASSUME Aligned, Healthy, [StreamNext]_streamVars, Engaged', ~fault', ~idled'
             PROVE  /\ \A c \in Cids : seen'[c] \subseteq {"held"}
                    /\ link' = "up" /\ server' \in {"start", "reading", "serving"}
                    /\ relayed' => RelayBulk
                    /\ client' \in {"sending", "reading"} => Len(asked') <= Batch
  BY DEF Healthy
<1>1. ASSUME NEW s \in Stocks, NEW r \in BOOLEAN, OpenStream(s, r)
      PROVE  /\ \A c \in Cids : seen'[c] \subseteq {"held"}
             /\ link' = "up" /\ server' \in {"start", "reading", "serving"}
             /\ relayed' => RelayBulk
             /\ client' = "idle"
  <2>1. ~((r /\ ~RelayBulk) \/ \E c \in Cids : s[c] # "held")
    BY <1>1, Zenon DEF OpenStream
  <2> QED
    BY <1>1, <2>1 DEF OpenStream
<1>2. CASE Engaged
  <2>1. ~fault /\ ~idled
    BY <1>2, FaultStays
  <2>2. /\ \A c \in Cids : seen[c] \subseteq {"held"}
        /\ link = "up" /\ server \in {"start", "reading", "serving"}
        /\ relayed => RelayBulk
        /\ client \in {"sending", "reading"} => Len(asked) <= Batch
    BY <1>2, <2>1 DEF Healthy
  <2>3. StreamTypes /\ Quiet /\ (client = "reading" => InStep)
    BY <1>2 DEF Aligned
  <2>4. CASE \E b \in Batches : Fetch(b)
    <3>1. PICK b \in Batches : Fetch(b)
      BY <2>4
    <3>2. Len(b) <= Batch
      BY DEF Batches, Promise!Batches
    <3>3. \A c \in Cids : seen'[c] = {stock[c]} /\ stock[c] \in seen[c]
      BY <2>3, <3>1 DEF Fetch, StreamTypes
    <3> QED
      BY <2>2, <3>1, <3>2, <3>3 DEF Fetch, serverVars, wireVars
  <2>5. CASE SendRequest \/ ReadAnswer
    BY <2>2, <2>5 DEF SendRequest, ReadAnswer, serverVars, wireVars, stockVars
  <2>6. CASE FetchError \/ FetchDeadline \/ CloseStream \/ Forget \/ LoseClient
    BY <2>6 DEF FetchError, FetchDeadline, CloseStream, Forget, Drop, LoseClient, Engaged
  <2>7. CASE StartHandler
    BY <2>2, <2>7 DEF StartHandler, clientVars, wireVars, stockVars
  <2>8. CASE ReadRequest
    <3>1. Len(Head(up)) <= Batch
      BY <1>2, <2>2, <2>3, <2>8 DEF ReadRequest, Quiet, InStep, Engaged
    <3>2. Len(Head(up)) \in Nat
      BY <1>2, <2>3, <2>8 DEF ReadRequest, Quiet, InStep, Engaged, StreamTypes
    <3>3. ~(Len(Head(up)) > MaxBatch)
      BY <3>1, <3>2, BatchAssumption
    <3> QED
      BY <2>2, <2>8, <3>3 DEF ReadRequest, clientVars, stockVars
  <2>9. CASE RequestEnd \/ ServeError
    BY <1>2, <2>2, <2>9 DEF RequestEnd, ServeError, Engaged
  <2>10. CASE \/ RequestIdle \/ ServeBlocked
              \/ LoseLink \/ LoseServer \/ AlterStock
    BY <1>2, <2>10 DEF RequestIdle, ServeBlocked, LoseLink, LoseServer,
                       AlterStock, Fault, Late, Engaged
  <2>11. CASE ServeBlock
    <3>1. client = "reading" /\ InStep
      BY <1>2, <2>2, <2>3, <2>11 DEF ServeBlock, Quiet
    <3>2. batch = asked /\ next \in 1 .. Len(asked)
      BY <2>2, <2>3, <2>11, <3>1 DEF ServeBlock, InStep, StreamTypes
    <3>3. stock[batch[next]] = "held"
      BY <2>2, <2>3, <3>2 DEF StreamTypes
    <3>4. Answer(Block(batch[next]))
      BY <2>11, <3>3 DEF ServeBlock
    <3>5. server' \in {"reading", "serving"} /\ UNCHANGED <<link, relayed>>
      BY <2>11, <3>4 DEF Answer, Answered, ServeBlock
    <3>6. UNCHANGED <<client, asked, seen>>
      BY <2>11 DEF ServeBlock, clientVars, stockVars
    <3> QED
      BY <2>2, <3>5, <3>6
  <2>12. CASE UNCHANGED streamVars
    BY <2>2, <2>12 DEF streamVars, clientVars, serverVars, wireVars, stockVars
  <2>13. CASE \E s \in Stocks, r \in BOOLEAN : OpenStream(s, r)
    BY <1>2, <2>13 DEF OpenStream, Engaged
  <2> QED
    BY <2>4, <2>5, <2>6, <2>7, <2>8, <2>9, <2>10, <2>11, <2>12, <2>13
    DEF StreamNext, ClientNext, ServerNext, WorldNext
<1>3. CASE ~Engaged
  <2>1. \/ \E s \in Stocks, r \in BOOLEAN : OpenStream(s, r)
        \/ UNCHANGED client
        \/ client' = "none"
    BY <1>3 DEF StreamNext, ClientNext, ServerNext, WorldNext, Fetch,
         SendRequest, ReadAnswer, FetchError, FetchDeadline, CloseStream, Forget,
         StartHandler, ReadRequest, RequestEnd, RequestIdle, ServeBlock,
         ServeError, ServeBlocked, LoseLink, LoseServer, LoseClient, AlterStock,
         Engaged, streamVars, clientVars
  <2> QED
    BY <1>1, <1>3, <2>1 DEF Engaged
<1> QED
  BY <1>2, <1>3

-----------------------------------------------------------------------------
(* The Hub's turn comes only with cause                                    *)

Placed == puller = "record" => blob = "whole"

(* The candidates before the current one are excused or were kept waiting, *)
(* and a Fetch of this one failed only with a fault or for that reason.    *)
Causes ==
    /\ puller \in OnPeer => 1 .. (k - 1) \subseteq excused \cup tardy
    /\ puller \in OnHub => 1 .. cands \subseteq excused \cup tardy
    /\ puller \in OnStream => client \in {"idle", "sending", "reading", "closed"}
    /\ puller \in OnStream /\ client = "closed" => fault \/ idled

(* What is in the temporary file is the beginning of the offered file, and *)
(* what is asked for is what comes next.                                   *)
Progress ==
    /\ puller \in {"map", "root", "rooted", "file"} => written = <<>>
    /\ puller \in OnPeer =>
         /\ Len(written) <= Len(Leaves)
         /\ \A i \in 1 .. Len(written) : written[i] = Leaves[i]
    /\ puller = "rooted" /\ Engaged => asked = <<Root>>
    /\ puller = "chunks" /\ Engaged => asked = NextBatch /\ Len(written) < Len(Leaves)

CauseInv == PartsInv /\ Returned /\ Healthy /\ Causes /\ Progress /\ Placed

(* Without either, and with the right file on offer, every answer can be   *)
(* used and the file is verified.                                          *)
LEMMA NoCauseUsable ==
    ASSUME CauseInv, client = "idle", ~fault, ~idled, puller \in OnStream, Leaves = Content
    PROVE  ~Unusable
<1>1. /\ Leaves \in Seq(Cids) /\ Root \in Cids /\ written \in Seq(Cids)
      /\ out \in Seq(Frames) /\ asked \in Seq(Cids)
  BY OfferTypes DEF CauseInv, PartsInv, PullTypes, OnPeer, Aligned, Engaged, StreamTypes
<1>2. ASSUME asked # <<>>
      PROVE  /\ Len(out) = Len(asked)
             /\ \A i \in 1 .. Len(asked) : out[i] = Block(asked[i])
  <2>1. Len(out) = Len(asked) /\ \A i \in 1 .. Len(asked) : Fits(out[i], i)
    BY <1>2 DEF CauseInv, Returned
  <2>2. \A c \in Cids : seen[c] \subseteq {"held"}
    BY DEF CauseInv, Healthy, Engaged
  <2>3. ASSUME NEW i \in 1 .. Len(asked) PROVE out[i] = Block(asked[i])
    <3>1. out[i] \in Answers(asked[i], seen[asked[i]]) /\ asked[i] \in Cids
      BY <1>1, <2>1 DEF Fits
    <3>2. "absent" \notin seen[asked[i]]
      BY <2>2, <3>1
    <3> QED
      BY <3>1, <3>2 DEF Answers, Promise!Answers, Block
  <2> QED
    BY <2>1, <2>3
<1>3. CASE puller = "rooted"
  <2>1. asked = <<Root>>
    BY <1>3 DEF CauseInv, Progress, Engaged
  <2>2. Len(out) = 1 /\ out[1] = Block(Root)
    BY <1>1, <1>2, <2>1
  <2> QED
    BY <1>1, <1>3, <2>2 DEF Unusable
<1>4. CASE puller = "chunks"
  <2>1. asked = NextBatch /\ NextBatch \in Batches
    BY <1>4, BatchFits DEF CauseInv, PartsInv, Progress, Engaged, OnPeer
  <2>2. asked # <<>>
    BY <2>1 DEF Batches, Promise!Batches
  <2> QED
    BY <1>2, <1>4, <2>2 DEF Unusable
<1>5. CASE puller = "batch"
  <2> SUFFICES ASSUME Len(written) = Len(Leaves) PROVE written = Leaves
    BY <1>5 DEF Unusable, Verified
  <2>1. \A i \in 1 .. Len(written) : written[i] = Leaves[i]
    BY <1>5 DEF CauseInv, Progress, OnPeer
  <2> QED
    BY <1>1, <2>1
<1> QED
  BY <1>3, <1>4, <1>5 DEF Unusable

(* No candidate has been left at first.                                    *)
LEMMA CauseInit == Init => CauseInv
<1> SUFFICES ASSUME Init PROVE CauseInv
  OBVIOUS
<1>1. Returned /\ Healthy /\ Causes /\ Progress /\ Placed
  BY DEF Init, StreamInit, Returned, Healthy, Engaged, Causes, Progress,
         Placed, OnPeer, OnStream, OnHub
<1> QED
  BY <1>1, PartsInit DEF CauseInv

(* What goes on beside the pull keeps the batch while there is a call, and *)
(* ends the call only with a fault, or when it came too late.              *)
LEMMA BesideCall ==
    ASSUME Aligned, Healthy, StreamBeside, client \notin {"none", "lost"},
           client = "closed" => fault \/ idled
    PROVE  /\ client' \notin {"none", "lost"}
           /\ Engaged' => Engaged /\ asked' = asked
           /\ client' = "closed" => fault' \/ idled'
           /\ Engaged \/ client = "closed"
             => client' \in {"idle", "sending", "reading", "closed"}
<1>1. CASE SendRequest
  BY <1>1 DEF SendRequest, Engaged
<1>2. CASE ReadAnswer
  BY <1>2 DEF ReadAnswer, Engaged
<1>3. CASE FetchError
  <2>1. fault \/ idled
    BY <1>3 DEF FetchError, Healthy, Engaged
  <2> QED
    BY <1>3, <2>1 DEF FetchError, Drop, faultVars, Engaged
<1>4. CASE FetchDeadline
  BY <1>4 DEF FetchDeadline, Drop, Late, Engaged
<1>5. CASE ServerNext \/ LoseLink \/ LoseServer \/ AlterStock
  <2>1. UNCHANGED clientVars
    BY <1>5 DEF ServerNext, LoseLink, LoseServer, AlterStock, StartHandler,
                ReadRequest, RequestEnd, RequestIdle, ServeBlock, ServeError,
                ServeBlocked
  <2>2. client = "closed" => (fault => fault') /\ (idled => idled')
    BY <1>5 DEF ServerNext, LoseLink, LoseServer, AlterStock, StartHandler,
                ReadRequest, RequestEnd, RequestIdle, ServeBlock, ServeError,
                ServeBlocked, Fault, Late, Ended, faultVars
  <2> QED
    BY <2>1, <2>2 DEF clientVars, Engaged
<1> QED
  BY <1>1, <1>2, <1>3, <1>4, <1>5 DEF StreamBeside, FetchWork

(* A candidate is left only with an excuse.                                *)
LEMMA CausesStep == CauseInv /\ [Next]_vars => Causes'
<1> SUFFICES ASSUME CauseInv, [Next]_vars PROVE Causes'
  OBVIOUS
<1> USE DEF OnPeer, OnStream, OnHub
<1>0. Causes /\ k \in Nat \ {0} /\ cands \in Nat /\ PullTypes
  BY OfferAssumption DEF CauseInv, PartsInv, PullTypes
<1>1. CASE StartPull
  <2>1. k' = 1 /\ puller' \in {"map", "hub", "failed"}
    BY <1>1 DEF StartPull, Fallback
  <2>2. puller' = "hub" => cands' = 0
    BY <1>1 DEF StartPull, Fallback
  <2> QED
    BY <2>1, <2>2 DEF Causes
<1>2. ASSUME NEW w, NextCandidate(w), puller \in OnPeer, w \/ idled PROVE Causes'
  <2>1. /\ excused' \cup tardy' = excused \cup tardy \cup {k}
        /\ k' = k + 1 /\ cands' = cands
        /\ puller' \in {"map", "hub", "failed"}
        /\ puller' = "hub" => k = cands
    BY <1>2 DEF NextCandidate, Fallback
  <2>2. 1 .. (k - 1) \subseteq excused \cup tardy
    BY <1>0, <1>2 DEF Causes
  <2>3. 1 .. k \subseteq excused' \cup tardy'
    BY <1>0, <2>1, <2>2
  <2> QED
    BY <1>0, <2>1, <2>3 DEF Causes
<1>3. CASE MapRefused
  BY <1>2, <1>3 DEF MapRefused
<1>4. CASE DiskError
  BY <1>2, <1>4 DEF DiskError
<1>5. CASE StreamFailed
  <2>1. puller \in OnStream /\ client = "closed" /\ (fault \/ idled) /\ NextCandidate(fault)
    BY <1>0, <1>5 DEF StreamFailed, Causes
  <2> QED
    BY <1>2, <2>1
<1>6. CASE Rollback
  <2>1. puller \in OnStream /\ client = "idle" /\ Unusable
    BY <1>6 DEF Rollback, Unusable
  <2>2. (fault \/ Leaves # Content) \/ idled
    BY <2>1, NoCauseUsable
  <2> QED
    BY <1>2, <1>6, <2>1, <2>2 DEF Rollback
<1>7. CASE MapAnswered
  BY <1>0, <1>7 DEF MapAnswered, OpenStream, Step, Causes
<1>8. CASE RootLocal \/ KeepRoot \/ CreateTemp \/ WriteChunks
  BY <1>0, <1>8 DEF RootLocal, KeepRoot, CreateTemp, WriteChunks, Step, Causes,
                    streamVars, clientVars, faultVars
<1>9. CASE FetchRoot \/ FetchBatch
  BY <1>0, <1>9 DEF FetchRoot, FetchBatch, Fetch, Step, Causes
<1>10. CASE BlobCached \/ PlaceBlob
  BY <1>0, <1>10 DEF BlobCached, PlaceBlob, Step, Causes
<1>11. CASE Record
  BY <1>0, <1>11 DEF Record, Step, Causes, Fallback
<1>12. CASE HubManifest \/ HubCached \/ HubRequest \/ HubReject
  BY <1>0, <1>12 DEF HubManifest, HubCached, HubRequest, HubReject, Step, Causes
<1>13. CASE HubPlace \/ Crash
  BY <1>0, <1>13 DEF HubPlace, Crash, Causes
<1>14. CASE StreamOver
  BY <1>0, <1>14 DEF StreamOver, Causes, pullVars
<1>15. CASE StreamBeside
  <2>1. UNCHANGED <<puller, k, cands, excused, tardy>>
    BY <1>15 DEF StreamBeside, pullVars
  <2>2. CASE puller \in OnStream
    <3>1. client \notin {"none", "lost"} /\ (client = "closed" => fault \/ idled)
      BY <1>0, <2>2 DEF Causes
    <3>2. /\ client' \in {"idle", "sending", "reading", "closed"}
          /\ client' = "closed" => fault' \/ idled'
      BY <1>0, <1>15, <2>2, <3>1, BesideCall DEF CauseInv, PartsInv, Causes, Engaged
    <3> QED
      BY <1>0, <2>1, <3>2 DEF Causes
  <2>3. CASE puller \notin OnStream
    BY <1>0, <2>1, <2>3 DEF Causes
  <2> QED
    BY <2>2, <2>3
<1>16. CASE ServerSends \/ HubBeside \/ UNCHANGED vars
  BY <1>0, <1>16 DEF ServerSends, HubBeside, vars, Causes, pullVars, streamVars,
                     clientVars, faultVars
<1> QED
  BY <1>1, <1>3, <1>4, <1>5, <1>6, <1>7, <1>8, <1>9, <1>10, <1>11, <1>12,
     <1>13, <1>14, <1>15, <1>16 DEF Next, PullWork

(* Without a fault what is written is a prefix of the offer.               *)
LEMMA ProgressStep == CauseInv /\ [Next]_vars => Progress'
<1> SUFFICES ASSUME CauseInv, [Next]_vars PROVE Progress'
  OBVIOUS
<1> USE DEF OnPeer, OnStream
<1>0. Progress /\ Causes /\ PullTypes /\ PullTypes'
  BY PullTypesStep DEF CauseInv, PartsInv
<1>1. ASSUME written' = <<>>, puller' \in OnPeer => puller' \in {"map", "root"}
      PROVE  Progress'
  <2>1. puller' \in OnPeer => Leaves' \in Seq(Cids)
    <3> SUFFICES ASSUME puller' \in OnPeer PROVE Leaves' \in Seq(Cids)
      OBVIOUS
    <3>1. k' \in 1 .. Len(Offers)
      BY <1>0, OfferAssumption DEF PullTypes
    <3> QED
      BY <3>1, OfferAssumption DEF Leaves
  <2> QED
    BY <1>1, <2>1 DEF Progress
<1>2. CASE \/ StartPull \/ MapRefused \/ Rollback \/ DiskError \/ StreamFailed
           \/ Crash
  BY <1>1, <1>2 DEF StartPull, MapRefused, Rollback, DiskError, StreamFailed,
                    NextCandidate, Fallback, Crash
<1>3. CASE MapAnswered
  BY <1>0, <1>1, <1>3 DEF MapAnswered, Step, Progress
<1>4. CASE RootLocal \/ CreateTemp \/ KeepRoot
  BY <1>0, <1>4 DEF RootLocal, CreateTemp, KeepRoot, Step, Progress, Leaves
<1>5. CASE FetchRoot
  BY <1>0, <1>5 DEF FetchRoot, Fetch, Step, Progress, Leaves, Root
<1>6. CASE FetchBatch
  BY <1>0, <1>6 DEF FetchBatch, Fetch, Step, Progress, Leaves, NextBatch
<1>7. CASE WriteChunks
  <2>1. /\ puller = "chunks" /\ client = "idle" /\ Engaged /\ puller' = "batch"
        /\ written' = written \o asked /\ k' = k
    BY <1>7 DEF WriteChunks, Engaged
  <2>2. /\ asked = NextBatch /\ Len(written) < Len(Leaves)
        /\ \A i \in 1 .. Len(written) : written[i] = Leaves[i]
    BY <1>0, <2>1 DEF Progress
  <2>3. /\ asked \in Seq(Cids) /\ written \in Seq(Cids) /\ Leaves \in Seq(Cids)
        /\ Len(written) + Len(asked) <= Len(Leaves)
        /\ \A i \in 1 .. Len(asked) : asked[i] = Leaves[Len(written) + i]
    BY <1>0, <2>1, <2>2, BatchFits, OfferTypes
    DEF PullTypes, Batches, Promise!Batches
  <2>4. /\ Len(written') = Len(written) + Len(asked)
        /\ \A i \in 1 .. Len(written) : written'[i] = written[i]
        /\ \A i \in 1 .. Len(asked) : written'[Len(written) + i] = asked[i]
    BY <2>1, <2>3
  <2>5. ASSUME NEW i \in 1 .. Len(written') PROVE written'[i] = Leaves[i]
    <3>1. CASE i <= Len(written)
      BY <2>2, <2>3, <2>4, <3>1
    <3>2. CASE i > Len(written)
      <4>1. i - Len(written) \in 1 .. Len(asked) /\ Len(written) + (i - Len(written)) = i
        BY <2>3, <2>4, <3>2
      <4> QED
        BY <2>3, <2>4, <4>1
    <3> QED
      BY <2>3, <3>1, <3>2
  <2> QED
    BY <2>1, <2>3, <2>4, <2>5 DEF Progress, Leaves
<1>8. CASE \/ BlobCached \/ PlaceBlob \/ Record \/ HubManifest \/ HubCached
           \/ HubRequest \/ HubReject \/ HubPlace
  BY <1>8 DEF BlobCached, PlaceBlob, Record, Fallback, HubManifest, HubCached,
              HubRequest, HubReject, HubPlace, Step, Progress
<1>9. CASE StreamBeside
  <2>1. UNCHANGED <<puller, k, written>>
    BY <1>9 DEF StreamBeside, pullVars
  <2>2. CASE puller \in OnStream
    <3>1. client \notin {"none", "lost"} /\ (client = "closed" => fault \/ idled)
      BY <1>0, <2>2 DEF Causes
    <3>2. Engaged' => Engaged /\ asked' = asked
      BY <1>0, <1>9, <3>1, BesideCall DEF CauseInv, PartsInv
    <3> QED
      BY <1>0, <2>1, <3>2 DEF Progress, Root, Leaves, NextBatch
  <2>3. CASE puller \notin OnStream
    BY <1>0, <2>1, <2>3 DEF Progress, Leaves
  <2> QED
    BY <2>2, <2>3
<1>10. CASE StreamOver
  BY <1>0, <1>10 DEF StreamOver, pullVars, Progress, Leaves
<1>11. CASE ServerSends \/ HubBeside \/ UNCHANGED vars
  BY <1>0, <1>11 DEF ServerSends, HubBeside, vars, Progress, pullVars, streamVars,
                     clientVars, Engaged, Root, Leaves, NextBatch
<1> QED
  BY <1>2, <1>3, <1>4, <1>5, <1>6, <1>7, <1>8, <1>9, <1>10, <1>11 DEF Next, PullWork

(* What is placed is the whole file.                                       *)
LEMMA PlacedStep == CauseInv /\ [Next]_vars => Placed'
<1> SUFFICES ASSUME Placed, [Next]_vars PROVE Placed'
  BY DEF CauseInv
<1>1. CASE BlobCached \/ PlaceBlob
  BY <1>1 DEF BlobCached, PlaceBlob, Step, Verified, Placed
<1>2. CASE \/ StartPull \/ MapRefused \/ MapAnswered \/ RootLocal \/ FetchRoot
           \/ KeepRoot \/ CreateTemp \/ FetchBatch \/ WriteChunks \/ Record
           \/ Rollback \/ DiskError \/ StreamFailed \/ HubManifest \/ HubCached
           \/ HubRequest \/ HubPlace \/ HubReject \/ Crash
  BY <1>2 DEF StartPull, MapRefused, MapAnswered, RootLocal, FetchRoot,
              KeepRoot, CreateTemp, FetchBatch, WriteChunks, Record,
              Rollback, DiskError, StreamFailed, HubManifest, HubCached,
              HubRequest, HubPlace, HubReject, Crash,
              NextCandidate, Step, Fallback, Placed
<1>3. CASE StreamOver \/ StreamBeside \/ ServerSends \/ HubBeside \/ UNCHANGED vars
  BY <1>3 DEF StreamOver, StreamBeside, ServerSends, HubBeside, vars, pullVars, Placed
<1> QED
  BY <1>1, <1>2, <1>3 DEF Next, PullWork

(* CauseInv is inductive.                                                  *)
LEMMA CauseStep == CauseInv /\ [Next]_vars => CauseInv'
<1> SUFFICES ASSUME CauseInv, [Next]_vars PROVE CauseInv'
  OBVIOUS
<1>1. Aligned /\ Returned /\ Healthy /\ [StreamNext]_streamVars
  BY StreamPart DEF CauseInv, PartsInv
<1>2. Returned' /\ Healthy'
  BY <1>1, ReturnedStep, HealthyStep
<1> QED
  BY <1>2, PartsStep, CausesStep, ProgressStep, PlacedStep DEF CauseInv

(* CauseInv holds of every reachable state of a pull, crashes and further  *)
(* runs included.                                                          *)
THEOREM CausesHold == Spec => []CauseInv
  BY CauseInit, CauseStep, PTL DEF Spec

(* For every file, every number of candidates and whatever they offer: the *)
(* Hub is asked only when with each of them something went wrong that is   *)
(* not the doing of the two programs, or this puller kept its handler      *)
(* waiting beyond blockIdleTimeout.  That is all the two programs can do   *)
(* to each other.                                                          *)
THEOREM HubOnlyWithCause == Spec => []FallbackHasCause
<1>1. CauseInv => FallbackHasCause
  BY DEF CauseInv, Causes, FallbackHasCause
<1> QED
  BY <1>1, CausesHold, PTL

(* Under the blob's name nothing appears but the whole file, and a pull    *)
(* that reports success leaves it there, but for the Hub's size check.     *)
THEOREM PullPlacesWholeBlobs == Spec => OnlyWholeBlobs
<1> DEFINE A == /\ blob' # blob => blob' = "whole"
                /\ puller' = "done" /\ puller # "done" =>
                     blob' = "whole" \/ (puller = "hubfile" /\ blob = "wrong")
<1>1. ASSUME CauseInv, [Next]_vars PROVE A \/ UNCHANGED vars
  <2>1. Placed
    BY <1>1 DEF CauseInv
  <2>2. CASE PlaceBlob \/ HubPlace
    BY <2>2 DEF PlaceBlob, HubPlace, Verified, Accepted
  <2>3. CASE Record
    BY <2>1, <2>3 DEF Record, Step, Fallback, Placed
  <2>4. CASE HubCached
    BY <2>4 DEF HubCached, Step
  <2>5. CASE \/ StartPull \/ MapRefused \/ MapAnswered \/ RootLocal \/ FetchRoot
             \/ KeepRoot \/ BlobCached \/ CreateTemp \/ FetchBatch \/ WriteChunks
             \/ Rollback \/ DiskError \/ StreamFailed \/ HubManifest
             \/ HubRequest \/ HubReject \/ Crash
    BY <2>5 DEF StartPull, MapRefused, MapAnswered, RootLocal, FetchRoot,
                KeepRoot, BlobCached, CreateTemp, FetchBatch, WriteChunks,
                Rollback, DiskError, StreamFailed, HubManifest, HubRequest,
                HubReject, Crash, NextCandidate, Step, Fallback
  <2>6. CASE StreamOver \/ StreamBeside \/ ServerSends \/ HubBeside
    BY <2>6 DEF StreamOver, StreamBeside, ServerSends, HubBeside, pullVars
  <2> QED
    BY <1>1, <2>2, <2>3, <2>4, <2>5, <2>6 DEF Next, PullWork
<1>2. CauseInv /\ [Next]_vars => [A]_vars
  BY <1>1
<1> QED
  BY <1>2, CausesHold, PTL DEF Spec, OnlyWholeBlobs

=============================================================================
