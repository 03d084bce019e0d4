---------------------------- MODULE BlockStream ----------------------------
(***************************************************************************)
(* One /hf-ipfs/block/1.0.0 stream: blockClient at the puller's end,       *)
(* handleBlocks at the peer's.  Neither end numbers its frames: the client *)
(* takes the n-th frame for the answer to the n-th CID of its batch.  Both *)
(* ends have deadlines, the stream may be reset, either process may vanish *)
(* without a word, and the peer's store changes while it answers.          *)
(*                                                                         *)
(* Frames are whole: protoio writes a length and a payload, and a frame    *)
(* that is cut short is read as the end of the stream.  A deadline may     *)
(* expire whenever the operation it guards has not finished.               *)
(***************************************************************************)
EXTENDS Naturals, Sequences

CONSTANTS
    Cids,
    Batch,       \* BatchSize, the longest batch the client asks for
    MaxBatch,    \* maxBlockBatch, the longest the server answers
    Window,      \* frames the transport takes before a write blocks
    RelayBulk,   \* the peer runs with --relay-bulk
    Stocks,      \* what peers have when a stream to them is opened
    MaxFaults    \* bound on losses and on changes of the peer's store

VARIABLES
    client,  \* "none", "idle", "sending", "reading", "closed", "lost"
    asked,   \* the batch of the current or last Fetch
    out,     \* the answers it has so far
    up,      \* request frames on their way to the server
    down,    \* answer frames on their way to the client
    link,    \* "up" or "reset"
    server,  \* "none", "start", "reading", "serving", "gone", "lost"
    batch,   \* the request being answered
    next,    \* the place in it of the CID to answer next
    relayed, \* the connection goes through a circuit relay
    stock,   \* what the peer has for every CID
    seen,    \* what it had since the Fetch began (history)
    fault,   \* something other than the two programs went wrong (history)
    idled,   \* the handler gave a client up that is still there (history)
    faults   \* losses and changes so far, over all streams

clientVars == <<client, asked, out>>
serverVars == <<server, batch, next>>
wireVars   == <<up, down, link, relayed>>
stockVars  == <<stock, seen>>
faultVars  == <<fault, idled, faults>>
streamVars == <<clientVars, serverVars, wireVars, stockVars, faultVars>>

Promise == INSTANCE BlockFetch WITH
    MaxCall <- Batch,
    open    <- client \in {"idle", "sending", "reading"},
    call    <- IF client \in {"sending", "reading"} THEN asked ELSE <<>>,
    result  <- IF client = "idle" THEN out ELSE <<>>

Holdings      == Promise!Holdings
Block(c)      == Promise!Block(c)
Missing       == Promise!Missing
Frames        == Promise!Frames
Answers(c, H) == Promise!Answers(c, H)
Batches       == Promise!Batches

ASSUME BatchAssumption  == Batch \in Nat \ {0} /\ MaxBatch \in Nat /\ Batch <= MaxBatch
ASSUME WindowAssumption == Window \in Nat \ {0}
ASSUME StockAssumption  == Stocks \subseteq [Cids -> Holdings]
ASSUME FaultAssumption  == MaxFaults \in Nat /\ RelayBulk \in BOOLEAN

Fault == faults < MaxFaults /\ faults' = faults + 1 /\ fault' = TRUE /\ UNCHANGED idled
Late  == fault' = TRUE /\ UNCHANGED <<idled, faults>>

NoStock  == [c \in Cids |-> "absent"]
NoneSeen == [c \in Cids |-> {}]

Ended == {"none", "gone", "lost"}

StreamInit ==
    /\ client = "none" /\ asked = <<>> /\ out = <<>>
    /\ up = <<>> /\ down = <<>> /\ link = "reset" /\ relayed = FALSE
    /\ server = "none" /\ batch = <<>> /\ next = 1
    /\ stock = NoStock /\ seen = NoneSeen
    /\ fault = FALSE /\ idled = FALSE /\ faults = 0

-----------------------------------------------------------------------------
(* The client                                                              *)

(* newBlockClient.                                                         *)
OpenStream(s, r) ==
    /\ client = "none"
    /\ client' = "idle" /\ asked' = <<>> /\ out' = <<>>
    /\ up' = <<>> /\ down' = <<>> /\ link' = "up" /\ relayed' = r
    /\ server' = "start" /\ batch' = <<>> /\ next' = 1
    /\ stock' = s /\ seen' = [c \in Cids |-> {s[c]}]
    /\ fault' = ((r /\ ~RelayBulk) \/ \E c \in Cids : s[c] # "held")
    /\ idled' = FALSE /\ UNCHANGED faults

(* Fetch: the deadline is set, then the batch is written as one frame.     *)
Fetch(b) ==
    /\ client = "idle" /\ Len(b) > 0
    /\ client' = "sending" /\ asked' = b /\ out' = <<>>
    /\ seen' = [c \in Cids |-> {stock[c]}]
    /\ UNCHANGED <<serverVars, wireVars, stock, faultVars>>

SendRequest ==
    /\ client = "sending" /\ link = "up"
    /\ client' = "reading" /\ up' = Append(up, asked)
    /\ UNCHANGED <<asked, out, serverVars, down, link, relayed, stockVars, faultVars>>

(* ReadFrame: the next frame is the answer to the next CID.                *)
ReadAnswer ==
    /\ client = "reading" /\ down # <<>>
    /\ out' = Append(out, Head(down)) /\ down' = Tail(down)
    /\ client' = IF Len(out) + 1 = Len(asked) THEN "idle" ELSE "reading"
    /\ UNCHANGED <<asked, serverVars, up, link, relayed, stockVars, faultVars>>

(* Any error ends the use of this peer: every caller returns it up to      *)
(* reconstruct, whose deferred Close drops the stream.                     *)
Drop == /\ client' = "closed" /\ asked' = <<>> /\ out' = <<>>
        /\ UNCHANGED <<serverVars, wireVars, stockVars>>

FetchError == /\ \/ client = "sending" /\ link = "reset"
                 \/ client = "reading" /\ down = <<>>
                      /\ (link = "reset" \/ server = "gone")
              /\ Drop /\ UNCHANGED faultVars

(* Mutant: the batch is asked for again on the same stream.                *)
FetchDeadlineRetry == /\ client \in {"sending", "reading"}
                      /\ client' = "sending" /\ out' = <<>>
                      /\ UNCHANGED <<asked, serverVars, wireVars, stockVars>>
                      /\ Late

(* Mutant: the stream has no deadline.                                     *)
FetchDeadlineNever == FALSE

FetchDeadline == client \in {"sending", "reading"} /\ Drop /\ Late

(* reconstruct returns: it has what it came for, or cannot use an answer.  *)
CloseStream == client = "idle" /\ Drop /\ UNCHANGED faultVars

(* Both ends are done with the stream.  A handler that outlives its client *)
(* has nothing in common with what the client does next, and its last      *)
(* steps commute with that: the model has them first.                      *)
Forget ==
    /\ client \in {"closed", "lost"} /\ server \in Ended
    /\ client' = "none" /\ asked' = <<>> /\ out' = <<>>
    /\ up' = <<>> /\ down' = <<>> /\ link' = "reset" /\ relayed' = FALSE
    /\ server' = "none" /\ batch' = <<>> /\ next' = 1
    /\ stock' = NoStock /\ seen' = NoneSeen
    /\ fault' = FALSE /\ idled' = FALSE /\ UNCHANGED faults

-----------------------------------------------------------------------------
(* The server                                                              *)

ResetStream == link' = "reset" /\ up' = <<>> /\ down' = <<>> /\ UNCHANGED relayed
Gone        == server' = "gone" /\ batch' = <<>> /\ next' = 1

(* handleBlocks refuses a relayed stream unless --relay-bulk is given.     *)
StartHandler ==
    /\ server = "start"
    /\ IF relayed /\ ~RelayBulk
         THEN ResetStream /\ Gone
         ELSE server' = "reading" /\ UNCHANGED <<batch, next, wireVars>>
    /\ UNCHANGED <<clientVars, stockVars, faultVars>>

ReadRequest ==
    /\ server = "reading" /\ up # <<>>
    /\ IF Len(Head(up)) > MaxBatch
         THEN ResetStream /\ Gone
         ELSE /\ server' = "serving" /\ batch' = Head(up) /\ next' = 1
              /\ up' = Tail(up) /\ UNCHANGED <<down, link, relayed>>
    /\ UNCHANGED <<clientVars, stockVars, faultVars>>

(* The end of the stream, or a reset, while waiting for a request.         *)
RequestEnd ==
    /\ server = "reading" /\ up = <<>> /\ (client = "closed" \/ link = "reset")
    /\ Gone /\ UNCHANGED <<clientVars, wireVars, stockVars, faultVars>>

(* blockIdleTimeout.  It is armed again for every request.  A client that  *)
(* is gone lets it expire, and so does one that sits between two Fetches:  *)
(* a puller that hashes a large blob it has already.                       *)
RequestIdle ==
    /\ server = "reading"
    /\ Gone /\ UNCHANGED <<clientVars, wireVars, stockVars>>
    /\ IF client \in {"closed", "lost"}
         THEN UNCHANGED faultVars
         ELSE idled' = TRUE /\ UNCHANGED <<fault, faults>>

Answered == IF next = Len(batch) THEN server' = "reading" /\ batch' = <<>> /\ next' = 1
                                 ELSE next' = next + 1 /\ UNCHANGED <<server, batch>>

Answer(f) == down' = Append(down, f) /\ Answered /\ UNCHANGED <<up, link, relayed>>

(* One pass of the loop over the batch: the filestore is read, and a frame *)
(* written.  A read failure resets the stream; WriteFrame refuses a block  *)
(* over the frame limit, and the handler returns.                          *)
ServeBlock ==
    /\ server = "serving" /\ link = "up" /\ Len(down) < Window
    /\ CASE stock[batch[next]] = "held"   -> Answer(Block(batch[next]))
         [] stock[batch[next]] = "absent" -> Answer(Missing)
         [] stock[batch[next]] = "broken" -> ResetStream /\ Gone
         [] stock[batch[next]] = "large"  -> Gone /\ UNCHANGED wireVars
    /\ UNCHANGED <<clientVars, stockVars, faultVars>>

(* A write that meets a reset stream.                                      *)
ServeError ==
    /\ server = "serving" /\ link = "reset"
    /\ Gone /\ UNCHANGED <<clientVars, wireVars, stockVars, faultVars>>

(* Mutant: writes have no deadline.                                        *)
ServeBlockedForever == FALSE

(* blockWriteTimeout: the client does not read, and the window is full.    *)
ServeBlocked ==
    /\ server = "serving" /\ link = "up" /\ Len(down) >= Window
    /\ Gone /\ UNCHANGED <<clientVars, wireVars, stockVars>>
    /\ IF client \in {"closed", "lost"} THEN UNCHANGED faultVars ELSE Late

-----------------------------------------------------------------------------
(* The world                                                               *)

(* The connection breaks; what was on its way is lost.                     *)
LoseLink == /\ link = "up" /\ client # "none"
            /\ ResetStream /\ Fault
            /\ UNCHANGED <<clientVars, serverVars, stockVars>>

(* The peer's machine stops answering; nothing tells the client.           *)
LoseServer == /\ server \notin Ended /\ server' = "lost" /\ Fault
              /\ UNCHANGED <<clientVars, batch, next, wireVars, stockVars>>

(* The client's process dies: the kernel resets its connections, or the    *)
(* machine is gone and nothing tells the server.                           *)
LoseClient == /\ client \in {"idle", "sending", "reading"}
              /\ client' = "lost" /\ asked' = <<>> /\ out' = <<>>
              /\ ResetStream \/ UNCHANGED wireVars
              /\ UNCHANGED <<serverVars, stockVars, faultVars>>

(* The peer ingests, evicts, or a user changes its hub cache.              *)
AlterStock == \E c \in Cids, h \in Holdings :
                /\ client \in {"idle", "sending", "reading"} /\ stock[c] # h
                /\ stock' = [stock EXCEPT ![c] = h]
                /\ seen'  = [seen EXCEPT ![c] = @ \cup {h}]
                /\ Fault
                /\ UNCHANGED <<clientVars, serverVars, wireVars>>

ClientNext == \/ \E s \in Stocks, r \in BOOLEAN : OpenStream(s, r)
              \/ \E b \in Batches : Fetch(b)
              \/ SendRequest \/ ReadAnswer \/ FetchError \/ FetchDeadline
              \/ CloseStream \/ Forget
ServerNext == \/ StartHandler \/ ReadRequest \/ RequestEnd \/ RequestIdle
              \/ ServeBlock \/ ServeError \/ ServeBlocked
WorldNext  == LoseLink \/ LoseServer \/ LoseClient \/ AlterStock

StreamNext == ClientNext \/ ServerNext \/ WorldNext

StreamSpec == StreamInit /\ [][StreamNext]_streamVars
=============================================================================
