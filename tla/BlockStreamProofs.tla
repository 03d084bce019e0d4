------------------------- MODULE BlockStreamProofs -------------------------
(***************************************************************************)
(* A block stream keeps the promise of BlockFetch, for every set of CIDs,  *)
(* every batch size up to the server's limit, every window, any number of  *)
(* faults and any peer.  The frames carry no numbers, so what has to be    *)
(* invariant is the alignment of the two ends: which answers the client    *)
(* has, which are on their way, and where the handler is in the batch.     *)
(***************************************************************************)
EXTENDS BlockStream, TLAPS

Engaged == client \in {"idle", "sending", "reading"}

(* f is a true answer to the i-th CID of the batch.                        *)
Fits(f, i) == f \in Answers(asked[i], seen[asked[i]])

StreamTypes ==
    /\ link \in {"up", "reset"}
    /\ stock \in [Cids -> Holdings] /\ seen \in [Cids -> SUBSET Holdings]
    /\ \A c \in Cids : stock[c] \in seen[c]
    /\ asked \in Seq(Cids) /\ out \in Seq(Frames) /\ down \in Seq(Frames)

(* Between calls nothing is on its way, and the handler is not in the      *)
(* middle of a batch, unless the stream is reset and it has yet to notice. *)
Quiet ==
    /\ link = "reset" => up = <<>> /\ down = <<>>
    /\ client # "reading" => up = <<>> /\ down = <<>>
    /\ client # "reading" /\ link = "up" => server # "serving"
    /\ client = "sending" => out = <<>> /\ 0 < Len(asked)

(* During a call the answers the client has, then those on their way, then *)
(* the handler's place, follow each other in the batch without a gap.      *)
InStep ==
    /\ Len(out) < Len(asked) /\ Len(out) + Len(down) <= Len(asked)
    /\ \A i \in 1 .. Len(out)  : Fits(out[i], i)
    /\ \A i \in 1 .. Len(down) : Fits(down[i], Len(out) + i)
    /\ up # <<>> => /\ up = <<asked>> /\ out = <<>> /\ down = <<>>
                    /\ server # "serving"
    /\ server = "serving" /\ link = "up" =>
          /\ batch = asked
          /\ next = Len(out) + Len(down) + 1 /\ next <= Len(batch)

Aligned == Engaged => /\ StreamTypes /\ Quiet
                      /\ client = "reading" => InStep

-----------------------------------------------------------------------------
(* Facts about answers                                                     *)

(* What is true of some holdings is true of more of them.                  *)
LEMMA AnswersGrow ==
    ASSUME NEW c, NEW H, NEW G, H \subseteq G
    PROVE  Answers(c, H) \subseteq Answers(c, G)
  BY DEF Answers, Promise!Answers

(* What the handler writes for a CID is true of what the peer has.         *)
LEMMA AnswerHeld ==
    ASSUME NEW c \in Cids, NEW H
    PROVE  /\ "held" \in H => Block(c) \in Answers(c, H)
           /\ "absent" \in H => Missing \in Answers(c, H)
  BY DEF Answers, Promise!Answers, Block, Missing

(* What the handler answers to a CID is a frame.                           *)
LEMMA AnswerFrames ==
    /\ \A c \in Cids : Block(c) \in Frames
    /\ Missing \in Frames
  BY DEF Block, Missing, Frames, Promise!Frames

-----------------------------------------------------------------------------
(* The two ends stay aligned                                               *)

(* Before the first stream is opened nothing is on its way.                *)
LEMMA AlignedInit == StreamInit => Aligned
  BY DEF StreamInit, Aligned, Engaged

(* Steps of the client.                                                    *)
LEMMA AlignedClient == Aligned /\ ClientNext => Aligned'
<1> SUFFICES ASSUME Aligned, ClientNext PROVE Aligned'
  OBVIOUS
<1>1. ASSUME NEW s \in Stocks, NEW r \in BOOLEAN, OpenStream(s, r) PROVE Aligned'
  <2>1. s \in [Cids -> Holdings]
    BY StockAssumption
  <2>2. StreamTypes'
    BY <1>1, <2>1 DEF OpenStream, StreamTypes
  <2>3. Quiet' /\ client' = "idle"
    BY <1>1 DEF OpenStream, Quiet
  <2> QED
    BY <2>2, <2>3 DEF Aligned
<1>2. ASSUME NEW b \in Batches, Fetch(b) PROVE Aligned'
  <2>1. b \in Seq(Cids)
    BY DEF Batches, Promise!Batches
  <2>2. StreamTypes /\ Quiet /\ client = "idle"
    BY <1>2 DEF Aligned, Engaged, Fetch
  <2>3. StreamTypes'
    BY <1>2, <2>1, <2>2 DEF Fetch, StreamTypes, wireVars, stockVars
  <2>4. Quiet' /\ client' = "sending"
    BY <1>2, <2>1, <2>2 DEF Fetch, Quiet, wireVars, serverVars
  <2> QED
    BY <2>3, <2>4 DEF Aligned
<1>3. CASE SendRequest
  <2>1. StreamTypes /\ Quiet /\ client = "sending"
    BY <1>3 DEF Aligned, Engaged, SendRequest
  <2>2. StreamTypes'
    BY <1>3, <2>1 DEF SendRequest, StreamTypes, stockVars
  <2>3. up' = <<asked>> /\ link' = "up" /\ server' = server /\ server # "serving"
    BY <1>3, <2>1 DEF SendRequest, Quiet, serverVars
  <2>4. Quiet' /\ client' = "reading"
    BY <1>3, <2>1, <2>3 DEF SendRequest, Quiet
  <2>5. out' = <<>> /\ down' = <<>> /\ asked' = asked /\ 0 < Len(asked)
    BY <1>3, <2>1 DEF SendRequest, Quiet
  <2>6. InStep'
    BY <2>1, <2>3, <2>5 DEF InStep, StreamTypes
  <2> QED
    BY <2>2, <2>4, <2>6 DEF Aligned
<1>4. CASE ReadAnswer
  <2>1. StreamTypes /\ Quiet /\ InStep /\ client = "reading" /\ down # <<>>
    BY <1>4 DEF Aligned, Engaged, ReadAnswer
  <2>2. /\ out' = Append(out, Head(down)) /\ down' = Tail(down)
        /\ UNCHANGED <<asked, server, batch, next, up, link, stock, seen>>
    BY <1>4 DEF ReadAnswer, serverVars, stockVars
  <2>3. /\ Head(down) = down[1] /\ Head(down) \in Frames /\ Len(down) > 0
        /\ Len(down') = Len(down) - 1 /\ Len(out') = Len(out) + 1
        /\ \A i \in 1 .. Len(down') : down'[i] = down[i + 1]
        /\ \A i \in 1 .. Len(out) : out'[i] = out[i]
        /\ out'[Len(out) + 1] = down[1]
        /\ out' \in Seq(Frames) /\ down' \in Seq(Frames)
    BY <2>1, <2>2 DEF StreamTypes
  <2>4. StreamTypes'
    BY <2>1, <2>2, <2>3 DEF StreamTypes
  <2>5. up = <<>> /\ link = "up"
    BY <2>1 DEF Quiet, InStep, StreamTypes
  <2>6. CASE Len(out) + 1 = Len(asked)
    <3>1. client' = "idle"
      BY <1>4, <2>6 DEF ReadAnswer
    <3>2. server # "serving"
      BY <2>1, <2>3, <2>5, <2>6 DEF InStep, StreamTypes
    <3>3. down' = <<>>
      BY <2>1, <2>3, <2>6 DEF InStep, StreamTypes
    <3> QED
      BY <2>2, <2>4, <2>5, <3>1, <3>2, <3>3 DEF Aligned, Quiet
  <2>7. CASE Len(out) + 1 # Len(asked)
    <3>1. client' = "reading"
      BY <1>4, <2>7 DEF ReadAnswer
    <3>2. \A i \in 1 .. Len(out') : Fits(out'[i], i)
      <4> SUFFICES ASSUME NEW i \in 1 .. Len(out') PROVE Fits(out'[i], i)
        OBVIOUS
      <4>1. CASE i <= Len(out)
        BY <2>1, <2>3, <4>1 DEF InStep, StreamTypes
      <4>2. CASE i = Len(out) + 1
        <5>1. Fits(down[1], Len(out) + 1)
          BY <2>1, <2>3 DEF InStep, StreamTypes
        <5> QED
          BY <2>3, <4>2, <5>1
      <4> QED
        BY <2>1, <2>3, <4>1, <4>2 DEF StreamTypes
    <3>3. \A i \in 1 .. Len(down') : Fits(down'[i], Len(out') + i)
      <4> SUFFICES ASSUME NEW i \in 1 .. Len(down')
                   PROVE Fits(down'[i], Len(out') + i)
        OBVIOUS
      <4>1. Fits(down[i + 1], Len(out) + (i + 1))
        BY <2>1, <2>3 DEF InStep, StreamTypes
      <4>2. Len(out) + (i + 1) = Len(out') + i /\ down'[i] = down[i + 1]
        BY <2>1, <2>3 DEF StreamTypes
      <4> QED
        BY <4>1, <4>2
    <3>4. Len(out') < Len(asked) /\ Len(out') + Len(down') = Len(out) + Len(down)
      BY <2>1, <2>3, <2>7 DEF InStep, StreamTypes
    <3>5. InStep'
      BY <2>1, <2>2, <2>5, <3>2, <3>3, <3>4 DEF InStep, Fits
    <3>6. Quiet'
      BY <2>2, <2>5, <3>1 DEF Quiet
    <3> QED
      BY <2>4, <3>1, <3>5, <3>6 DEF Aligned
  <2> QED
    BY <2>6, <2>7
<1>5. ASSUME FetchError \/ FetchDeadline \/ CloseStream \/ Forget PROVE Aligned'
  BY <1>5 DEF FetchError, FetchDeadline, CloseStream, Forget, Drop, Aligned, Engaged
<1> QED
  BY <1>1, <1>2, <1>3, <1>4, <1>5 DEF ClientNext

(* The handler leaves, or goes on without answering.                       *)
LEMMA AlignedAside ==
    ASSUME Aligned, UNCHANGED <<clientVars, wireVars, stockVars>>,
           server' # "serving"
    PROVE  Aligned'
  BY DEF Aligned, Engaged, StreamTypes, Quiet, InStep, Fits,
         clientVars, wireVars, stockVars

(* A reset takes with it what was on its way.                              *)
LEMMA AlignedReset ==
    ASSUME Aligned, ResetStream, UNCHANGED <<clientVars, stockVars>>
    PROVE  Aligned'
<1>1. /\ link' = "reset" /\ up' = <<>> /\ down' = <<>>
      /\ UNCHANGED <<client, asked, out, stock, seen>>
  BY DEF ResetStream, clientVars, stockVars
<1> SUFFICES ASSUME Engaged PROVE Aligned'
  BY <1>1 DEF Aligned, Engaged
<1>2. StreamTypes /\ Quiet /\ (client = "reading" => InStep)
  BY DEF Aligned
<1>3. StreamTypes' /\ Quiet'
  BY <1>1, <1>2 DEF StreamTypes, Quiet
<1>4. client = "reading" => InStep'
  BY <1>1, <1>2 DEF InStep, Fits, StreamTypes
<1> QED
  BY <1>1, <1>3, <1>4 DEF Aligned

(* Steps of the handler.                                                   *)
LEMMA AlignedServer == Aligned /\ ServerNext => Aligned'
<1> SUFFICES ASSUME Aligned, ServerNext PROVE Aligned'
  OBVIOUS
<1>1. CASE StartHandler
  <2>1. CASE relayed /\ ~RelayBulk
    BY <1>1, <2>1, AlignedReset DEF StartHandler
  <2>2. CASE ~(relayed /\ ~RelayBulk)
    BY <1>1, <2>2, AlignedAside DEF StartHandler
  <2> QED
    BY <2>1, <2>2
<1>2. CASE ReadRequest
  <2>1. CASE Len(Head(up)) > MaxBatch
    BY <1>2, <2>1, AlignedReset DEF ReadRequest
  <2>2. CASE ~(Len(Head(up)) > MaxBatch)
    <3>1. /\ server' = "serving" /\ batch' = Head(up) /\ next' = 1
          /\ up # <<>> /\ up' = Tail(up)
          /\ UNCHANGED <<client, asked, out, stock, seen, down, link>>
      BY <1>2, <2>2 DEF ReadRequest, clientVars, stockVars
    <3> SUFFICES ASSUME Engaged PROVE Aligned'
      BY <3>1 DEF Aligned, Engaged
    <3>2. StreamTypes /\ Quiet /\ InStep /\ client = "reading"
      BY <3>1 DEF Aligned, Engaged, Quiet
    <3>3. up = <<asked>> /\ out = <<>> /\ down = <<>>
      BY <3>1, <3>2 DEF InStep
    <3>4. up' = <<>> /\ batch' = asked
      BY <3>1, <3>3
    <3>5. StreamTypes' /\ Quiet'
      BY <3>1, <3>2, <3>4 DEF StreamTypes, Quiet
    <3>6. InStep'
      BY <3>1, <3>2, <3>3, <3>4 DEF InStep, Fits, StreamTypes
    <3> QED
      BY <3>1, <3>5, <3>6 DEF Aligned
  <2> QED
    BY <2>1, <2>2
<1>3. CASE RequestEnd \/ RequestIdle \/ ServeError \/ ServeBlocked
  BY <1>3, AlignedAside DEF RequestEnd, RequestIdle, ServeError, ServeBlocked, Gone
<1>4. CASE ServeBlock
  <2> DEFINE c == batch[next]
  <2>1. /\ server = "serving" /\ link = "up"
        /\ UNCHANGED <<client, asked, out, stock, seen>>
        /\ UNCHANGED <<clientVars, stockVars>>
    BY <1>4 DEF ServeBlock, clientVars, stockVars
  <2> SUFFICES ASSUME Engaged PROVE Aligned'
    BY <2>1 DEF Aligned, Engaged
  <2>5. c \in Cids /\ stock[c] \in {"held", "absent", "broken", "large"}
    <3>1. StreamTypes /\ Quiet /\ InStep /\ client = "reading"
      BY <2>1 DEF Aligned, Engaged, Quiet
    <3>2. batch = asked /\ next \in 1 .. Len(asked)
      BY <2>1, <3>1 DEF InStep, StreamTypes
    <3> QED
      BY <3>1, <3>2 DEF StreamTypes, Holdings, Promise!Holdings
  <2>2. CASE stock[c] = "broken" /\ ResetStream
    BY <2>1, <2>2, AlignedReset
  <2>3. CASE stock[c] = "large" /\ Gone /\ UNCHANGED wireVars
    BY <2>1, <2>3, AlignedAside DEF Gone
  <2>4. ASSUME NEW f, Answer(f),
               \/ f = Block(c) /\ stock[c] = "held"
               \/ f = Missing /\ stock[c] = "absent"
        PROVE  Aligned'
    <3>1. down' = Append(down, f) /\ Answered /\ UNCHANGED <<up, link>>
      BY <2>4 DEF Answer
    <3>2. StreamTypes /\ Quiet /\ InStep /\ client = "reading"
      BY <2>1 DEF Aligned, Engaged, Quiet
    <3>3. /\ batch = asked /\ next = Len(out) + Len(down) + 1
          /\ next <= Len(asked) /\ up = <<>>
      BY <2>1, <3>2 DEF InStep
    <3>4. Len(out) \in Nat /\ Len(down) \in Nat /\ Len(asked) \in Nat
      BY <3>2 DEF StreamTypes
    <3>5. c = asked[next] /\ c \in Cids /\ stock[c] \in seen[c]
      BY <3>2, <3>3, <3>4 DEF StreamTypes
    <3>6. Fits(f, next) /\ f \in Frames
      <4> HIDE DEF c
      <4>1. f \in Answers(c, seen[c]) /\ f \in Frames
        BY <2>4, <3>5, AnswerHeld, AnswerFrames
      <4> QED
        BY <4>1, <3>5 DEF Fits
    <3>7. /\ down' \in Seq(Frames) /\ Len(down') = Len(down) + 1
          /\ \A i \in 1 .. Len(down) : down'[i] = down[i]
          /\ down'[Len(down) + 1] = f
      BY <3>1, <3>2, <3>6 DEF StreamTypes
    <3>8. StreamTypes' /\ Quiet'
      BY <2>1, <3>1, <3>2, <3>7 DEF StreamTypes, Quiet
    <3>9. \A i \in 1 .. Len(down') : Fits(down'[i], Len(out) + i)
      <4> SUFFICES ASSUME NEW i \in 1 .. Len(down')
                   PROVE  Fits(down'[i], Len(out) + i)
        OBVIOUS
      <4>1. CASE i <= Len(down)
        BY <3>2, <3>4, <3>7, <4>1 DEF InStep
      <4>2. CASE i = Len(down) + 1
        <5>1. Len(out) + i = next /\ down'[i] = f
          BY <3>3, <3>4, <3>7, <4>2
        <5> QED
          BY <3>6, <5>1
      <4> QED
        BY <3>4, <3>7, <4>1, <4>2
    <3>10. server' = "serving" => /\ batch' = asked /\ next' = next + 1
                                  /\ next # Len(asked)
      BY <3>1, <3>3 DEF Answered
    <3>11. InStep'
      BY <2>1, <3>1, <3>2, <3>3, <3>4, <3>7, <3>9, <3>10 DEF InStep, Fits
    <3> QED
      BY <2>1, <3>8, <3>11 DEF Aligned
  <2>6. \/ stock[c] = "held" /\ Answer(Block(c))
        \/ stock[c] = "absent" /\ Answer(Missing)
        \/ stock[c] = "broken" /\ ResetStream
        \/ stock[c] = "large" /\ Gone /\ UNCHANGED wireVars
    BY <1>4, <2>5 DEF ServeBlock
  <2> QED
    BY <2>2, <2>3, <2>4, <2>6
<1> QED
  BY <1>1, <1>2, <1>3, <1>4 DEF ServerNext

(* Faults, and changes of the peer's store.                                *)
LEMMA AlignedWorld == Aligned /\ WorldNext => Aligned'
<1> SUFFICES ASSUME Aligned, WorldNext PROVE Aligned'
  OBVIOUS
<1>1. CASE LoseLink
  BY <1>1, AlignedReset DEF LoseLink
<1>2. CASE LoseServer
  BY <1>2, AlignedAside DEF LoseServer
<1>3. CASE LoseClient
  BY <1>3 DEF LoseClient, Aligned, Engaged
<1>4. CASE AlterStock
  <2>1. PICK c \in Cids, h \in Holdings :
            /\ stock' = [stock EXCEPT ![c] = h]
            /\ seen'  = [seen EXCEPT ![c] = @ \cup {h}]
    BY <1>4 DEF AlterStock
  <2>2. /\ StreamTypes /\ Quiet /\ (client = "reading" => InStep)
        /\ UNCHANGED <<client, asked, out, server, batch, next, up, down, link>>
    BY <1>4 DEF AlterStock, Aligned, Engaged, clientVars, serverVars, wireVars
  <2>3. StreamTypes' /\ Quiet'
    BY <2>1, <2>2 DEF StreamTypes, Quiet
  <2>4. \A d \in Cids : seen[d] \subseteq seen'[d]
    BY <2>1, <2>2 DEF StreamTypes
  <2>5. ASSUME client = "reading" PROVE InStep'
    <3>1. InStep
      BY <2>2, <2>5
    <3>2. \A i \in 1 .. Len(asked) : \A f : Fits(f, i) => f \in Answers(asked[i], seen'[asked[i]])
      <4> SUFFICES ASSUME NEW i \in 1 .. Len(asked), NEW f, Fits(f, i)
                   PROVE  f \in Answers(asked[i], seen'[asked[i]])
        OBVIOUS
      <4>1. seen[asked[i]] \subseteq seen'[asked[i]]
        BY <2>2, <2>4 DEF StreamTypes
      <4> QED
        BY <4>1, AnswersGrow DEF Fits
    <3>3. Len(out) \in Nat /\ Len(down) \in Nat /\ Len(asked) \in Nat
      BY <2>2 DEF StreamTypes
    <3>4. /\ \A i \in 1 .. Len(out) : Fits(out[i], i)'
          /\ \A i \in 1 .. Len(down) : Fits(down[i], Len(out) + i)'
      <4>1. ASSUME NEW i \in 1 .. Len(out)
            PROVE  out[i] \in Answers(asked[i], seen'[asked[i]])
        BY <3>1, <3>2, <3>3 DEF InStep
      <4>2. ASSUME NEW i \in 1 .. Len(down)
            PROVE  down[i] \in Answers(asked[Len(out) + i], seen'[asked[Len(out) + i]])
        <5>1. Len(out) + i \in 1 .. Len(asked)
          BY <3>1, <3>3 DEF InStep
        <5> QED
          BY <3>1, <3>2, <5>1 DEF InStep
      <4> QED
        BY <2>2, <4>1, <4>2 DEF Fits
    <3> QED
      BY <2>2, <3>1, <3>4 DEF InStep
  <2> QED
    BY <2>2, <2>3, <2>5 DEF Aligned
<1> QED
  BY <1>1, <1>2, <1>3, <1>4 DEF WorldNext

(* Every step of the client, the handler or the world keeps answers and    *)
(* batch aligned.                                                          *)
LEMMA AlignedStep == Aligned /\ [StreamNext]_streamVars => Aligned'
<1>1. ASSUME Aligned, UNCHANGED streamVars PROVE Aligned'
  BY <1>1 DEF streamVars, clientVars, serverVars, wireVars, stockVars,
              Aligned, Engaged, StreamTypes, Quiet, InStep, Fits
<1> QED
  BY <1>1, AlignedClient, AlignedServer, AlignedWorld DEF StreamNext

(* The two ends are aligned in every state.                                *)
THEOREM StreamAligned == StreamSpec => []Aligned
  BY AlignedInit, AlignedStep, PTL DEF StreamSpec

-----------------------------------------------------------------------------
(* The stream implements the promise                                       *)

(* Steps that leave the caller's view alone.                               *)
LEMMA PromiseStutter ==
    ASSUME UNCHANGED <<client, asked, out, stock, seen>>
    PROVE  UNCHANGED Promise!fetchVars
  BY DEF Promise!fetchVars

(* Steps that end the use of the stream.                                   *)
LEMMA PromiseAbandon ==
    ASSUME Engaged, client' \in {"closed", "lost"}, UNCHANGED <<stock, seen>>
    PROVE  Promise!Abandon
  BY DEF Promise!Abandon, Engaged

(* The stream's initial states are initial states of the abstract fetch.   *)
LEMMA PromiseInit == StreamInit => Promise!FetchInit
  BY DEF StreamInit, Promise!FetchInit

(* Every step of the stream is one of the promise's, or none.              *)
LEMMA PromiseStep ==
    Aligned /\ [StreamNext]_streamVars => [Promise!FetchNext]_(Promise!fetchVars)
<1> SUFFICES ASSUME Aligned, [StreamNext]_streamVars
             PROVE  Promise!FetchNext \/ UNCHANGED Promise!fetchVars
  OBVIOUS
<1>1. ASSUME NEW s \in Stocks, NEW r \in BOOLEAN, OpenStream(s, r)
      PROVE  Promise!Connect
  <2>1. s \in [Cids -> Promise!Holdings]
    BY StockAssumption DEF Holdings
  <2>2. /\ client = "none" /\ client' = "idle" /\ asked' = <<>> /\ out' = <<>>
        /\ stock' = s /\ seen' = [c \in Cids |-> {s[c]}]
    BY <1>1 DEF OpenStream
  <2> QED
    BY <2>1, <2>2 DEF Promise!Connect
<1>2. ASSUME NEW b \in Batches, Fetch(b) PROVE Promise!Begin
  <2>1. /\ client = "idle" /\ client' = "sending" /\ asked' = b /\ out' = <<>>
        /\ stock' = stock /\ seen' = [c \in Cids |-> {stock[c]}]
    BY <1>2 DEF Fetch
  <2> QED
    BY <2>1 DEF Promise!Begin, Batches
<1>3. CASE SendRequest
  <2>1. /\ client = "sending" /\ client' = "reading"
        /\ UNCHANGED <<asked, out, stock, seen>>
    BY <1>3 DEF SendRequest, stockVars
  <2> QED
    BY <2>1 DEF Promise!fetchVars
<1>4. CASE ReadAnswer
  <2>1. StreamTypes /\ InStep /\ client = "reading" /\ down # <<>>
    BY <1>4 DEF Aligned, Engaged, ReadAnswer
  <2>2. /\ out' = Append(out, Head(down))
        /\ UNCHANGED <<asked, stock, seen>>
    BY <1>4 DEF ReadAnswer, stockVars
  <2>3. CASE Len(out) + 1 = Len(asked)
    <3>1. client' = "idle"
      BY <1>4, <2>3 DEF ReadAnswer
    <3>2. /\ out' \in Seq(Frames) /\ Len(out') = Len(asked) /\ asked # <<>>
          /\ \A i \in 1 .. Len(out) : out'[i] = out[i]
          /\ out'[Len(out) + 1] = down[1] /\ 1 \in 1 .. Len(down)
      BY <2>1, <2>2, <2>3 DEF StreamTypes
    <3>3. \A i \in 1 .. Len(asked) : Fits(out'[i], i)
      <4> SUFFICES ASSUME NEW i \in 1 .. Len(asked) PROVE Fits(out'[i], i)
        OBVIOUS
      <4>1. CASE i \in 1 .. Len(out)
        BY <2>1, <3>2, <4>1 DEF InStep
      <4>2. CASE i = Len(out) + 1
        <5>1. Fits(down[1], Len(out) + 1)
          BY <2>1, <3>2 DEF InStep
        <5> QED
          BY <3>2, <4>2, <5>1
      <4> QED
        BY <2>1, <2>3, <4>1, <4>2 DEF StreamTypes
    <3> QED
      BY <2>1, <2>2, <3>1, <3>2, <3>3
      DEF Promise!Return, Promise!FetchNext, Fits, Frames, Answers
  <2>4. CASE Len(out) + 1 # Len(asked)
    <3>1. client' = "reading"
      BY <1>4, <2>4 DEF ReadAnswer
    <3> QED
      BY <2>1, <2>2, <3>1 DEF Promise!fetchVars
  <2> QED
    BY <2>3, <2>4
<1>5. CASE FetchError \/ FetchDeadline \/ CloseStream
  <2>1. Engaged /\ client' = "closed" /\ UNCHANGED <<stock, seen>>
    BY <1>5 DEF FetchError, FetchDeadline, CloseStream, Drop, Engaged, stockVars
  <2> QED
    BY <2>1, PromiseAbandon DEF Promise!FetchNext
<1>6. CASE Forget
  <2>1. client \in {"closed", "lost"} /\ client' = "none"
    BY <1>6 DEF Forget
  <2> QED
    BY <2>1 DEF Promise!Between, Promise!FetchNext
<1>7. CASE ServerNext \/ LoseLink \/ LoseServer
  <2>1. UNCHANGED <<clientVars, stockVars>>
    BY <1>7 DEF ServerNext, LoseLink, LoseServer, StartHandler, ReadRequest,
                RequestEnd, RequestIdle, ServeBlock, ServeError, ServeBlocked
  <2> QED
    BY <2>1, PromiseStutter DEF clientVars, stockVars
<1>8. CASE LoseClient
  <2>1. Engaged /\ client' = "lost" /\ UNCHANGED <<stock, seen>>
    BY <1>8 DEF LoseClient, Engaged, stockVars
  <2> QED
    BY <2>1, PromiseAbandon DEF Promise!FetchNext
<1>9. CASE AlterStock
  <2>1. UNCHANGED <<client, asked, out>>
    BY <1>9 DEF AlterStock, clientVars
  <2> QED
    BY <1>9, <2>1 DEF AlterStock, Holdings, Promise!Alter, Promise!FetchNext
<1>10. CASE UNCHANGED streamVars
  BY <1>10, PromiseStutter DEF streamVars, clientVars, stockVars
<1> QED
  BY <1>1, <1>2, <1>3, <1>4, <1>5, <1>6, <1>7, <1>8, <1>9, <1>10
  DEF StreamNext, ClientNext, WorldNext, Promise!FetchNext

(* blockClient and handleBlocks together keep the promise of BlockFetch:   *)
(* whatever the faults, a Fetch that returns has for every CID, in order,  *)
(* an answer that was true of the peer during the call.                    *)
THEOREM StreamKeepsPromise == StreamSpec => Promise!FetchSpec
  BY PromiseInit, PromiseStep, StreamAligned, PTL DEF StreamSpec, Promise!FetchSpec

=============================================================================
