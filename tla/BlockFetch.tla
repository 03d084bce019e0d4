----------------------------- MODULE BlockFetch -----------------------------
(***************************************************************************)
(* What blockClient promises the code that rebuilds files from a peer,     *)
(* with the stream, the peer's handler and the deadlines hidden: a call    *)
(* asks for a batch of CIDs and returns one answer for each, in the order  *)
(* they were asked for, and every answer is one the peer could have given  *)
(* at some moment of the call; or it fails, and the client is never used   *)
(* again.                                                                  *)
(***************************************************************************)
EXTENDS Sequences, Naturals

CONSTANTS Cids, MaxCall  \* CIDs, and the longest batch a caller asks for

(* What the peer's filestore has for a CID: a block, nothing, a reference  *)
(* whose file is gone or changed, a block that no frame can carry.         *)
Holdings == {"held", "absent", "broken", "large"}

(* A frame of the block protocol: 0x00 and the block, or 0x01 alone.       *)
Block(c) == <<"block", c>>
Missing  == <<"missing">>
Frames   == {Block(c) : c \in Cids} \cup {Missing}

(* The answers to c that are true of one of the holdings H.                *)
Answers(c, H) == {f \in {Block(c), Missing} : \/ f = Block(c) /\ "held" \in H
                                              \/ f = Missing /\ "absent" \in H}

Batches == {b \in Seq(Cids) : 1 <= Len(b) /\ Len(b) <= MaxCall}

VARIABLES
    open,    \* the client may be asked
    call,    \* the batch being fetched, <<>> between calls
    result,  \* what the last call returned, <<>> before and during a call
    stock,   \* what the peer has for every CID
    seen     \* what it had since the call began

fetchVars == <<open, call, result, stock, seen>>

FetchInit == /\ ~open /\ call = <<>> /\ result = <<>>

(* A stream to some peer, which has what it has.                           *)
Connect == /\ ~open
           /\ open' = TRUE /\ call' = <<>> /\ result' = <<>>
           /\ stock' \in [Cids -> Holdings]
           /\ seen' = [c \in Cids |-> {stock'[c]}]

Begin == /\ open /\ call = <<>>
         /\ call' \in Batches /\ result' = <<>>
         /\ seen' = [c \in Cids |-> {stock[c]}]
         /\ UNCHANGED <<open, stock>>

Return == /\ open /\ call # <<>>
          /\ call' = <<>>
          /\ result' \in Seq(Frames) /\ Len(result') = Len(call)
          /\ \A i \in 1 .. Len(call) : result'[i] \in Answers(call[i], seen[call[i]])
          /\ UNCHANGED <<open, stock, seen>>

Abandon == /\ open
           /\ open' = FALSE /\ call' = <<>> /\ result' = <<>>
           /\ UNCHANGED <<stock, seen>>

(* Between streams there is no peer to speak of.                           *)
Between == ~open /\ UNCHANGED <<open, call, result>>

(* The peer ingests, evicts, or loses a file.                              *)
Alter == \E c \in Cids, h \in Holdings :
            /\ stock' = [stock EXCEPT ![c] = h]
            /\ seen'  = [seen EXCEPT ![c] = @ \cup {h}]
            /\ UNCHANGED <<open, call, result>>

FetchNext == Connect \/ Begin \/ Return \/ Abandon \/ Alter \/ Between

FetchSpec == FetchInit /\ [][FetchNext]_fetchVars

=============================================================================
